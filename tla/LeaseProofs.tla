---------------------------- MODULE LeaseProofs ----------------------------
(***************************************************************************)
(* Machine-checked proofs about Lease, for every number of workers, chunk  *)
(* size and sequence of leases.  Each part of IInv (LeaseInvariant) has a  *)
(* lemma saying that every step of Next preserves it, with one proof step  *)
(* per action.                                                             *)
(*                                                                         *)
(* What the total and the best score mean, whatever the way jobs overtake  *)
(* each other, comes after that.  No shuffle is counted twice: chunk q     *)
(* belongs to worker q % num_workers, and every counted index lies below   *)
(* its owner's position.  A total grows beyond its lease by one late chunk *)
(* per worker at most.  While one lease is all there was, nothing of a     *)
(* slice is left out behind its worker, and the best of what was counted   *)
(* is in global_best or about to get there.                                *)
(***************************************************************************)
EXTENDS LeaseInvariant, FiniteSetTheorems, TLAPS

(* worker_push_job's reset of the score keeps the rest of global_best.     *)
LEMMA ResetKeepsType ==
  ASSUME NEW r \in Result
  PROVE  [r EXCEPT !.best_correct = -1] \in Result
BY DEF Result, Score

(* Types.  The score compute_run returns is in range because the worker    *)
(* holds the job of its generation, and its chunk lies in that job's window.*)
LEMMA TypeOKStep == ASSUME IInv, Next PROVE TypeOK'
<1> USE ParametersAssumption, LeasesAssumption DEF IInv, TypeOK, Generations,
      service, lease, total, best, locals, worker, reads, reporter, reported
<1>1. CASE PushJob BY <1>1 DEF PushJob, CanLockLease
<1>2. CASE ResetTotal BY <1>2 DEF ResetTotal
<1>3. CASE ResetBest
  <2>1. global_best' \in Result
    BY <1>3, ResetKeepsType DEF ResetBest
  <2> QED BY <1>3, <2>1 DEF ResetBest, Score
<1>4. CASE StartOrWake BY <1>4 DEF StartOrWake
<1>5. CASE ClientShutdown BY <1>5 DEF ClientShutdown
<1>6. ASSUME NEW w \in Workers, WorkerExit(w) PROVE TypeOK' BY <1>6 DEF WorkerExit
<1>7. ASSUME NEW w \in Workers, WaitForLease(w) PROVE TypeOK'
  BY <1>7 DEF WaitForLease, CanLockLease
<1>8. ASSUME NEW w \in Workers, SpuriousWake(w) PROVE TypeOK'
  BY <1>8 DEF SpuriousWake
<1>9. ASSUME NEW w \in Workers, TakeLease(w) PROVE TypeOK'
  BY <1>9 DEF TakeLease, CanLockLease
<1>10. ASSUME NEW w \in Workers, CopyJob(w) PROVE TypeOK'
  <2>1. FirstChunk(w) \in Nat
    BY DEF FirstChunk, Workers
  <2> QED BY <1>10, <2>1 DEF CopyJob
<1>11. ASSUME NEW w \in Workers, ComputeChunk(w) PROVE TypeOK'
  <2>1. my_gen[w] \in Generations /\ j[w] = Leases[my_gen[w]]
    BY <1>11 DEF ComputeChunk, WorkersPaired, HasLease
  <2>2. PICK found \in ComputeRun(j[w].seed, i[w], Hi(w)) : cr' = [cr EXCEPT ![w] =
     found]
    BY <1>11 DEF ComputeChunk
  <2>3. /\ i[w] \in Nat /\ j[w].seed \in Nat /\ j[w].count \in Nat
        /\ Hi(w) \in Nat /\ Hi(w) <= j[w].count
    BY DEF Hi, Job
  <2>4. PICK x \in i[w] .. Hi(w) - 1 :
            found = [best_correct |-> FixedPoints(j[w].seed, x), best_index |-> x,
                     best_arr |-> <<j[w].seed, x>>]
    BY <2>2 DEF ComputeRun
  <2>5. x \in Nat /\ x \in 0 .. j[w].count - 1
    BY <2>3, <2>4
  <2>6. FixedPoints(Leases[my_gen[w]].seed, x) \in 0 .. 25
    BY <2>1, <2>5
  <2>7. FixedPoints(j[w].seed, x) \in Score
    BY <2>1, <2>6 DEF Score
  <2>8. found \in Result
    BY <2>3, <2>4, <2>5, <2>7 DEF Result, Board
  <2> QED BY <1>11, <2>2, <2>8 DEF ComputeChunk
<1>12. ASSUME NEW w \in Workers, LeaveLease(w) PROVE TypeOK' BY <1>12 DEF LeaveLease
<1>13. ASSUME NEW w \in Workers, AddTotal(w) PROVE TypeOK'
  <2>1. j[w].count \in Nat /\ i[w] \in Nat
    BY DEF Job
  <2>2. i[w] < j[w].count
    BY <1>13 DEF AddTotal, WorkersPaired
  <2>3. ChunkLength(w) \in Nat
    BY <2>1, <2>2 DEF ChunkLength, Hi
  <2> QED BY <1>13, <2>3 DEF AddTotal
<1>14. ASSUME NEW w \in Workers, PeekBest(w) PROVE TypeOK'
  <2>1. Stride \in Nat
    BY DEF Stride
  <2>2. CASE NextChunk(w)
    BY <1>14, <2>1, <2>2 DEF PeekBest, NextChunk
  <2>3. CASE ~NextChunk(w)
    BY <1>14, <2>3 DEF PeekBest
  <2> QED BY <2>2, <2>3
<1>15. ASSUME NEW w \in Workers, MergeBest(w) PROVE TypeOK'
  <2>1. Stride \in Nat
    BY DEF Stride
  <2>2. cr[w].best_correct \in Score
    BY DEF Result
  <2> QED BY <1>15, <2>1, <2>2 DEF MergeBest, NextChunk
<1>16. CASE ReporterLoop BY <1>16 DEF ReporterLoop
<1>17. CASE ReadLeaseGen BY <1>17 DEF ReadLeaseGen, CanLockLease
<1>18. CASE ReadJob BY <1>18 DEF ReadJob
<1>19. CASE ReadTotal BY <1>19 DEF ReadTotal
<1>20. CASE ReadBest
  <2>1. global_best.best_correct \in Score
    BY DEF Result
  <2> QED BY <1>20, <2>1 DEF ReadBest
<1>21. CASE SendResult
  <2>1. sent' \in [seed : Nat, total_done : Nat,
                   best_correct : Score, best_index : Nat, best_arr : Board]
    BY <1>21 DEF SendResult, Job, Result
  <2> QED BY <1>21, <2>1 DEF SendResult
<1> QED
  BY <1>1, <1>2, <1>3, <1>4, <1>5, <1>6, <1>7, <1>8, <1>9, <1>10, <1>11, <1>12,
     <1>13, <1>14, <1>15, <1>16, <1>17, <1>18, <1>19, <1>20, <1>21 DEF Next,
     PushStep, WorkerStep, ReporterStep

(* lease_mutex and best_mutex exclude: what is locked stays with its owner *)
(* until it is unlocked.                                                   *)
LEMMA LocksHeldStep == ASSUME IInv, Next PROVE LocksHeld'
<1> USE ParametersAssumption, LeasesAssumption DEF IInv, LocksHeld, TypeOK, Free,
      Reporter, Workers,
      service, lease, total, best, locals, worker, reads, reporter, reported
<1>1. CASE PushJob BY <1>1 DEF PushJob, CanLockLease
<1>2. CASE ResetTotal BY <1>2 DEF ResetTotal
<1>3. CASE ResetBest BY <1>3 DEF ResetBest, CanLockBest
<1>4. CASE StartOrWake BY <1>4 DEF StartOrWake
<1>5. CASE ClientShutdown BY <1>5 DEF ClientShutdown
<1>6. ASSUME NEW w \in Workers, WorkerExit(w) PROVE LocksHeld'
  BY <1>6 DEF WorkerExit
<1>7. ASSUME NEW w \in Workers, WaitForLease(w) PROVE LocksHeld'
  BY <1>7 DEF WaitForLease, CanLockLease
<1>8. ASSUME NEW w \in Workers, SpuriousWake(w) PROVE LocksHeld'
  BY <1>8 DEF SpuriousWake
<1>9. ASSUME NEW w \in Workers, TakeLease(w) PROVE LocksHeld'
  BY <1>9 DEF TakeLease, CanLockLease
<1>10. ASSUME NEW w \in Workers, CopyJob(w) PROVE LocksHeld' BY <1>10 DEF CopyJob
<1>11. ASSUME NEW w \in Workers, ComputeChunk(w) PROVE LocksHeld'
  BY <1>11 DEF ComputeChunk
<1>12. ASSUME NEW w \in Workers, LeaveLease(w) PROVE LocksHeld'
  BY <1>12 DEF LeaveLease
<1>13. ASSUME NEW w \in Workers, AddTotal(w) PROVE LocksHeld' BY <1>13 DEF AddTotal
<1>14. ASSUME NEW w \in Workers, PeekBest(w) PROVE LocksHeld'
  BY <1>14 DEF PeekBest, NextChunk
<1>15. ASSUME NEW w \in Workers, MergeBest(w) PROVE LocksHeld'
  BY <1>15 DEF MergeBest, NextChunk, CanLockBest
<1>16. CASE ReporterLoop BY <1>16 DEF ReporterLoop
<1>17. CASE ReadLeaseGen BY <1>17 DEF ReadLeaseGen, CanLockLease
<1>18. CASE ReadJob BY <1>18 DEF ReadJob
<1>19. CASE ReadTotal BY <1>19 DEF ReadTotal
<1>20. CASE ReadBest BY <1>20 DEF ReadBest, CanLockBest
<1>21. CASE SendResult BY <1>21 DEF SendResult
<1> QED
  BY <1>1, <1>2, <1>3, <1>4, <1>5, <1>6, <1>7, <1>8, <1>9, <1>10, <1>11, <1>12,
     <1>13, <1>14, <1>15, <1>16, <1>17, <1>18, <1>19, <1>20, <1>21 DEF Next,
     PushStep, WorkerStep, ReporterStep

(* Threads exist, and current_job is set, only once a job was pushed.      *)
LEMMA AfterFirstJobStep == ASSUME IInv, Next PROVE AfterFirstJob'
<1> USE ParametersAssumption, LeasesAssumption DEF IInv, AfterFirstJob, TypeOK,
      LocksHeld,
      service, lease, total, best, locals, worker, reads, reporter, reported
<1>1. CASE PushJob BY <1>1 DEF PushJob, CanLockLease
<1>2. CASE ResetTotal BY <1>2 DEF ResetTotal
<1>3. CASE ResetBest BY <1>3 DEF ResetBest
<1>4. CASE StartOrWake BY <1>4 DEF StartOrWake
<1>5. CASE ClientShutdown BY <1>5 DEF ClientShutdown
<1>6. ASSUME NEW w \in Workers, WorkerExit(w) PROVE AfterFirstJob'
  BY <1>6 DEF WorkerExit
<1>7. ASSUME NEW w \in Workers, WaitForLease(w) PROVE AfterFirstJob'
  BY <1>7 DEF WaitForLease, CanLockLease
<1>8. ASSUME NEW w \in Workers, SpuriousWake(w) PROVE AfterFirstJob'
  BY <1>8 DEF SpuriousWake
<1>9. ASSUME NEW w \in Workers, TakeLease(w) PROVE AfterFirstJob'
  BY <1>9 DEF TakeLease, CanLockLease
<1>10. ASSUME NEW w \in Workers, CopyJob(w) PROVE AfterFirstJob'
  BY <1>10 DEF CopyJob
<1>11. ASSUME NEW w \in Workers, ComputeChunk(w) PROVE AfterFirstJob'
  BY <1>11 DEF ComputeChunk
<1>12. ASSUME NEW w \in Workers, LeaveLease(w) PROVE AfterFirstJob'
  BY <1>12 DEF LeaveLease
<1>13. ASSUME NEW w \in Workers, AddTotal(w) PROVE AfterFirstJob'
  BY <1>13 DEF AddTotal
<1>14. ASSUME NEW w \in Workers, PeekBest(w) PROVE AfterFirstJob'
  BY <1>14 DEF PeekBest
<1>15. ASSUME NEW w \in Workers, MergeBest(w) PROVE AfterFirstJob'
  BY <1>15 DEF MergeBest
<1>16. CASE ReporterLoop BY <1>16 DEF ReporterLoop
<1>17. CASE ReadLeaseGen BY <1>17 DEF ReadLeaseGen, CanLockLease
<1>18. CASE ReadJob BY <1>18 DEF ReadJob
<1>19. CASE ReadTotal BY <1>19 DEF ReadTotal
<1>20. CASE ReadBest BY <1>20 DEF ReadBest
<1>21. CASE SendResult BY <1>21 DEF SendResult
<1> QED
  BY <1>1, <1>2, <1>3, <1>4, <1>5, <1>6, <1>7, <1>8, <1>9, <1>10, <1>11, <1>12,
     <1>13, <1>14, <1>15, <1>16, <1>17, <1>18, <1>19, <1>20, <1>21 DEF Next,
     PushStep, WorkerStep, ReporterStep

(* A worker's copy of the job is that of its generation: lease_mutex keeps *)
(* worker_push_job out between the two reads.                              *)
LEMMA WorkersPairedStep == ASSUME IInv, Next PROVE WorkersPaired'
<1> USE ParametersAssumption, LeasesAssumption DEF IInv, WorkersPaired, TypeOK,
      LocksHeld, AfterFirstJob, HasLease, Workers, Free, Reporter,
      service, lease, total, best, locals, worker, reads, reporter, reported
<1>1. CASE PushJob BY <1>1 DEF PushJob, CanLockLease
<1>2. CASE ResetTotal BY <1>2 DEF ResetTotal
<1>3. CASE ResetBest BY <1>3 DEF ResetBest
<1>4. CASE StartOrWake BY <1>4 DEF StartOrWake
<1>5. CASE ClientShutdown BY <1>5 DEF ClientShutdown
<1>6. ASSUME NEW w \in Workers, WorkerExit(w) PROVE WorkersPaired'
  BY <1>6 DEF WorkerExit
<1>7. ASSUME NEW w \in Workers, WaitForLease(w) PROVE WorkersPaired'
  BY <1>7 DEF WaitForLease, CanLockLease
<1>8. ASSUME NEW w \in Workers, SpuriousWake(w) PROVE WorkersPaired'
  BY <1>8 DEF SpuriousWake
<1>9. ASSUME NEW w \in Workers, TakeLease(w) PROVE WorkersPaired'
  BY <1>9 DEF TakeLease, CanLockLease
<1>10. ASSUME NEW w \in Workers, CopyJob(w) PROVE WorkersPaired'
  BY <1>10 DEF CopyJob
<1>11. ASSUME NEW w \in Workers, ComputeChunk(w) PROVE WorkersPaired'
  BY <1>11 DEF ComputeChunk, Overtaken
<1>12. ASSUME NEW w \in Workers, LeaveLease(w) PROVE WorkersPaired'
  BY <1>12 DEF LeaveLease, Overtaken
<1>13. ASSUME NEW w \in Workers, AddTotal(w) PROVE WorkersPaired'
  BY <1>13 DEF AddTotal
<1>14. ASSUME NEW w \in Workers, PeekBest(w) PROVE WorkersPaired'
  BY <1>14 DEF PeekBest, NextChunk
<1>15. ASSUME NEW w \in Workers, MergeBest(w) PROVE WorkersPaired'
  BY <1>15 DEF MergeBest, NextChunk
<1>16. CASE ReporterLoop BY <1>16 DEF ReporterLoop
<1>17. CASE ReadLeaseGen BY <1>17 DEF ReadLeaseGen, CanLockLease
<1>18. CASE ReadJob BY <1>18 DEF ReadJob
<1>19. CASE ReadTotal BY <1>19 DEF ReadTotal
<1>20. CASE ReadBest BY <1>20 DEF ReadBest
<1>21. CASE SendResult BY <1>21 DEF SendResult
<1> QED
  BY <1>1, <1>2, <1>3, <1>4, <1>5, <1>6, <1>7, <1>8, <1>9, <1>10, <1>11, <1>12,
     <1>13, <1>14, <1>15, <1>16, <1>17, <1>18, <1>19, <1>20, <1>21 DEF Next,
     PushStep, WorkerStep, ReporterStep

(* The same for the reporter's snapshot.                                   *)
LEMMA ReporterPairedStep == ASSUME IInv, Next PROVE ReporterPaired'
<1> USE ParametersAssumption, LeasesAssumption DEF IInv, ReporterPaired, TypeOK,
      LocksHeld, AfterFirstJob, Free, Reporter, Generations,
      service, lease, total, best, locals, worker, reads, reporter, reported
<1>1. CASE PushJob BY <1>1 DEF PushJob, CanLockLease
<1>2. CASE ResetTotal BY <1>2 DEF ResetTotal
<1>3. CASE ResetBest BY <1>3 DEF ResetBest
<1>4. CASE StartOrWake BY <1>4 DEF StartOrWake
<1>5. CASE ClientShutdown BY <1>5 DEF ClientShutdown
<1>6. ASSUME NEW w \in Workers, WorkerExit(w) PROVE ReporterPaired'
  BY <1>6 DEF WorkerExit
<1>7. ASSUME NEW w \in Workers, WaitForLease(w) PROVE ReporterPaired'
  BY <1>7 DEF WaitForLease, CanLockLease
<1>8. ASSUME NEW w \in Workers, SpuriousWake(w) PROVE ReporterPaired'
  BY <1>8 DEF SpuriousWake
<1>9. ASSUME NEW w \in Workers, TakeLease(w) PROVE ReporterPaired'
  BY <1>9 DEF TakeLease, CanLockLease
<1>10. ASSUME NEW w \in Workers, CopyJob(w) PROVE ReporterPaired'
  BY <1>10 DEF CopyJob
<1>11. ASSUME NEW w \in Workers, ComputeChunk(w) PROVE ReporterPaired'
  BY <1>11 DEF ComputeChunk
<1>12. ASSUME NEW w \in Workers, LeaveLease(w) PROVE ReporterPaired'
  BY <1>12 DEF LeaveLease
<1>13. ASSUME NEW w \in Workers, AddTotal(w) PROVE ReporterPaired'
  BY <1>13 DEF AddTotal
<1>14. ASSUME NEW w \in Workers, PeekBest(w) PROVE ReporterPaired'
  BY <1>14 DEF PeekBest
<1>15. ASSUME NEW w \in Workers, MergeBest(w) PROVE ReporterPaired'
  BY <1>15 DEF MergeBest
<1>16. CASE ReporterLoop BY <1>16 DEF ReporterLoop
<1>17. CASE ReadLeaseGen BY <1>17 DEF ReadLeaseGen, CanLockLease
<1>18. CASE ReadJob BY <1>18 DEF ReadJob
<1>19. CASE ReadTotal BY <1>19 DEF ReadTotal
<1>20. CASE ReadBest BY <1>20 DEF ReadBest
<1>21. CASE SendResult BY <1>21 DEF SendResult
<1> QED
  BY <1>1, <1>2, <1>3, <1>4, <1>5, <1>6, <1>7, <1>8, <1>9, <1>10, <1>11, <1>12,
     <1>13, <1>14, <1>15, <1>16, <1>17, <1>18, <1>19, <1>20, <1>21 DEF Next,
     PushStep, WorkerStep, ReporterStep

(* Results are copied whole: best_mutex keeps merges out between the        *)
(* reporter's two reads.                                                   *)
LEMMA ResultsWholeStep == ASSUME IInv, Next PROVE ResultsWhole'
<1> USE ParametersAssumption, LeasesAssumption DEF IInv, ResultsWhole, TypeOK,
      LocksHeld, HasResult,
      service, lease, total, best, locals, worker, reads, reporter, reported
<1>1. CASE PushJob BY <1>1 DEF PushJob
<1>2. CASE ResetTotal BY <1>2 DEF ResetTotal
<1>3. CASE ResetBest
  <2>1. global_best'.best_correct = -1
    BY <1>3 DEF ResetBest, Result
  <2> QED BY <1>3, <2>1 DEF ResetBest, CanLockBest, Free, Reporter
<1>4. CASE StartOrWake BY <1>4 DEF StartOrWake
<1>5. CASE ClientShutdown BY <1>5 DEF ClientShutdown
<1>6. ASSUME NEW w \in Workers, WorkerExit(w) PROVE ResultsWhole'
  BY <1>6 DEF WorkerExit
<1>7. ASSUME NEW w \in Workers, WaitForLease(w) PROVE ResultsWhole'
  BY <1>7 DEF WaitForLease
<1>8. ASSUME NEW w \in Workers, SpuriousWake(w) PROVE ResultsWhole'
  BY <1>8 DEF SpuriousWake
<1>9. ASSUME NEW w \in Workers, TakeLease(w) PROVE ResultsWhole'
  BY <1>9 DEF TakeLease
<1>10. ASSUME NEW w \in Workers, CopyJob(w) PROVE ResultsWhole' BY <1>10 DEF CopyJob
<1>11. ASSUME NEW w \in Workers, ComputeChunk(w) PROVE ResultsWhole'
  <2>1. PICK found \in ComputeRun(j[w].seed, i[w], Hi(w)) : cr' = [cr EXCEPT ![w] =
     found]
    BY <1>11 DEF ComputeChunk
  <2>2. OneShuffle(found)
    BY <2>1 DEF ComputeRun, OneShuffle
  <2> QED BY <1>11, <2>1, <2>2 DEF ComputeChunk
<1>12. ASSUME NEW w \in Workers, LeaveLease(w) PROVE ResultsWhole'
  BY <1>12 DEF LeaveLease
<1>13. ASSUME NEW w \in Workers, AddTotal(w) PROVE ResultsWhole'
  BY <1>13 DEF AddTotal
<1>14. ASSUME NEW w \in Workers, PeekBest(w) PROVE ResultsWhole'
  BY <1>14 DEF PeekBest, NextChunk
<1>15. ASSUME NEW w \in Workers, MergeBest(w) PROVE ResultsWhole'
  <2>1. OneShuffle(cr[w])
    BY <1>15 DEF MergeBest
  <2> QED BY <1>15, <2>1 DEF MergeBest, NextChunk, CanLockBest, Free, Reporter
<1>16. CASE ReporterLoop BY <1>16 DEF ReporterLoop
<1>17. CASE ReadLeaseGen BY <1>17 DEF ReadLeaseGen
<1>18. CASE ReadJob BY <1>18 DEF ReadJob
<1>19. CASE ReadTotal BY <1>19 DEF ReadTotal
<1>20. CASE ReadBest BY <1>20 DEF ReadBest, CanLockBest
<1>21. CASE SendResult
  <2>1. OneShuffle(sent')
    BY <1>21 DEF SendResult, OneShuffle
  <2> QED BY <1>21, <2>1 DEF SendResult
<1> QED
  BY <1>1, <1>2, <1>3, <1>4, <1>5, <1>6, <1>7, <1>8, <1>9, <1>10, <1>11, <1>12,
     <1>13, <1>14, <1>15, <1>16, <1>17, <1>18, <1>19, <1>20, <1>21 DEF Next,
     PushStep, WorkerStep, ReporterStep

(* last_reported_total covers what was sent for the current generation;    *)
(* another generation has another seed.                                    *)
LEMMA ReportsRememberedStep == ASSUME IInv, Next PROVE ReportsRemembered'
<1> USE ParametersAssumption, LeasesAssumption DEF IInv, ReportsRemembered, TypeOK,
      LocksHeld, ReporterPaired, Generations,
      service, lease, total, best, locals, worker, reads, reporter, reported
<1>1. CASE PushJob BY <1>1 DEF PushJob
<1>2. CASE ResetTotal BY <1>2 DEF ResetTotal
<1>3. CASE ResetBest BY <1>3 DEF ResetBest
<1>4. CASE StartOrWake BY <1>4 DEF StartOrWake
<1>5. CASE ClientShutdown BY <1>5 DEF ClientShutdown
<1>6. ASSUME NEW w \in Workers, WorkerExit(w) PROVE ReportsRemembered'
  BY <1>6 DEF WorkerExit
<1>7. ASSUME NEW w \in Workers, WaitForLease(w) PROVE ReportsRemembered'
  BY <1>7 DEF WaitForLease
<1>8. ASSUME NEW w \in Workers, SpuriousWake(w) PROVE ReportsRemembered'
  BY <1>8 DEF SpuriousWake
<1>9. ASSUME NEW w \in Workers, TakeLease(w) PROVE ReportsRemembered'
  BY <1>9 DEF TakeLease
<1>10. ASSUME NEW w \in Workers, CopyJob(w) PROVE ReportsRemembered'
  BY <1>10 DEF CopyJob
<1>11. ASSUME NEW w \in Workers, ComputeChunk(w) PROVE ReportsRemembered'
  BY <1>11 DEF ComputeChunk
<1>12. ASSUME NEW w \in Workers, LeaveLease(w) PROVE ReportsRemembered'
  BY <1>12 DEF LeaveLease
<1>13. ASSUME NEW w \in Workers, AddTotal(w) PROVE ReportsRemembered'
  BY <1>13 DEF AddTotal
<1>14. ASSUME NEW w \in Workers, PeekBest(w) PROVE ReportsRemembered'
  BY <1>14 DEF PeekBest
<1>15. ASSUME NEW w \in Workers, MergeBest(w) PROVE ReportsRemembered'
  BY <1>15 DEF MergeBest
<1>16. CASE ReporterLoop BY <1>16 DEF ReporterLoop
<1>17. CASE ReadLeaseGen BY <1>17 DEF ReadLeaseGen
<1>18. CASE ReadJob
  <2>1. CASE current_gen = last_reported_gen
    BY <1>18, <2>1 DEF ReadJob
  <2>2. CASE current_gen # last_reported_gen
    <3>1. last_reported_gen < current_gen /\ current_gen \in Generations
      BY <1>18, <2>2 DEF ReadJob
    <3>2. sent # NoReport => sent.seed # Leases[current_gen].seed
      BY <3>1, FreshSeedsAssumption
    <3>3. sent = NoReport => sent.total_done = 0
      BY DEF NoReport
    <3> QED BY <1>18, <2>2, <3>1, <3>2, <3>3 DEF ReadJob
  <2> QED BY <2>1, <2>2
<1>19. CASE ReadTotal BY <1>19 DEF ReadTotal, NothingNew
<1>20. CASE ReadBest BY <1>20 DEF ReadBest
<1>21. CASE SendResult BY <1>21 DEF SendResult
<1> QED
  BY <1>1, <1>2, <1>3, <1>4, <1>5, <1>6, <1>7, <1>8, <1>9, <1>10, <1>11, <1>12,
     <1>13, <1>14, <1>15, <1>16, <1>17, <1>18, <1>19, <1>20, <1>21 DEF Next,
     PushStep, WorkerStep, ReporterStep


(* Initially, with no job and no thread, the invariant holds.              *)
LEMMA InitIInv == Init => IInv
<1> SUFFICES ASSUME Init PROVE IInv
  OBVIOUS
<1> USE ParametersAssumption DEF Init, NoReport, NoBest, NoJob
<1>1. TypeOK
  <2>1. NoJob \in Job /\ -1 \in Score
    BY DEF Job, Score
  <2>2. NoBest \in Result
    BY DEF Result, Score, Board
  <2>3. NoReport \in [seed : Nat, total_done : Nat,
                     best_correct : Score, best_index : Nat, best_arr : Board]
    BY DEF Score, Board
  <2> HIDE DEF NoJob, NoBest, NoReport
  <2>4. /\ wpc \in [Workers -> {"unborn", "take", "wait", "copy", "chunk", "add",
                               "peek", "merge", "exited"}]
        /\ my_gen \in [Workers -> Nat] /\ j \in [Workers -> Job]
        /\ i \in [Workers -> Nat] /\ cr \in [Workers -> Result]
    BY <2>1, <2>2
  <2>5. lease_gen \in 0 .. MaxLeases /\ sent = NoReport /\ current_job = NoJob
    OBVIOUS
  <2>6. running \in BOOLEAN /\ started \in BOOLEAN
    OBVIOUS
  <2> QED
    BY <2>1, <2>2, <2>3, <2>4, <2>5, <2>6 DEF TypeOK
<1>2. LocksHeld /\ AfterFirstJob
  BY DEF LocksHeld, AfterFirstJob
<1>3. WorkersPaired /\ ReporterPaired
  BY DEF WorkersPaired, ReporterPaired, HasLease
<1>4. ResultsWhole /\ ReportsRemembered
  BY DEF ResultsWhole, ReportsRemembered, HasResult
<1> QED
  BY <1>1, <1>2, <1>3, <1>4 DEF IInv

(* Every step, stuttering included, preserves the invariant.               *)
LEMMA StepIInv == IInv /\ [Next]_vars => IInv'
<1>1. ASSUME IInv, Next PROVE IInv'
  BY <1>1, TypeOKStep, LocksHeldStep, AfterFirstJobStep, WorkersPairedStep,
     ReporterPairedStep, ResultsWholeStep, ReportsRememberedStep DEF IInv
<1>2. ASSUME IInv, UNCHANGED vars PROVE IInv'
  BY <1>2 DEF vars, service, lease, total, best, locals, worker, reads, reporter,
     reported,
     IInv, TypeOK, LocksHeld, AfterFirstJob, WorkersPaired, ReporterPaired,
        ResultsWhole,
     ReportsRemembered, HasLease, HasResult, OneShuffle
<1> QED
  BY <1>1, <1>2

(* The inductive invariant holds in every reachable state.                 *)
THEOREM Invariance == Spec => []IInv
BY InitIInv, StepIInv, PTL DEF Spec

(* worker.c keeps its types: no total below zero, no score out of range.   *)
THEOREM TypeCorrect == Spec => []TypeOK
<1>1. IInv => TypeOK
  BY DEF IInv
<1> QED
  BY <1>1, Invariance, PTL

(* Score, index and board of every report are those of one shuffle.        *)
THEOREM ReportsComeFromOneShuffle == Spec => []ReportSelfConsistent
<1>1. IInv => ReportSelfConsistent
  BY DEF IInv, ResultsWhole, OneShuffle, ReportSelfConsistent
<1> QED
  BY <1>1, Invariance, PTL

(* No worker and no reporter pairs a generation with another one's job.    *)
THEOREM SnapshotsArePaired == Spec => []SnapshotPaired
<1>1. IInv => SnapshotPaired
  BY DEF IInv, WorkersPaired, ReporterPaired, HasLease, SnapshotPaired
<1> QED
  BY <1>1, Invariance, PTL

(* The reports of one lease carry strictly increasing totals.              *)
THEOREM ReportsStrictlyIncrease == Spec => ReportsIncrease
<1>1. ASSUME IInv, SendResult, sent'.seed = sent.seed
      PROVE  sent'.total_done > sent.total_done
  <2>1. sent'.seed = Leases[last_reported_gen].seed /\ sent'.total_done =
     current_total
    BY <1>1 DEF IInv, ReporterPaired, SendResult
  <2>2. sent.total_done <= last_reported_total /\ last_reported_total <
     current_total
    BY <1>1, <2>1 DEF IInv, ReporterPaired, ReportsRemembered, SendResult
  <2>3. sent.total_done \in Nat /\ last_reported_total \in Nat /\ current_total \in
     Nat
    BY <1>1 DEF IInv, TypeOK
  <2> QED
    BY <2>1, <2>2, <2>3
<1>2. IInv => [SendResult /\ sent'.seed = sent.seed => sent'.total_done >
   sent.total_done]_vars
  BY <1>1
<1> QED
  BY <1>2, Invariance, PTL DEF ReportsIncrease

(* Racing merges never replace a better shuffle by a worse one.            *)
THEOREM BestScoreOnlyImproves == Spec => BestOnlyImproves
<1>1. ASSUME IInv, Next, ~ResetBest
      PROVE  global_best'.best_correct >= global_best.best_correct
  <2>1. global_best.best_correct \in Int
    BY <1>1 DEF IInv, TypeOK, Result, Score
  <2>2. ASSUME NEW w \in Workers, MergeBest(w)
        PROVE  global_best'.best_correct >= global_best.best_correct
    <3>1. cr[w].best_correct \in Int
      BY <1>1 DEF IInv, TypeOK, Result, Score
    <3> QED
      BY <2>1, <2>2, <3>1 DEF MergeBest, Improves
  <2>3. CASE UNCHANGED global_best
    BY <2>1, <2>3
  <2>4. \/ UNCHANGED global_best
        \/ \E w \in Workers : MergeBest(w)
    BY <1>1 DEF Next, PushStep, WorkerStep, ReporterStep, PushJob, ResetTotal,
       StartOrWake,
       ClientShutdown, WorkerExit, WaitForLease, SpuriousWake, TakeLease, CopyJob,
       ComputeChunk, LeaveLease, AddTotal, PeekBest, ReporterLoop, ReadLeaseGen,
          ReadJob,
       ReadTotal, ReadBest, SendResult, best
  <2> QED
    BY <2>2, <2>3, <2>4
<1>2. IInv /\ [Next]_vars =>
        [~ResetBest => global_best'.best_correct >= global_best.best_correct]_vars
  BY <1>1
<1> QED
  BY <1>2, Invariance, PTL DEF BestOnlyImproves, Spec

-----------------------------------------------------------------------------
(* Arithmetic of the slices.                                               *)

(* Every index of the window has an owner.                                 *)
LEMMA OwnerIsWorker == \A x \in Nat : Owner(x) \in Workers
BY ParametersAssumption DEF Owner, Workers

(* i = tid * chunk_size is the start of a chunk of worker tid.             *)
LEMMA FirstChunkOwned ==
  ASSUME NEW w \in Workers
  PROVE  FirstChunk(w) \in Nat /\ FirstChunk(w) % chunk_size = 0 /\ Owner(FirstChunk(w)) = w
<1>1. FirstChunk(w) \in Nat /\ FirstChunk(w) \div chunk_size = w
  BY ParametersAssumption DEF FirstChunk, Workers
<1>2. FirstChunk(w) % chunk_size = 0 /\ w % num_workers = w
  BY ParametersAssumption DEF FirstChunk, Workers
<1> QED
  BY <1>1, <1>2 DEF Owner

(* A stride of num_workers * chunk_size leads to the owner's next chunk.   *)
LEMMA StrideKeepsOwner ==
  ASSUME NEW y \in Nat, y % chunk_size = 0
  PROVE  /\ y + Stride \in Nat /\ y + Stride >= y + chunk_size
         /\ (y + Stride) % chunk_size = 0
         /\ Owner(y + Stride) = Owner(y)
<1> DEFINE q == y \div chunk_size
<1>1. q \in Nat /\ y = q * chunk_size
  BY ParametersAssumption
<1> HIDE DEF q
<1>2. y + Stride = (q + num_workers) * chunk_size
  BY <1>1, ParametersAssumption DEF Stride
<1>3. (y + Stride) \div chunk_size = q + num_workers /\ (y + Stride) % chunk_size = 0
  BY <1>1, <1>2, ParametersAssumption
<1>4. (q + num_workers) % num_workers = q % num_workers
  <2> DEFINE d == q \div num_workers
             r == q % num_workers
  <2>1. d \in Nat /\ r \in 0 .. num_workers - 1 /\ q = d * num_workers + r
    BY <1>1, ParametersAssumption
  <2> HIDE DEF d, r
  <2>2. q + num_workers = (d + 1) * num_workers + r
    BY <2>1, ParametersAssumption
  <2>3. ((d + 1) * num_workers + r) % num_workers = r
    BY <2>1, ParametersAssumption
  <2>4. (d * num_workers + r) % num_workers = r
    BY <2>1, ParametersAssumption
  <2> QED
    BY <2>1, <2>2, <2>3, <2>4
<1>5. y \div chunk_size = q
  BY <1>1, ParametersAssumption
<1>6. Stride \in Nat /\ Stride >= chunk_size
  BY ParametersAssumption DEF Stride
<1> QED
  BY <1>3, <1>4, <1>5, <1>6, ParametersAssumption DEF Owner

(* A chunk has one owner.                                                  *)
LEMMA ChunkHasOneOwner ==
  ASSUME NEW y \in Nat, y % chunk_size = 0, NEW x \in y .. y + chunk_size - 1
  PROVE  x \in Nat /\ Owner(x) = Owner(y)
<1> DEFINE q == y \div chunk_size
<1>1. q \in Nat /\ y = q * chunk_size
  BY ParametersAssumption
<1> HIDE DEF q
<1>2. x \in Nat /\ x \div chunk_size = q /\ y \div chunk_size = q
  BY <1>1, ParametersAssumption
<1> QED
  BY <1>2 DEF Owner

-----------------------------------------------------------------------------
(* The chunk AddTotal counts, as a set of <<generation, index>>.           *)
ChunkOf(w) == {<<my_gen[w], x>> : x \in i[w] .. Hi(w) - 1}

(* AddTotal adds to the total exactly the number of shuffles of its chunk. *)
LEMMA ChunkCardinality ==
  ASSUME NEW g \in Nat, NEW a \in Nat, NEW b \in Nat, a < b
  PROVE  LET C == {<<g, x>> : x \in a .. b - 1}
         IN  IsFiniteSet(C) /\ Cardinality(C) = b - a
<1> DEFINE C == {<<g, x>> : x \in a .. b - 1}
           f == [x \in a .. b - 1 |-> <<g, x>>]
<1>1. IsFiniteSet(a .. b - 1) /\ Cardinality(a .. b - 1) = b - a
  BY FS_Interval
<1>2. f \in Bijection(a .. b - 1, C)
  BY DEF Bijection, Injection, Surjection, IsInjective
<1>3. ExistsBijection(a .. b - 1, C)
  BY <1>2 DEF ExistsBijection
<1> QED
  BY <1>1, <1>3, FS_Bijection

(* What a worker is about to count lies in its own slice, at its position. *)
LEMMA ChunkIsNew ==
  ASSUME IInv, SliceInv, NEW w \in Workers, wpc[w] = "add"
  PROVE  /\ i[w] \in Nat /\ Hi(w) \in Nat /\ i[w] < Hi(w) /\ Hi(w) <= i[w] + chunk_size
         /\ \A e \in ChunkOf(w) :
              /\ e \in Nat \X Nat /\ e[1] = my_gen[w] /\ e[2] < i[w] + chunk_size
              /\ Owner(e[2]) = w
         /\ counted \cap ChunkOf(w) = {}
<1>1. i[w] \in Nat /\ my_gen[w] \in Nat /\ j[w].count \in Nat /\ i[w] < j[w].count
  BY DEF IInv, TypeOK, WorkersPaired, Job
<1>2. Hi(w) \in Nat /\ i[w] < Hi(w) /\ Hi(w) <= i[w] + chunk_size
  BY <1>1, ParametersAssumption DEF Hi
<1>3. i[w] % chunk_size = 0 /\ Owner(i[w]) = w
  BY DEF SliceInv, OnChunkBoundary, HasLease
<1>4. ASSUME NEW x \in i[w] .. Hi(w) - 1
      PROVE  x \in Nat /\ x < i[w] + chunk_size /\ Owner(x) = w
  BY <1>1, <1>2, <1>3, ChunkHasOneOwner, ParametersAssumption
<1>5. ASSUME NEW e \in ChunkOf(w)
      PROVE  /\ e \in Nat \X Nat /\ e[1] = my_gen[w] /\ e[2] < i[w] + chunk_size
             /\ Owner(e[2]) = w /\ e[2] >= i[w]
  BY <1>1, <1>2, <1>4 DEF ChunkOf
<1>6. ASSUME NEW e \in counted, e \in ChunkOf(w)
      PROVE  FALSE
  <2>1. e[2] < Done(w)
    BY <1>1, <1>5, <1>6 DEF SliceInv, CountedBelow, Passed
  <2>2. Done(w) = i[w]
    BY DEF Done
  <2> QED
    BY <1>1, <1>5, <1>6, <2>1, <2>2
<1>7. counted \cap ChunkOf(w) = {}
  BY <1>6
<1> QED
  BY <1>1, <1>2, <1>5, <1>7

-----------------------------------------------------------------------------
(* A step that moves no worker to another lease or chunk and counts        *)
(* nothing keeps the slices.                                               *)
LEMMA QuietStep ==
  ASSUME SliceInv, UNCHANGED <<counted, total_done_all, my_gen, i>>,
         \A v \in Workers : HasLease(v)' => HasLease(v),
         \A v \in Workers : Done(v)' = Done(v)
  PROVE  SliceInv'
<1>1. OnChunkBoundary'
  BY DEF SliceInv, OnChunkBoundary, Owner
<1>2. CountedBelow'
  BY OwnerIsWorker DEF SliceInv, CountedBelow, Passed, Owner
<1>3. IsFiniteSet(counted') /\ TotalIsCount'
  BY DEF SliceInv, TotalIsCount
<1> QED
  BY <1>1, <1>2, <1>3 DEF SliceInv

(* Moving on to the next chunk keeps them too.                             *)
LEMMA NextChunkStep ==
  ASSUME IInv, SliceInv, NEW w \in Workers, wpc[w] \in {"peek", "merge"}, NextChunk(w),
         UNCHANGED <<counted, total_done_all>>
  PROVE  SliceInv'
<1>1. /\ i[w] \in Nat /\ i[w] % chunk_size = 0 /\ Owner(i[w]) = w
      /\ wpc = [v \in Workers |-> wpc[v]] /\ i = [v \in Workers |-> i[v]]
  <2>1. i[w] % chunk_size = 0 /\ Owner(i[w]) = w
    BY DEF SliceInv, OnChunkBoundary, HasLease
  <2> QED
    BY <2>1 DEF IInv, TypeOK
<1>2. /\ i'[w] \in Nat /\ i'[w] >= i[w] + chunk_size
      /\ i'[w] % chunk_size = 0 /\ Owner(i'[w]) = w
  BY <1>1, StrideKeepsOwner DEF NextChunk
<1>3. \A v \in Workers : v # w => wpc'[v] = wpc[v] /\ i'[v] = i[v]
  BY <1>1 DEF NextChunk
<1>4. wpc'[w] = "chunk" /\ my_gen' = my_gen
  BY <1>1 DEF NextChunk
<1>5. OnChunkBoundary'
  BY <1>2, <1>3, <1>4 DEF SliceInv, OnChunkBoundary, HasLease, Owner
<1>6. CountedBelow'
  <2>1. Done(w) = i[w] + chunk_size /\ Done(w)' = i'[w]
    BY <1>4 DEF Done
  <2>2. \A v \in Workers : v # w => Done(v)' = Done(v)
    BY <1>3 DEF Done
  <2>3. ASSUME NEW e \in counted
        PROVE  Passed(Owner(e[2]), e)'
    <3>1. PICK v \in Workers : v = Owner(e[2]) /\ Passed(v, e)
      BY OwnerIsWorker DEF SliceInv, CountedBelow
    <3> SUFFICES Passed(v, e)'
      BY <3>1 DEF Passed, Done, Owner
    <3>2. e \in Nat \X Nat
      BY DEF SliceInv, CountedBelow
    <3>3. CASE v = w
      BY <1>1, <1>2, <1>4, <2>1, <3>1, <3>2, <3>3, ParametersAssumption DEF Passed
    <3>4. CASE v # w
      BY <1>4, <2>2, <3>1, <3>2, <3>4 DEF Passed
    <3> QED
      BY <3>3, <3>4
  <2> QED
    BY <1>4, <2>3 DEF SliceInv, CountedBelow, Owner
<1>7. IsFiniteSet(counted') /\ TotalIsCount'
  BY DEF SliceInv, TotalIsCount
<1> QED
  BY <1>5, <1>6, <1>7 DEF SliceInv

(* Counting a chunk.                                                       *)
LEMMA AddTotalStep ==
  ASSUME IInv, SliceInv, NEW w \in Workers, AddTotal(w)
  PROVE  SliceInv'
<1>1. /\ wpc[w] = "add" /\ wpc' = [wpc EXCEPT ![w] = "peek"]
      /\ counted' = counted \cup ChunkOf(w)
      /\ total_done_all' = total_done_all + (Hi(w) - i[w])
      /\ UNCHANGED <<my_gen, i>>
  BY DEF AddTotal, ChunkLength, ChunkOf, locals
<1>2. /\ i[w] \in Nat /\ Hi(w) \in Nat /\ i[w] < Hi(w) /\ Hi(w) <= i[w] + chunk_size
      /\ \A e \in ChunkOf(w) :
           /\ e \in Nat \X Nat /\ e[1] = my_gen[w] /\ e[2] < i[w] + chunk_size
           /\ Owner(e[2]) = w
      /\ counted \cap ChunkOf(w) = {}
  BY <1>1, ChunkIsNew
<1>3. wpc'[w] = "peek" /\ \A v \in Workers : v # w => wpc'[v] = wpc[v]
  BY <1>1 DEF IInv, TypeOK
<1>4. OnChunkBoundary'
  BY <1>1, <1>3 DEF SliceInv, OnChunkBoundary, HasLease, Owner
<1>5. CountedBelow'
  <2>1. Done(w) = i[w] /\ Done(w)' = i[w] + chunk_size
    BY <1>1, <1>3 DEF Done
  <2>2. \A v \in Workers : v # w => Done(v)' = Done(v)
    BY <1>1, <1>3 DEF Done
  <2>3. ASSUME NEW e \in counted
        PROVE  Passed(Owner(e[2]), e)'
    <3>1. PICK v \in Workers : v = Owner(e[2]) /\ Passed(v, e)
      BY OwnerIsWorker DEF SliceInv, CountedBelow
    <3> SUFFICES Passed(v, e)'
      BY <3>1 DEF Passed, Done, Owner
    <3>2. e \in Nat \X Nat
      BY DEF SliceInv, CountedBelow
    <3>3. CASE v = w
      BY <1>1, <1>2, <2>1, <3>1, <3>2, <3>3, ParametersAssumption DEF Passed
    <3>4. CASE v # w
      BY <1>1, <2>2, <3>1, <3>2, <3>4 DEF Passed
    <3> QED
      BY <3>3, <3>4
  <2>4. ASSUME NEW e \in ChunkOf(w)
        PROVE  Passed(Owner(e[2]), e)'
    BY <1>1, <1>2, <2>1 DEF Passed, Done, Owner
  <2> QED
    BY <1>1, <1>2, <2>3, <2>4 DEF SliceInv, CountedBelow, Owner
<1>6. IsFiniteSet(counted') /\ TotalIsCount'
  <2>1. my_gen[w] \in Nat
    BY DEF IInv, TypeOK
  <2>2. IsFiniteSet(ChunkOf(w)) /\ Cardinality(ChunkOf(w)) = Hi(w) - i[w]
    BY <1>2, <2>1, ChunkCardinality DEF ChunkOf
  <2>3. IsFiniteSet(counted) /\ total_done_all = Cardinality(counted)
    BY DEF SliceInv, TotalIsCount
  <2>4. /\ IsFiniteSet(counted \cup ChunkOf(w))
        /\ Cardinality(counted \cup ChunkOf(w)) =
             Cardinality(counted) + Cardinality(ChunkOf(w)) - Cardinality(counted \cap ChunkOf(w))
    BY <2>2, <2>3, FS_Union
  <2>5. Cardinality(counted \cap ChunkOf(w)) = 0
    BY <1>2, FS_EmptySet
  <2>6. Cardinality(counted) \in Nat
    BY <2>3, FS_CardinalityType
  <2> QED
    BY <1>1, <1>2, <2>2, <2>3, <2>4, <2>5, <2>6 DEF TotalIsCount
<1> QED
  BY <1>4, <1>5, <1>6 DEF SliceInv

(* A worker that takes a newer lease has counted nothing of it yet.        *)
LEMMA TakeLeaseStep ==
  ASSUME IInv, SliceInv, NEW w \in Workers, TakeLease(w)
  PROVE  SliceInv'
<1>1. /\ my_gen[w] \in Nat /\ lease_gen \in Nat /\ my_gen[w] < lease_gen
      /\ my_gen'[w] = lease_gen /\ wpc'[w] = "copy"
      /\ \A v \in Workers : v # w => my_gen'[v] = my_gen[v] /\ wpc'[v] = wpc[v]
      /\ UNCHANGED <<i, counted, total_done_all>>
  BY ParametersAssumption DEF TakeLease, IInv, TypeOK, WorkersPaired, total
<1>2. OnChunkBoundary'
  BY <1>1 DEF SliceInv, OnChunkBoundary, HasLease, Owner
<1>3. CountedBelow'
  <2>1. \A v \in Workers : v # w => Done(v)' = Done(v)
    BY <1>1 DEF Done
  <2>2. ASSUME NEW e \in counted
        PROVE  Passed(Owner(e[2]), e)'
    <3>1. PICK v \in Workers : v = Owner(e[2]) /\ Passed(v, e)
      BY OwnerIsWorker DEF SliceInv, CountedBelow
    <3> SUFFICES Passed(v, e)'
      BY <3>1 DEF Passed, Done, Owner
    <3>2. e \in Nat \X Nat
      BY DEF SliceInv, CountedBelow
    <3>3. CASE v = w
      BY <1>1, <3>1, <3>2, <3>3 DEF Passed
    <3>4. CASE v # w
      BY <1>1, <2>1, <3>1, <3>2, <3>4 DEF Passed
    <3> QED
      BY <3>3, <3>4
  <2> QED
    BY <1>1, <2>2 DEF SliceInv, CountedBelow, Owner
<1>4. IsFiniteSet(counted') /\ TotalIsCount'
  BY <1>1 DEF SliceInv, TotalIsCount
<1> QED
  BY <1>2, <1>3, <1>4 DEF SliceInv

(* Copying the job puts the worker at the start of its slice.              *)
LEMMA CopyJobStep ==
  ASSUME IInv, SliceInv, NEW w \in Workers, CopyJob(w)
  PROVE  SliceInv'
<1>1. /\ wpc[w] = "copy" /\ wpc'[w] = "chunk" /\ i'[w] = FirstChunk(w)
      /\ \A v \in Workers : v # w => i'[v] = i[v] /\ wpc'[v] = wpc[v]
      /\ UNCHANGED <<my_gen, counted, total_done_all>>
  BY DEF CopyJob, IInv, TypeOK, total
<1>2. OnChunkBoundary'
  BY <1>1, FirstChunkOwned DEF SliceInv, OnChunkBoundary, HasLease, Owner
<1>3. CountedBelow'
  <2>1. Done(w) = 0 /\ \A v \in Workers : v # w => Done(v)' = Done(v)
    BY <1>1 DEF Done
  <2>2. ASSUME NEW e \in counted
        PROVE  Passed(Owner(e[2]), e)'
    <3>1. PICK v \in Workers : v = Owner(e[2]) /\ Passed(v, e)
      BY OwnerIsWorker DEF SliceInv, CountedBelow
    <3> SUFFICES Passed(v, e)'
      BY <3>1 DEF Passed, Done, Owner
    <3>2. e \in Nat \X Nat
      BY DEF SliceInv, CountedBelow
    <3>3. CASE v = w
      BY <1>1, <2>1, <3>1, <3>2, <3>3 DEF Passed
    <3>4. CASE v # w
      BY <1>1, <2>1, <3>1, <3>2, <3>4 DEF Passed
    <3> QED
      BY <3>3, <3>4
  <2> QED
    BY <1>1, <2>2 DEF SliceInv, CountedBelow, Owner
<1>4. IsFiniteSet(counted') /\ TotalIsCount'
  BY <1>1 DEF SliceInv, TotalIsCount
<1> QED
  BY <1>2, <1>3, <1>4 DEF SliceInv

(* The reset forgets what was counted.                                     *)
LEMMA ResetTotalStep ==
  ASSUME SliceInv, ResetTotal
  PROVE  SliceInv'
BY FS_EmptySet DEF ResetTotal, SliceInv, OnChunkBoundary, CountedBelow, TotalIsCount,
   HasLease, Owner, worker, locals

-----------------------------------------------------------------------------
(* Every step keeps the slices.                                            *)
LEMMA SliceInvStep ==
  ASSUME IInv, SliceInv, Next
  PROVE  SliceInv'
<1> USE DEF IInv, TypeOK, HasLease, Done, total, worker, locals
<1>1. CASE PushJob
  BY <1>1, QuietStep DEF PushJob
<1>2. CASE ResetBest
  BY <1>2, QuietStep DEF ResetBest
<1>3. CASE StartOrWake
  BY <1>3, QuietStep DEF StartOrWake, Woken
<1>4. CASE ClientShutdown
  BY <1>4, QuietStep DEF ClientShutdown
<1>5. CASE ResetTotal
  BY <1>5, ResetTotalStep
<1>6. ASSUME NEW w \in Workers, WorkerExit(w) PROVE SliceInv'
  BY <1>6, QuietStep DEF WorkerExit
<1>7. ASSUME NEW w \in Workers, WaitForLease(w) PROVE SliceInv'
  BY <1>7, QuietStep DEF WaitForLease
<1>8. ASSUME NEW w \in Workers, SpuriousWake(w) PROVE SliceInv'
  BY <1>8, QuietStep DEF SpuriousWake
<1>9. ASSUME NEW w \in Workers, ComputeChunk(w) PROVE SliceInv'
  BY <1>9, QuietStep DEF ComputeChunk
<1>10. ASSUME NEW w \in Workers, LeaveLease(w) PROVE SliceInv'
  BY <1>10, QuietStep DEF LeaveLease
<1>11. ASSUME NEW w \in Workers, TakeLease(w) PROVE SliceInv'
  BY <1>11, TakeLeaseStep
<1>12. ASSUME NEW w \in Workers, CopyJob(w) PROVE SliceInv'
  BY <1>12, CopyJobStep
<1>13. ASSUME NEW w \in Workers, AddTotal(w) PROVE SliceInv'
  BY <1>13, AddTotalStep
<1>14. ASSUME NEW w \in Workers, PeekBest(w) PROVE SliceInv'
  <2>1. CASE NextChunk(w)
    BY <1>14, <2>1, NextChunkStep DEF PeekBest
  <2>2. CASE ~NextChunk(w)
    BY <1>14, <2>2, QuietStep DEF PeekBest
  <2> QED
    BY <2>1, <2>2
<1>15. ASSUME NEW w \in Workers, MergeBest(w) PROVE SliceInv'
  BY <1>15, NextChunkStep DEF MergeBest
<1>16. CASE ReporterLoop
  BY <1>16, QuietStep DEF ReporterLoop
<1>17. CASE ReadLeaseGen
  BY <1>17, QuietStep DEF ReadLeaseGen
<1>18. CASE ReadJob
  BY <1>18, QuietStep DEF ReadJob
<1>19. CASE ReadTotal
  BY <1>19, QuietStep DEF ReadTotal
<1>20. CASE ReadBest
  BY <1>20, QuietStep DEF ReadBest
<1>21. CASE SendResult
  BY <1>21, QuietStep DEF SendResult
<1> QED
  BY <1>1, <1>2, <1>3, <1>4, <1>5, <1>6, <1>7, <1>8, <1>9, <1>10, <1>11, <1>12,
     <1>13, <1>14, <1>15, <1>16, <1>17, <1>18, <1>19, <1>20, <1>21 DEF Next,
     PushStep, WorkerStep, ReporterStep

(* With no worker started and nothing counted, the slices are respected.   *)
LEMMA InitSliceInv == Init => SliceInv
BY FS_EmptySet DEF Init, SliceInv, OnChunkBoundary, CountedBelow, TotalIsCount, HasLease

(* The total is the number of distinct shuffles computed since its reset:  *)
(* workers never overlap, across leases, restarts of the slice and resets. *)
THEOREM NothingCountedTwice == Spec => []TotalIsCount
<1>1. IInv /\ SliceInv /\ [Next]_vars => SliceInv'
  <2>1. ASSUME IInv, SliceInv, UNCHANGED vars PROVE SliceInv'
    BY <2>1, QuietStep DEF vars, total, worker, locals, HasLease, Done
  <2> QED
    BY <2>1, SliceInvStep
<1>2. SliceInv => TotalIsCount
  BY DEF SliceInv
<1> QED
  BY <1>1, <1>2, InitSliceInv, Invariance, PTL DEF Spec

-----------------------------------------------------------------------------
(* How far a total can get beyond its lease.                               *)

(* A step that counts nothing and makes no worker owe a late chunk.        *)
LEMMA QuietLate ==
  ASSUME LateInv, UNCHANGED <<counted, lease_gen, current_job>>,
         push' # "total" => push # "total",
         \A v \in Workers : OwesLateChunk(v)' => OwesLateChunk(v),
         \A e \in counted : Owner(e[2]) \in Workers
  PROVE  LateInv'
BY DEF LateInv, CountedInWindow, OneLateChunkEach, Late, Owner

(* A worker counts a chunk of the newest lease, or its one late chunk.     *)
LEMMA AddTotalLate ==
  ASSUME IInv, SliceInv, LateInv, NEW w \in Workers, AddTotal(w)
  PROVE  LateInv'
<1> SUFFICES ASSUME push # "total"
             PROVE  (CountedInWindow /\ OneLateChunkEach)'
  BY DEF LateInv, AddTotal, service
<1>1. /\ wpc[w] = "add" /\ wpc' = [wpc EXCEPT ![w] = "peek"]
      /\ counted' = counted \cup ChunkOf(w)
      /\ UNCHANGED <<my_gen, lease_gen, current_job>>
  BY DEF AddTotal, ChunkLength, ChunkOf, locals, lease
<1>2. /\ CountedInWindow /\ OneLateChunkEach
      /\ my_gen[w] \in Nat /\ lease_gen \in Nat
      /\ 0 < my_gen[w] /\ my_gen[w] <= lease_gen /\ j[w] = Leases[my_gen[w]]
      /\ current_job = Leases[lease_gen]
      /\ i[w] \in Nat /\ j[w].count \in Nat
  BY <1>1 DEF LateInv, IInv, TypeOK, WorkersPaired, AfterFirstJob, HasLease, Job
<1>3. ASSUME NEW e \in ChunkOf(w)
      PROVE  /\ e[1] = my_gen[w] /\ Owner(e[2]) = w /\ e[2] \in Nat
             /\ e[2] < j[w].count
             /\ e[2] \div chunk_size = i[w] \div chunk_size
  <2>1. /\ e[1] = my_gen[w] /\ Owner(e[2]) = w
        /\ Hi(w) \in Nat /\ Hi(w) <= i[w] + chunk_size
    BY <1>1, <1>3, ChunkIsNew
  <2>2. e[2] \in i[w] .. Hi(w) - 1 /\ Hi(w) <= j[w].count
    BY <1>2, <1>3, ParametersAssumption DEF ChunkOf, Hi
  <2>3. i[w] % chunk_size = 0
    BY <1>1 DEF SliceInv, OnChunkBoundary, HasLease
  <2>4. e[2] \div chunk_size = i[w] \div chunk_size
    <3> DEFINE q == i[w] \div chunk_size
    <3>1. q \in Nat /\ i[w] = q * chunk_size
      BY <1>2, <2>3, ParametersAssumption
    <3> HIDE DEF q
    <3>2. e[2] \in Nat /\ e[2] >= q * chunk_size /\ e[2] < q * chunk_size + chunk_size
      BY <1>2, <2>1, <2>2, <3>1, ParametersAssumption
    <3> QED
      BY <3>1, <3>2, ParametersAssumption
  <2> QED
    BY <1>2, <2>1, <2>2, <2>4
<1>4. CountedInWindow'
  BY <1>1, <1>2, <1>3 DEF CountedInWindow
<1>5. \A v \in Workers : v # w => wpc'[v] = wpc[v]
  BY <1>1 DEF IInv, TypeOK
<1>6. wpc'[w] = "peek"
  BY <1>1 DEF IInv, TypeOK
<1>7. \A v \in Workers : OwesLateChunk(v)' => v # w /\ OwesLateChunk(v)
  BY <1>1, <1>5, <1>6 DEF OwesLateChunk
<1>8. \A e \in counted : Owner(e[2]) \in Workers
  BY OwnerIsWorker DEF SliceInv, CountedBelow
<1>9. ASSUME NEW e \in counted', Late(e)'
      PROVE  ~OwesLateChunk(Owner(e[2]))'
  BY <1>1, <1>2, <1>3, <1>7, <1>8, <1>9 DEF OneLateChunkEach, Late, Owner
<1>10. ASSUME NEW e \in counted, Late(e), e \notin ChunkOf(w), my_gen[w] < lease_gen
       PROVE  Owner(e[2]) # w
  BY <1>1, <1>2, <1>10 DEF OneLateChunkEach, OwesLateChunk
<1>11. ASSUME NEW e \in counted', NEW f \in counted', Late(e)', Late(f)',
              Owner(e[2]) = Owner(f[2])
       PROVE  e[1] = f[1] /\ e[2] \div chunk_size = f[2] \div chunk_size
  <2>1. Late(e) /\ Late(f)
    BY <1>1, <1>11 DEF Late
  <2>2. CASE e \in ChunkOf(w)
    BY <1>1, <1>3, <1>10, <1>11, <2>1, <2>2 DEF Late
  <2>3. CASE e \notin ChunkOf(w) /\ f \in ChunkOf(w)
    BY <1>1, <1>3, <1>10, <1>11, <2>1, <2>3 DEF Late
  <2>4. CASE e \notin ChunkOf(w) /\ f \notin ChunkOf(w)
    BY <1>1, <1>2, <1>11, <2>1, <2>4 DEF OneLateChunkEach
  <2> QED
    BY <2>2, <2>3, <2>4
<1> QED
  BY <1>4, <1>9, <1>11 DEF OneLateChunkEach, Owner

(* Nobody is late for the lease it is on, and a late worker that finds out *)
(* leaves: only AddTotal brings late shuffles in.                          *)
LEMMA LateInvStep ==
  ASSUME IInv, SliceInv, LateInv, Next
  PROVE  LateInv'
<1> USE DEF OwesLateChunk, service, lease, total, worker, locals
<1>0. /\ \A e \in counted : Owner(e[2]) \in Workers
      /\ wpc = [v \in Workers |-> wpc[v]] /\ my_gen = [v \in Workers |-> my_gen[v]]
  BY OwnerIsWorker DEF SliceInv, CountedBelow, IInv, TypeOK
<1>1. CASE PushJob
  BY <1>1 DEF PushJob, LateInv
<1>2. CASE ResetTotal
  BY <1>2 DEF ResetTotal, LateInv, CountedInWindow, OneLateChunkEach
<1>3. CASE ResetBest
  BY <1>0, <1>3, QuietLate DEF ResetBest
<1>4. CASE StartOrWake
  BY <1>0, <1>4, QuietLate DEF StartOrWake, Woken
<1>5. CASE ClientShutdown
  BY <1>0, <1>5, QuietLate DEF ClientShutdown
<1>6. ASSUME NEW w \in Workers, WorkerExit(w) PROVE LateInv'
  BY <1>0, <1>6, QuietLate DEF WorkerExit
<1>7. ASSUME NEW w \in Workers, WaitForLease(w) PROVE LateInv'
  BY <1>0, <1>7, QuietLate DEF WaitForLease
<1>8. ASSUME NEW w \in Workers, SpuriousWake(w) PROVE LateInv'
  BY <1>0, <1>8, QuietLate DEF SpuriousWake
<1>9. ASSUME NEW w \in Workers, TakeLease(w) PROVE LateInv'
  BY <1>0, <1>9, QuietLate DEF TakeLease
<1>10. ASSUME NEW w \in Workers, CopyJob(w) PROVE LateInv'
  BY <1>0, <1>10, QuietLate DEF CopyJob
<1>11. ASSUME NEW w \in Workers, ComputeChunk(w) PROVE LateInv'
  <2>1. my_gen[w] = lease_gen /\ lease_gen \in Nat
    BY <1>11 DEF ComputeChunk, Overtaken, IInv, TypeOK
  <2> QED
    BY <1>0, <1>11, <2>1, QuietLate DEF ComputeChunk
<1>12. ASSUME NEW w \in Workers, LeaveLease(w) PROVE LateInv'
  BY <1>0, <1>12, QuietLate DEF LeaveLease
<1>13. ASSUME NEW w \in Workers, AddTotal(w) PROVE LateInv'
  BY <1>13, AddTotalLate
<1>14. ASSUME NEW w \in Workers, PeekBest(w) PROVE LateInv'
  BY <1>0, <1>14, QuietLate DEF PeekBest, NextChunk
<1>15. ASSUME NEW w \in Workers, MergeBest(w) PROVE LateInv'
  BY <1>0, <1>15, QuietLate DEF MergeBest, NextChunk
<1>16. CASE ReporterStep
  BY <1>0, <1>16, QuietLate DEF ReporterStep, ReporterLoop, ReadLeaseGen, ReadJob,
     ReadTotal, ReadBest, SendResult
<1> QED
  BY <1>1, <1>2, <1>3, <1>4, <1>5, <1>6, <1>7, <1>8, <1>9, <1>10, <1>11, <1>12,
     <1>13, <1>14, <1>15, <1>16 DEF Next, PushStep, WorkerStep

(* What was counted for the lease itself is no more than its window.       *)
LEMMA CurrentAtMostWindow ==
  ASSUME IInv, SliceInv, CountedInWindow
  PROVE  LET C == {e \in counted : e[1] = lease_gen}
         IN  IsFiniteSet(C) /\ Cardinality(C) <= current_job.count
<1> DEFINE C == {e \in counted : e[1] = lease_gen}
           f == [e \in C |-> e[2]]
<1>1. current_job.count \in Nat /\ counted \subseteq Nat \X Nat
  BY DEF IInv, TypeOK, Job, SliceInv, CountedBelow
<1>2. \A e \in C : e = <<lease_gen, e[2]>> /\ e[2] \in 0 .. current_job.count - 1
  BY <1>1 DEF CountedInWindow
<1>3. f \in Injection(C, 0 .. current_job.count - 1)
  BY <1>2 DEF Injection, IsInjective
<1>4. /\ IsFiniteSet(0 .. current_job.count - 1)
      /\ Cardinality(0 .. current_job.count - 1) = current_job.count
  BY <1>1, FS_Interval
<1> QED
  BY <1>3, <1>4, FS_Injection

(* Of the late ones there is at most one chunk for each worker.            *)
LEMMA LateAtMostOneChunkEach ==
  ASSUME IInv, SliceInv, OneLateChunkEach
  PROVE  LET L == {e \in counted : Late(e)}
         IN  IsFiniteSet(L) /\ Cardinality(L) <= num_workers * chunk_size
<1> DEFINE L == {e \in counted : Late(e)}
           Places == Workers \X (0 .. chunk_size - 1)
           f == [e \in L |-> <<Owner(e[2]), e[2] % chunk_size>>]
<1>1. counted \subseteq Nat \X Nat
  BY DEF SliceInv, CountedBelow
<1>2. \A e \in L : e = <<e[1], e[2]>> /\ e[1] \in Nat /\ e[2] \in Nat
  BY <1>1
<1>3. \A e \in L : f[e] \in Places
  BY <1>2, OwnerIsWorker, ParametersAssumption
<1>4. ASSUME NEW e \in L, NEW d \in L, f[e] = f[d]
      PROVE  e = d
  <2>1. Owner(e[2]) = Owner(d[2]) /\ e[2] % chunk_size = d[2] % chunk_size
    BY <1>4
  <2>2. e[1] = d[1] /\ e[2] \div chunk_size = d[2] \div chunk_size
    BY <2>1 DEF OneLateChunkEach
  <2>3. e[2] \in Nat /\ d[2] \in Nat
    BY <1>2
  <2>4. e[2] = d[2]
    BY <2>1, <2>2, <2>3, ParametersAssumption
  <2> QED
    BY <1>2, <2>2, <2>4
<1>5. f \in Injection(L, Places)
  BY <1>3, <1>4 DEF Injection, IsInjective
<1>6. /\ IsFiniteSet(Workers) /\ Cardinality(Workers) = num_workers
      /\ IsFiniteSet(0 .. chunk_size - 1) /\ Cardinality(0 .. chunk_size - 1) = chunk_size
  BY ParametersAssumption, FS_Interval DEF Workers
<1>7. IsFiniteSet(Places) /\ Cardinality(Places) = num_workers * chunk_size
  BY <1>6, FS_Product
<1> QED
  BY <1>5, <1>7, FS_Injection

(* So the total exceeds its window by at most a chunk per worker, and does *)
(* not exceed it at all before a second lease is out.                      *)
LEMMA LateBounds ==
  ASSUME IInv, SliceInv, LateInv
  PROVE  TotalBounded
<1> SUFFICES ASSUME push # "total"
             PROVE  total_done_all <= current_job.count +
                      (IF OneLeaseSoFar THEN 0 ELSE num_workers * chunk_size)
  BY DEF TotalBounded
<1> DEFINE C == {e \in counted : e[1] = lease_gen}
           L == {e \in counted : Late(e)}
<1>1. CountedInWindow /\ OneLateChunkEach
  BY DEF LateInv
<1>2. /\ IsFiniteSet(C) /\ Cardinality(C) <= current_job.count
      /\ IsFiniteSet(L) /\ Cardinality(L) <= num_workers * chunk_size
  BY <1>1, CurrentAtMostWindow, LateAtMostOneChunkEach
<1>3. \A e \in counted : e[1] \in Nat /\ e[1] <= lease_gen /\ e[1] > 0
  <2>1. \A e \in counted : Owner(e[2]) \in Workers /\ e[1] \in Nat
    BY OwnerIsWorker DEF SliceInv, CountedBelow
  <2>2. \A v \in Workers : my_gen[v] \in Nat /\ my_gen[v] <= lease_gen
    BY DEF IInv, TypeOK, WorkersPaired
  <2>3. lease_gen \in Nat
    BY DEF IInv, TypeOK
  <2>4. \A e \in counted : e[1] <= my_gen[Owner(e[2])]
    BY <2>1, <2>2 DEF SliceInv, CountedBelow, Passed
  <2> QED
    BY <1>1, <2>1, <2>2, <2>3, <2>4 DEF CountedInWindow
<1>4. lease_gen \in Nat /\ current_job.count \in Nat /\ num_workers * chunk_size \in Nat
  BY ParametersAssumption DEF IInv, TypeOK, Job
<1>5. counted = C \cup L
  BY <1>3, <1>4 DEF Late
<1>6. C \cap L = {}
  BY <1>4 DEF Late
<1>7. /\ Cardinality(C) \in Nat /\ Cardinality(L) \in Nat
      /\ Cardinality(counted) = Cardinality(C) + Cardinality(L)
  <2>1. Cardinality(C \cup L) = Cardinality(C) + Cardinality(L) - Cardinality(C \cap L)
    BY <1>2, FS_Union
  <2>2. Cardinality(C \cap L) = 0
    BY <1>6, FS_EmptySet
  <2>3. Cardinality(C) \in Nat /\ Cardinality(L) \in Nat
    BY <1>2, FS_CardinalityType
  <2> HIDE DEF C, L
  <2> QED
    BY <1>5, <2>1, <2>2, <2>3
<1>8. total_done_all = Cardinality(counted)
  BY DEF SliceInv, TotalIsCount
<1>9. CASE OneLeaseSoFar
  <2>1. L = {}
    BY <1>3, <1>4, <1>9 DEF Late, OneLeaseSoFar
  <2>2. Cardinality(L) = 0
    BY <2>1, FS_EmptySet
  <2> QED
    BY <1>2, <1>4, <1>7, <1>8, <1>9, <2>2
<1>10. CASE ~OneLeaseSoFar
  BY <1>2, <1>4, <1>7, <1>8, <1>10
<1> QED
  BY <1>9, <1>10

-----------------------------------------------------------------------------
(* The first lease: what is done, and how good the best of it is.          *)

(* Slices: the owner's next index after a chunk is one stride away, and no *)
(* index of its slice precedes its first chunk.                            *)
LEMMA NothingBeforeFirstChunk ==
  ASSUME NEW x \in Nat
  PROVE  x >= FirstChunk(Owner(x))
<1> DEFINE q == x \div chunk_size
           r == q % num_workers
<1>1. q \in Nat /\ q * chunk_size <= x
  BY ParametersAssumption
<1>2. r \in Nat /\ r <= q
  BY <1>1, ParametersAssumption
<1>3. r * chunk_size <= q * chunk_size
  BY <1>1, <1>2, ParametersAssumption
<1>4. Owner(x) = r
  BY DEF Owner
<1> HIDE DEF q, r
<1> QED
  BY <1>1, <1>2, <1>3, <1>4, ParametersAssumption DEF FirstChunk

LEMMA NothingBetweenChunks ==
  ASSUME NEW y \in Nat, y % chunk_size = 0, NEW x \in Nat, Owner(x) = Owner(y),
         x < y + Stride
  PROVE  x < y + chunk_size
<1> DEFINE p == y \div chunk_size
           q == x \div chunk_size
           d == p \div num_workers
           e == q \div num_workers
           r == p % num_workers
<1>1. p \in Nat /\ q \in Nat /\ y = p * chunk_size /\ x < (q + 1) * chunk_size
      /\ q * chunk_size <= x
  BY ParametersAssumption
<1>2. q % num_workers = r
  BY DEF Owner
<1> HIDE DEF p, q
<1>3. d \in Nat /\ e \in Nat /\ r \in Nat /\ p = d * num_workers + r /\ q = e * num_workers + r
  BY <1>1, <1>2, ParametersAssumption
<1> HIDE DEF d, e, r
<1>4. q < p + num_workers
  <2> SUFFICES ASSUME q >= p + num_workers
               PROVE  FALSE
    BY <1>1, ParametersAssumption
  <2>1. q * chunk_size >= (p + num_workers) * chunk_size
    BY <1>1, ParametersAssumption
  <2>2. (p + num_workers) * chunk_size = y + Stride
    BY <1>1, ParametersAssumption DEF Stride
  <2>3. Stride \in Nat /\ q * chunk_size \in Nat
    BY <1>1, ParametersAssumption DEF Stride
  <2> QED
    BY <1>1, <2>1, <2>2, <2>3
<1>5. e * num_workers < (d + 1) * num_workers
  BY <1>3, <1>4, ParametersAssumption
<1>6. e <= d
  <2> SUFFICES ASSUME e >= d + 1
               PROVE  FALSE
    BY <1>3
  <2>1. e * num_workers >= (d + 1) * num_workers
    BY <1>3, ParametersAssumption
  <2> QED
    BY <1>3, <1>5, <2>1, ParametersAssumption
<1>7. q <= p
  <2>1. e * num_workers <= d * num_workers
    BY <1>3, <1>6, ParametersAssumption
  <2>2. e * num_workers \in Nat /\ d * num_workers \in Nat
    BY <1>3, ParametersAssumption
  <2> QED
    BY <1>3, <2>1, <2>2
<1>8. (q + 1) * chunk_size <= (p + 1) * chunk_size
  BY <1>1, <1>7, ParametersAssumption
<1>9. (p + 1) * chunk_size = y + chunk_size /\ (q + 1) * chunk_size \in Nat
  BY <1>1, ParametersAssumption
<1> QED
  BY <1>1, <1>8, <1>9, ParametersAssumption

-----------------------------------------------------------------------------
(* Only a push changes the lease.                                          *)
LEMMA LeaseStays == Next => PushJob \/ UNCHANGED <<lease_gen, current_job>>
BY DEF Next, PushStep, WorkerStep, ReporterStep, ResetTotal, ResetBest, StartOrWake,
   ClientShutdown, WorkerExit, WaitForLease, SpuriousWake, TakeLease, CopyJob,
   ComputeChunk, LeaveLease, AddTotal, PeekBest, MergeBest, ReporterLoop,
   ReadLeaseGen, ReadJob, ReadTotal, ReadBest, SendResult, lease

(* The unlocked score is written with global_best, under the same mutex.   *)
LEMMA AtomicIsBestStep ==
  ASSUME IInv, AtomicIsBest, Next
  PROVE  AtomicIsBest'
BY DEF AtomicIsBest, IInv, TypeOK, Result, Next, PushStep, WorkerStep, ReporterStep,
   PushJob, ResetTotal, ResetBest, StartOrWake, ClientShutdown, WorkerExit,
   WaitForLease, SpuriousWake, TakeLease, CopyJob, ComputeChunk, LeaveLease,
   AddTotal, PeekBest, MergeBest, ReporterLoop, ReadLeaseGen, ReadJob, ReadTotal,
   ReadBest, SendResult, best

(* compute_run returns a best shuffle of the chunk, and nobody else writes *)
(* the result before the worker has added the chunk.                       *)
LEMMA BestOfChunkStep ==
  ASSUME IInv, BestOfChunk, Next
  PROVE  BestOfChunk'
<1> SUFFICES ASSUME NEW v \in Workers, wpc'[v] = "add",
                    NEW x \in i'[v] .. Hi(v)' - 1
             PROVE  FixedPoints(j'[v].seed, x) <= cr'[v].best_correct
  BY DEF BestOfChunk
<1>0. /\ wpc = [w \in Workers |-> wpc[w]] /\ i = [w \in Workers |-> i[w]]
      /\ j = [w \in Workers |-> j[w]] /\ cr = [w \in Workers |-> cr[w]]
  BY DEF IInv, TypeOK
<1>1. CASE ComputeChunk(v)
  <2>1. PICK found \in ComputeRun(j[v].seed, i[v], Hi(v)) : cr'[v] = found
    BY <1>0, <1>1 DEF ComputeChunk
  <2>2. i' = i /\ j' = j /\ Hi(v)' = Hi(v)
    BY <1>1 DEF ComputeChunk, Hi
  <2>3. PICK b \in i[v] .. Hi(v) - 1 :
          /\ found.best_correct = FixedPoints(j[v].seed, b)
          /\ \A y \in i[v] .. Hi(v) - 1 :
               FixedPoints(j[v].seed, b) >= FixedPoints(j[v].seed, y)
    BY <2>1 DEF ComputeRun
  <2>4. ASSUME NEW y \in i[v] .. Hi(v) - 1
        PROVE  FixedPoints(j[v].seed, y) \in 0 .. 25
    <3>1. /\ i[v] \in Nat /\ j[v] = Leases[my_gen[v]] /\ my_gen[v] \in Generations
          /\ j[v].count \in Nat
      <4>1. HasLease(v)
        BY <1>1 DEF ComputeChunk, HasLease
      <4>2. /\ i[v] \in Nat /\ j[v].count \in Nat /\ my_gen[v] \in Nat
            /\ lease_gen \in 0 .. MaxLeases
        BY DEF IInv, TypeOK, Job
      <4>3. my_gen[v] > 0 /\ my_gen[v] <= lease_gen /\ j[v] = Leases[my_gen[v]]
        BY <4>1 DEF IInv, WorkersPaired
      <4> QED
        BY <4>2, <4>3, ParametersAssumption DEF Generations
    <3>2. Hi(v) \in Nat /\ Hi(v) <= j[v].count
      BY <3>1, ParametersAssumption DEF Hi
    <3> QED
      BY <3>1, <3>2, LeasesAssumption
  <2> QED
    BY <2>1, <2>2, <2>3, <2>4
<1>2. CASE ~ComputeChunk(v)
  <2>1. wpc[v] = "add" /\ UNCHANGED <<i[v], j[v], cr[v]>>
    BY <1>0, <1>2 DEF Next, PushStep, WorkerStep, ReporterStep, PushJob, ResetTotal,
       ResetBest, StartOrWake, ClientShutdown, WorkerExit, WaitForLease, SpuriousWake,
       TakeLease, CopyJob, ComputeChunk, LeaveLease, AddTotal, PeekBest, MergeBest,
       NextChunk, ReporterLoop, ReadLeaseGen, ReadJob, ReadTotal, ReadBest,
       SendResult, worker, locals
  <2> QED
    BY <2>1 DEF BestOfChunk, Hi
<1> QED
  BY <1>1, <1>2

(* Before the first lease nothing happens but a shutdown.                  *)
LEMMA BeforeFirstLeaseStep ==
  ASSUME IInv, BeforeFirstLease, Next
  PROVE  BeforeFirstLease'
<1> SUFFICES ASSUME lease_gen' = 0
             PROVE  BeforeFirstLease'
  BY DEF BeforeFirstLease
<1>1. lease_gen = 0 /\ ~PushJob
  BY LeaseStays DEF PushJob, IInv, TypeOK
<1>2. push = "idle" /\ ~started /\ rpc = "unborn"
  BY <1>1 DEF BeforeFirstLease, IInv, AfterFirstJob
<1>3. \A w \in Workers : wpc[w] = "unborn"
  BY <1>1 DEF BeforeFirstLease
<1>4. ClientShutdown
  BY <1>1, <1>2, <1>3 DEF Next, PushStep, WorkerStep, ReporterStep, ResetTotal, ResetBest,
     StartOrWake, WorkerExit, WaitForLease, SpuriousWake, TakeLease, CopyJob,
     ComputeChunk, LeaveLease, AddTotal, PeekBest, MergeBest, ReporterLoop,
     ReadLeaseGen, ReadJob, ReadTotal, ReadBest, SendResult
<1> QED
  BY <1>4 DEF ClientShutdown, BeforeFirstLease, lease, total, best, worker, locals,
     reporter, reported

(* The threads are born behind the resets, and stay born.                  *)
LEMMA BornAfterResetsStep ==
  ASSUME IInv, BornAfterResets, Next, ~PushJob
  PROVE  BornAfterResets'
<1>1. CASE started
  <2>1. started' /\ push' = "idle"
    BY <1>1 DEF BornAfterResets, Next, PushStep, WorkerStep, ReporterStep, ResetTotal,
       ResetBest, StartOrWake, ClientShutdown, WorkerExit, WaitForLease, SpuriousWake,
       TakeLease, CopyJob, ComputeChunk, LeaveLease, AddTotal, PeekBest, MergeBest,
       ReporterLoop, ReadLeaseGen, ReadJob, ReadTotal, ReadBest, SendResult, service
  <2> QED
    BY <2>1 DEF BornAfterResets
<1>2. CASE ~started
  <2>1. counted = {} /\ \A w \in Workers : wpc[w] = "unborn" /\ my_gen[w] = 0
    BY <1>2 DEF BornAfterResets
  <2>2. rpc = "unborn"
    BY <1>2 DEF IInv, AfterFirstJob
  <2>3. ResetTotal \/ ResetBest \/ StartOrWake \/ ClientShutdown
    BY <2>1, <2>2 DEF Next, PushStep, WorkerStep, ReporterStep, WorkerExit,
       WaitForLease, SpuriousWake, TakeLease, CopyJob, ComputeChunk, LeaveLease,
       AddTotal, PeekBest, MergeBest, ReporterLoop, ReadLeaseGen, ReadJob,
       ReadTotal, ReadBest, SendResult
  <2> QED
    BY <1>2, <2>1, <2>3 DEF BornAfterResets, ResetTotal, ResetBest, StartOrWake,
       ClientShutdown, total, worker, locals
<1> QED
  BY <1>1, <1>2

(* A step that moves worker v neither to another chunk nor to another      *)
(* lease, puts it not to sleep and forgets nothing that was counted.       *)
LEMMA QuietSlice ==
  ASSUME NEW v \in Workers, SliceDone(v), UNCHANGED <<lease_gen, current_job, my_gen[v], i[v]>>,
         Done(v)' = Done(v), counted \subseteq counted',
         wpc'[v] \in {"take", "wait"} => wpc[v] \in {"take", "wait"},
         wpc'[v] = "wait" => wpc[v] = "wait"
  PROVE  SliceDone(v)'
BY DEF SliceDone, Owner

(* The worker counts all that its slice holds between two positions.       *)
LEMMA SliceDoneAfterAdd ==
  ASSUME IInv, SliceInv, NEW v \in Workers, SliceDone(v), AddTotal(v)
  PROVE  SliceDone(v)'
<1>1. /\ wpc[v] = "add" /\ wpc'[v] = "peek"
      /\ counted' = counted \cup ChunkOf(v)
      /\ UNCHANGED <<my_gen, i, j, lease_gen, current_job>>
  BY DEF AddTotal, ChunkOf, locals, lease, IInv, TypeOK
<1> SUFFICES ASSUME my_gen[v] = lease_gen,
                    NEW x \in 0 .. current_job.count - 1, Owner(x) = v,
                    x < i[v] + chunk_size
             PROVE  <<lease_gen, x>> \in counted'
  BY <1>1 DEF SliceDone, Done, Owner
<1>2. CASE x < i[v]
  BY <1>1, <1>2 DEF SliceDone, Done
<1>3. CASE x >= i[v]
  <2>1. /\ j[v] = current_job /\ i[v] \in Nat /\ current_job.count \in Nat
    BY <1>1 DEF IInv, TypeOK, WorkersPaired, AfterFirstJob, HasLease, Job
  <2>2. x \in i[v] .. Hi(v) - 1
    BY <1>3, <2>1, ParametersAssumption DEF Hi
  <2> QED
    BY <1>1, <2>2 DEF ChunkOf
<1> QED
  BY <1>1, <1>2, <1>3 DEF IInv, TypeOK

(* Between two chunks of a slice there is nothing of the slice.            *)
LEMMA SliceDoneAfterChunk ==
  ASSUME IInv, SliceInv, NEW v \in Workers, SliceDone(v),
         wpc[v] \in {"peek", "merge"}, NextChunk(v),
         UNCHANGED <<counted, lease_gen, current_job>>
  PROVE  SliceDone(v)'
<1>1. wpc'[v] = "chunk" /\ i'[v] = i[v] + Stride /\ my_gen' = my_gen /\ i[v] \in Nat
  BY DEF NextChunk, IInv, TypeOK
<1>2. i[v] % chunk_size = 0 /\ Owner(i[v]) = v
  BY DEF SliceInv, OnChunkBoundary, HasLease
<1>3. ASSUME my_gen[v] = lease_gen,
             NEW x \in 0 .. current_job.count - 1, Owner(x) = v, x < i[v] + Stride
      PROVE  <<lease_gen, x>> \in counted
  <2>1. x \in Nat
    OBVIOUS
  <2>2. x < i[v] + chunk_size
    BY <1>1, <1>2, <1>3, <2>1, NothingBetweenChunks
  <2> QED
    BY <1>3, <2>2 DEF SliceDone, Done
<1> QED
  BY <1>1, <1>3 DEF SliceDone, Done, Owner

LEMMA SliceDoneStep ==
  ASSUME IInv, SliceInv, BornAfterResets, NEW v \in Workers, SliceDone(v), Next, ~PushJob
  PROVE  SliceDone(v)'
<1> USE DEF Done, service, lease, total, worker, locals
<1>0. /\ wpc = [w \in Workers |-> wpc[w]] /\ my_gen = [w \in Workers |-> my_gen[w]]
      /\ i = [w \in Workers |-> i[w]]
      /\ UNCHANGED <<lease_gen, current_job>>
      /\ lease_gen > 0 \/ push = "idle"
  BY LeaseStays DEF IInv, TypeOK, AfterFirstJob
<1>1. CASE ResetTotal \/ StartOrWake
  <2>1. lease_gen \in Nat /\ lease_gen > 0 /\ push \in {"total", "start"}
    BY <1>0, <1>1 DEF ResetTotal, StartOrWake, IInv, TypeOK
  <2>2. ~started
    BY <2>1 DEF BornAfterResets
  <2>3. wpc[v] = "unborn" /\ my_gen'[v] = 0 /\ wpc'[v] # "wait"
    BY <1>0, <1>1, <2>2 DEF BornAfterResets, ResetTotal, StartOrWake
  <2> QED
    BY <1>0, <2>1, <2>3 DEF SliceDone
<1>2. CASE ResetBest
  BY <1>0, <1>2, QuietSlice DEF ResetBest
<1>3. CASE ClientShutdown
  BY <1>0, <1>3, QuietSlice DEF ClientShutdown
<1>4. ASSUME NEW w \in Workers, WorkerExit(w) PROVE SliceDone(v)'
  BY <1>0, <1>4, QuietSlice DEF WorkerExit
<1>5. ASSUME NEW w \in Workers, WaitForLease(w) PROVE SliceDone(v)'
  <2>1. CASE w = v
    BY <1>0, <1>5, <2>1 DEF WaitForLease, SliceDone, Owner
  <2>2. CASE w # v
    BY <1>0, <1>5, <2>2, QuietSlice DEF WaitForLease
  <2> QED
    BY <2>1, <2>2
<1>6. ASSUME NEW w \in Workers, SpuriousWake(w) PROVE SliceDone(v)'
  BY <1>0, <1>6, QuietSlice DEF SpuriousWake
<1>7. ASSUME NEW w \in Workers, TakeLease(w) PROVE SliceDone(v)'
  <2>1. CASE w = v
    <3>1. Done(v)' = 0 /\ wpc'[v] = "copy"
      BY <1>0, <1>7, <2>1 DEF TakeLease
    <3> QED
      BY <3>1 DEF SliceDone
  <2>2. CASE w # v
    BY <1>0, <1>7, <2>2, QuietSlice DEF TakeLease
  <2> QED
    BY <2>1, <2>2
<1>8. ASSUME NEW w \in Workers, CopyJob(w) PROVE SliceDone(v)'
  <2>1. CASE w = v
    <3>1. Done(v)' = FirstChunk(v) /\ wpc'[v] = "chunk"
      BY <1>0, <1>8, <2>1 DEF CopyJob
    <3>2. FirstChunk(v) \in Nat
      BY FirstChunkOwned
    <3> QED
      BY <3>1, <3>2, NothingBeforeFirstChunk DEF SliceDone, Owner
  <2>2. CASE w # v
    BY <1>0, <1>8, <2>2, QuietSlice DEF CopyJob
  <2> QED
    BY <2>1, <2>2
<1>9. ASSUME NEW w \in Workers, ComputeChunk(w) PROVE SliceDone(v)'
  BY <1>0, <1>9, QuietSlice DEF ComputeChunk
<1>10. ASSUME NEW w \in Workers, LeaveLease(w) PROVE SliceDone(v)'
  <2>1. CASE w = v
    <3>1. /\ wpc[v] = "chunk" /\ wpc'[v] = "take" /\ UNCHANGED <<my_gen, i, counted>>
          /\ i[v] >= j[v].count \/ lease_gen # my_gen[v]
      BY <1>0, <1>10, <2>1 DEF LeaveLease, Overtaken
    <3>2. my_gen[v] = lease_gen => j[v] = current_job
      BY <3>1 DEF IInv, WorkersPaired, AfterFirstJob, HasLease
    <3> QED
      BY <1>0, <3>1, <3>2 DEF SliceDone, Owner
  <2>2. CASE w # v
    BY <1>0, <1>10, <2>2, QuietSlice DEF LeaveLease
  <2> QED
    BY <2>1, <2>2
<1>11. ASSUME NEW w \in Workers, AddTotal(w) PROVE SliceDone(v)'
  <2>1. CASE w = v
    BY <1>11, <2>1, SliceDoneAfterAdd
  <2>2. CASE w # v
    BY <1>0, <1>11, <2>2, QuietSlice DEF AddTotal
  <2> QED
    BY <2>1, <2>2
<1>12. ASSUME NEW w \in Workers, NextChunk(w), wpc[w] \in {"peek", "merge"},
              counted' = counted
       PROVE  SliceDone(v)'
  <2>1. CASE w = v
    BY <1>0, <1>12, <2>1, SliceDoneAfterChunk
  <2>2. CASE w # v
    BY <1>0, <1>12, <2>2, QuietSlice DEF NextChunk
  <2> QED
    BY <2>1, <2>2
<1>13. ASSUME NEW w \in Workers, PeekBest(w) PROVE SliceDone(v)'
  <2>1. CASE NextChunk(w)
    BY <1>12, <1>13, <2>1 DEF PeekBest
  <2>2. CASE ~NextChunk(w)
    BY <1>0, <1>13, <2>2, QuietSlice DEF PeekBest
  <2> QED
    BY <2>1, <2>2
<1>14. ASSUME NEW w \in Workers, MergeBest(w) PROVE SliceDone(v)'
  BY <1>12, <1>14 DEF MergeBest
<1>15. CASE ReporterStep
  BY <1>0, <1>15, QuietSlice DEF ReporterStep, ReporterLoop, ReadLeaseGen, ReadJob,
     ReadTotal, ReadBest, SendResult
<1> QED
  BY <1>1, <1>2, <1>3, <1>4, <1>5, <1>6, <1>7, <1>8, <1>9, <1>10, <1>11, <1>13,
     <1>14, <1>15 DEF Next, PushStep, WorkerStep

(* Every score of the window that was counted is a number.                 *)
LEMMA CountedScores ==
  ASSUME IInv, SliceInv, LateInv, BornAfterResets, lease_gen = 1,
         NEW e \in counted
  PROVE  FixedPoints(current_job.seed, e[2]) \in 0 .. 25
<1>1. push # "total" /\ e \in Nat \X Nat
  BY DEF BornAfterResets, SliceInv, CountedBelow
<1>2. e[1] > 0 /\ (e[1] = lease_gen => e[2] < current_job.count)
  BY <1>1 DEF LateInv, CountedInWindow
<1>3. e[1] <= my_gen[Owner(e[2])] /\ my_gen[Owner(e[2])] <= lease_gen
  BY <1>1, OwnerIsWorker DEF SliceInv, CountedBelow, Passed, IInv, TypeOK, WorkersPaired
<1>4. e[1] = 1
  BY <1>1, <1>2, <1>3, OwnerIsWorker DEF IInv, TypeOK
<1>5. current_job = Leases[1] /\ 1 \in Generations /\ current_job.count \in Nat
  BY ParametersAssumption DEF IInv, TypeOK, AfterFirstJob, Generations, Job
<1>6. e[2] \in 0 .. Leases[1].count - 1
  BY <1>1, <1>2, <1>4, <1>5
<1> QED
  BY <1>5, <1>6, LeasesAssumption

(* A step that counts nothing, lowers no best and lets no result go.       *)
LEMMA QuietBest ==
  ASSUME BestKept, UNCHANGED current_job, counted' \subseteq counted,
         global_best' = global_best,
         \A v \in Workers : wpc[v] \in {"peek", "merge"} =>
           wpc'[v] \in {"peek", "merge"} /\ cr'[v] = cr[v]
  PROVE  BestKept'
<1> SUFFICES ASSUME NEW e \in counted'
             PROVE  LET score == FixedPoints(current_job.seed, e[2])
                    IN  \/ score <= global_best.best_correct
                        \/ \E w \in Workers :
                             wpc'[w] \in {"peek", "merge"} /\ score <= cr'[w].best_correct
  BY DEF BestKept
<1> QED
  BY DEF BestKept

(* Worker w lets its result go when global_best is as good.                *)
LEMMA MergedBest ==
  ASSUME IInv, SliceInv, LateInv, BornAfterResets, lease_gen = 1, BestKept,
         UNCHANGED <<current_job, counted, cr>>,
         NEW w \in Workers, wpc' = [wpc EXCEPT ![w] = "chunk"],
         global_best' \in Result,
         global_best'.best_correct >= global_best.best_correct,
         global_best'.best_correct >= cr[w].best_correct
  PROVE  BestKept'
<1> SUFFICES ASSUME NEW e \in counted
             PROVE  LET score == FixedPoints(current_job.seed, e[2])
                    IN  \/ score <= global_best'.best_correct
                        \/ \E v \in Workers :
                             wpc'[v] \in {"peek", "merge"} /\ score <= cr[v].best_correct
  BY DEF BestKept
<1> DEFINE score == FixedPoints(current_job.seed, e[2])
<1>1. score \in 0 .. 25
  BY CountedScores
<1>2. /\ global_best.best_correct \in -1 .. 25 /\ global_best'.best_correct \in -1 .. 25
      /\ \A v \in Workers : cr[v].best_correct \in -1 .. 25
  BY DEF IInv, TypeOK, Result, Score
<1>3. \/ score <= global_best.best_correct
      \/ \E v \in Workers : wpc[v] \in {"peek", "merge"} /\ score <= cr[v].best_correct
  BY DEF BestKept
<1> HIDE DEF score
<1>4. ASSUME score <= global_best.best_correct
      PROVE  score <= global_best'.best_correct
  BY <1>1, <1>2, <1>4
<1>5. ASSUME NEW v \in Workers, wpc[v] \in {"peek", "merge"}, score <= cr[v].best_correct
      PROVE  \/ score <= global_best'.best_correct
             \/ \E u \in Workers : wpc'[u] \in {"peek", "merge"} /\ score <= cr[u].best_correct
  <2>1. CASE v = w
    BY <1>1, <1>2, <1>5, <2>1
  <2>2. CASE v # w
    BY <1>5, <2>2 DEF IInv, TypeOK
  <2> QED
    BY <2>1, <2>2
<1>6. \/ score <= global_best'.best_correct
      \/ \E u \in Workers : wpc'[u] \in {"peek", "merge"} /\ score <= cr[u].best_correct
  BY <1>3, <1>4, <1>5
<1> QED
  BY <1>6 DEF score

LEMMA BestKeptStep ==
  ASSUME IInv, SliceInv, LateInv, BornAfterResets, lease_gen = 1, BestKept,
         BestOfChunk, AtomicIsBest, Next, ~PushJob
  PROVE  BestKept'
<1> USE DEF service, lease, total, best, worker, locals
<1>0. /\ wpc = [w \in Workers |-> wpc[w]] /\ cr = [w \in Workers |-> cr[w]]
      /\ UNCHANGED <<lease_gen, current_job>>
  BY LeaseStays DEF IInv, TypeOK
<1>1. CASE ResetTotal
  BY <1>0, <1>1 DEF ResetTotal, BestKept
<1>2. CASE ResetBest
  BY <1>0, <1>2 DEF ResetBest, BornAfterResets, BestKept
<1>3. CASE StartOrWake
  BY <1>0, <1>3, QuietBest DEF StartOrWake, Woken
<1>4. CASE ClientShutdown
  BY <1>0, <1>4, QuietBest DEF ClientShutdown
<1>5. ASSUME NEW w \in Workers, WorkerExit(w) PROVE BestKept'
  BY <1>0, <1>5, QuietBest DEF WorkerExit
<1>6. ASSUME NEW w \in Workers, WaitForLease(w) PROVE BestKept'
  BY <1>0, <1>6, QuietBest DEF WaitForLease
<1>7. ASSUME NEW w \in Workers, SpuriousWake(w) PROVE BestKept'
  BY <1>0, <1>7, QuietBest DEF SpuriousWake
<1>8. ASSUME NEW w \in Workers, TakeLease(w) PROVE BestKept'
  BY <1>0, <1>8, QuietBest DEF TakeLease
<1>9. ASSUME NEW w \in Workers, CopyJob(w) PROVE BestKept'
  BY <1>0, <1>9, QuietBest DEF CopyJob
<1>10. ASSUME NEW w \in Workers, ComputeChunk(w) PROVE BestKept'
  <2>1. \A v \in Workers : v # w => cr'[v] = cr[v] /\ wpc'[v] = wpc[v]
    BY <1>0, <1>10 DEF ComputeChunk
  <2>2. wpc[w] = "chunk"
    BY <1>10 DEF ComputeChunk
  <2> QED
    BY <1>0, <1>10, <2>1, <2>2, QuietBest DEF ComputeChunk
<1>11. ASSUME NEW w \in Workers, LeaveLease(w) PROVE BestKept'
  BY <1>0, <1>11, QuietBest DEF LeaveLease
<1>12. ASSUME NEW w \in Workers, AddTotal(w) PROVE BestKept'
  <2>1. /\ wpc[w] = "add" /\ wpc'[w] = "peek" /\ counted' = counted \cup ChunkOf(w)
        /\ UNCHANGED <<cr, global_best, current_job>>
        /\ \A v \in Workers : v # w => wpc'[v] = wpc[v]
    BY <1>0, <1>12 DEF AddTotal, ChunkOf
  <2>2. ASSUME NEW e \in ChunkOf(w)
        PROVE  FixedPoints(current_job.seed, e[2]) <= cr[w].best_correct
    <3>1. PICK x \in i[w] .. Hi(w) - 1 : e = <<my_gen[w], x>>
      BY <2>2 DEF ChunkOf
    <3>2. j[w] = current_job
      BY <2>1 DEF IInv, TypeOK, WorkersPaired, AfterFirstJob, HasLease
    <3>3. FixedPoints(j[w].seed, x) <= cr[w].best_correct
      BY <2>1, <3>1 DEF BestOfChunk
    <3> QED
      BY <3>1, <3>2, <3>3
  <2>3. \A v \in Workers : wpc[v] \in {"peek", "merge"} => wpc'[v] \in {"peek", "merge"}
    BY <2>1
  <2> QED
    BY <2>1, <2>2, <2>3 DEF BestKept
<1>13. ASSUME NEW w \in Workers, PeekBest(w) PROVE BestKept'
  <2>1. CASE cr[w].best_correct > global_best_correct_atomic
    BY <1>0, <1>13, <2>1, QuietBest DEF PeekBest
  <2>2. CASE ~(cr[w].best_correct > global_best_correct_atomic)
    <3>1. global_best.best_correct >= cr[w].best_correct
      BY <2>2 DEF AtomicIsBest, IInv, TypeOK, Result, Score
    <3>2. global_best' = global_best /\ global_best \in Result
      BY <1>13 DEF PeekBest, IInv, TypeOK
    <3>3. global_best'.best_correct >= global_best.best_correct
      BY <3>2 DEF Result, Score
    <3> QED
      BY <1>0, <1>13, <2>2, <3>1, <3>2, <3>3, MergedBest DEF PeekBest, NextChunk
  <2> QED
    BY <2>1, <2>2
<1>14. ASSUME NEW w \in Workers, MergeBest(w) PROVE BestKept'
  <2>1. cr[w] \in Result /\ global_best \in Result /\ global_best' \in {cr[w], global_best}
    BY <1>14 DEF MergeBest, IInv, TypeOK
  <2>2. /\ global_best'.best_correct >= global_best.best_correct
        /\ global_best'.best_correct >= cr[w].best_correct
    BY <1>14, <2>1 DEF MergeBest, Improves, Result, Score
  <2> QED
    BY <1>0, <1>14, <2>1, <2>2, MergedBest DEF MergeBest, NextChunk
<1>15. CASE ReporterStep
  BY <1>0, <1>15, QuietBest DEF ReporterStep, ReporterLoop, ReadLeaseGen, ReadJob,
     ReadTotal, ReadBest, SendResult
<1> QED
  BY <1>1, <1>2, <1>3, <1>4, <1>5, <1>6, <1>7, <1>8, <1>9, <1>10, <1>11, <1>12,
     <1>13, <1>14, <1>15 DEF Next, PushStep, WorkerStep

(* The seed of a board is that of the one lease, all the way to a report.  *)
LEMMA OneSeedStep ==
  ASSUME IInv, lease_gen = 1, OneSeed, Next, ~PushJob
  PROVE  OneSeed'
<1> USE DEF service, lease, total, best, worker, locals, HasResult
<1>0. /\ wpc = [w \in Workers |-> wpc[w]] /\ cr = [w \in Workers |-> cr[w]]
      /\ UNCHANGED <<lease_gen, current_job>> /\ current_job = Leases[1]
  BY LeaseStays DEF IInv, TypeOK, AfterFirstJob
<1>1. \A v \in Workers : HasResult(v)' => cr'[v].best_arr[1] = current_job.seed
  <2> SUFFICES ASSUME NEW v \in Workers, HasResult(v)'
               PROVE  cr'[v].best_arr[1] = current_job.seed
    OBVIOUS
  <2>1. CASE ComputeChunk(v)
    <3>1. PICK found \in ComputeRun(j[v].seed, i[v], Hi(v)) : cr'[v] = found
      BY <1>0, <2>1 DEF ComputeChunk
    <3>2. cr'[v].best_arr[1] = j[v].seed
      BY <3>1 DEF ComputeRun
    <3>3. my_gen[v] = 1 /\ j[v] = current_job
      BY <1>0, <2>1 DEF ComputeChunk, Overtaken, IInv, TypeOK, WorkersPaired, HasLease
    <3> QED
      BY <3>2, <3>3
  <2>2. CASE ~ComputeChunk(v)
    <3>1. HasResult(v) /\ cr'[v] = cr[v]
      BY <1>0, <2>2 DEF Next, PushStep, WorkerStep, ReporterStep, ResetTotal, ResetBest,
         StartOrWake, ClientShutdown, WorkerExit, WaitForLease, SpuriousWake,
         TakeLease, CopyJob, ComputeChunk, LeaveLease, AddTotal, PeekBest, MergeBest,
         NextChunk, ReporterLoop, ReadLeaseGen, ReadJob, ReadTotal, ReadBest, SendResult
    <3> QED
      BY <3>1 DEF OneSeed
  <2> QED
    BY <2>1, <2>2
<1>2. global_best'.best_correct >= 0 => global_best'.best_arr[1] = current_job.seed
  <2>1. ASSUME NEW w \in Workers, MergeBest(w)
        PROVE  global_best' = global_best \/ (global_best' = cr[w] /\ HasResult(w))
    BY <2>1 DEF MergeBest
  <2>2. CASE ResetBest
    BY <2>2 DEF ResetBest, IInv, TypeOK, Result
  <2>3. CASE ~ResetBest /\ \A w \in Workers : ~MergeBest(w)
    <3>1. global_best' = global_best
      BY <2>3 DEF Next, PushStep, WorkerStep, ReporterStep, ResetTotal, StartOrWake,
         ClientShutdown, WorkerExit, WaitForLease, SpuriousWake, TakeLease, CopyJob,
         ComputeChunk, LeaveLease, AddTotal, PeekBest, ReporterLoop, ReadLeaseGen,
         ReadJob, ReadTotal, ReadBest, SendResult
    <3> QED
      BY <3>1 DEF OneSeed
  <2> QED
    BY <2>1, <2>2, <2>3 DEF OneSeed
<1>3. sent' # NoReport => sent'.best_arr[1] = sent'.seed
  <2>1. CASE SendResult
    <3>1. /\ sent'.best_arr = global_best.best_arr /\ sent'.seed = active_job.seed
          /\ rpc = "send"
      BY <2>1 DEF SendResult
    <3>2. global_best.best_correct >= 0 /\ active_job = Leases[1]
      BY <3>1 DEF IInv, TypeOK, ResultsWhole, ReporterPaired
    <3> QED
      BY <1>0, <3>1, <3>2 DEF OneSeed
  <2>2. CASE ~SendResult
    <3>1. sent' = sent
      BY <2>2 DEF Next, PushStep, WorkerStep, ReporterStep, ResetTotal, ResetBest,
         StartOrWake, ClientShutdown, WorkerExit, WaitForLease, SpuriousWake,
         TakeLease, CopyJob, ComputeChunk, LeaveLease, AddTotal, PeekBest, MergeBest,
         ReporterLoop, ReadLeaseGen, ReadJob, ReadTotal, ReadBest, reporter, reported
    <3> QED
      BY <3>1 DEF OneSeed
  <2> QED
    BY <2>1, <2>2
<1> QED
  BY <1>0, <1>1, <1>2, <1>3 DEF OneSeed

-----------------------------------------------------------------------------
LEMMA FirstLeaseStep ==
  ASSUME IInv, SliceInv, LateInv, FirstLeaseInv, Next
  PROVE  FirstLease'
<1> SUFFICES ASSUME lease_gen' = 1
             PROVE  /\ BornAfterResets'
                    /\ \A w \in Workers : SliceDone(w)'
                    /\ BestKept'
                    /\ OneSeed'
  BY DEF FirstLease
<1>1. CASE PushJob
  <2>1. lease_gen = 0
    BY <1>1 DEF PushJob, IInv, TypeOK
  <2>2. /\ ~started /\ counted = {} /\ global_best.best_correct = -1 /\ sent = NoReport
        /\ \A w \in Workers : wpc[w] = "unborn" /\ my_gen[w] = 0
    BY <2>1 DEF FirstLeaseInv, BeforeFirstLease
  <2>3. UNCHANGED <<started, counted, global_best, sent, wpc, my_gen>>
    BY <1>1 DEF PushJob, total, best, worker, locals, reporter, reported
  <2> QED
    BY <2>2, <2>3 DEF BornAfterResets, SliceDone, BestKept, OneSeed, HasResult
<1>2. CASE ~PushJob
  <2>1. lease_gen = 1
    BY <1>2, LeaseStays
  <2>2. /\ BornAfterResets /\ BestKept /\ OneSeed /\ BestOfChunk /\ AtomicIsBest
        /\ \A w \in Workers : SliceDone(w)
    BY <2>1 DEF FirstLeaseInv, FirstLease
  <2> QED
    BY <1>2, <2>1, <2>2, BornAfterResetsStep, SliceDoneStep, BestKeptStep, OneSeedStep
<1> QED
  BY <1>1, <1>2

LEMMA FirstLeaseInvStep ==
  ASSUME IInv, SliceInv, LateInv, FirstLeaseInv, Next
  PROVE  FirstLeaseInv'
<1>1. BeforeFirstLease' /\ BestOfChunk' /\ AtomicIsBest'
  BY BeforeFirstLeaseStep, BestOfChunkStep, AtomicIsBestStep DEF FirstLeaseInv
<1> QED
  BY <1>1, FirstLeaseStep DEF FirstLeaseInv

LEMMA InitFirstLeaseInv == Init => LateInv /\ FirstLeaseInv
BY DEF Init, LateInv, CountedInWindow, OneLateChunkEach, FirstLeaseInv,
   BeforeFirstLease, FirstLease, BestOfChunk, AtomicIsBest, NoBest

(* With every slice done, exactly the window was counted, and nobody holds *)
(* a better result back.                                                   *)
LEMMA AllWaiting ==
  ASSUME IInv, SliceInv, LateInv, FirstLeaseInv
  PROVE  IdleMeansExhausted
<1> SUFFICES ASSUME lease_gen <= 1, \A w \in Workers : wpc[w] = "wait"
             PROVE  /\ total_done_all = current_job.count
                    /\ \A x \in 0 .. current_job.count - 1 :
                         global_best.best_correct >= FixedPoints(current_job.seed, x)
  BY DEF IdleMeansExhausted, OneLeaseSoFar
<1> DEFINE Whole == {<<1, x>> : x \in 0 .. current_job.count - 1}
<1>1. 0 \in Workers
  BY ParametersAssumption DEF Workers
<1>2. lease_gen = 1
  BY <1>1 DEF FirstLeaseInv, BeforeFirstLease, IInv, TypeOK
<1>3. /\ BornAfterResets /\ BestKept /\ started /\ push = "idle"
      /\ \A w \in Workers : SliceDone(w)
  BY <1>1, <1>2 DEF FirstLeaseInv, FirstLease, BornAfterResets
<1>4. \A w \in Workers : my_gen[w] = 1 /\ i[w] >= current_job.count /\ Done(w) = i[w]
  BY <1>2, <1>3 DEF SliceDone, Done
<1>5. ASSUME NEW x \in 0 .. current_job.count - 1
      PROVE  <<1, x>> \in counted
  <2>1. Owner(x) \in Workers
    BY OwnerIsWorker
  <2>2. x < Done(Owner(x))
    BY <1>4, <2>1 DEF IInv, TypeOK, Job
  <2> QED
    BY <1>2, <1>3, <1>4, <2>1, <2>2 DEF SliceDone
<1>6. ASSUME NEW e \in counted
      PROVE  e \in Whole
  <2>1. e \in Nat \X Nat /\ Owner(e[2]) \in Workers
    BY OwnerIsWorker DEF SliceInv, CountedBelow
  <2>2. e[1] <= 1
    BY <1>4, <2>1 DEF SliceInv, CountedBelow, Passed
  <2>3. e[1] = 1 /\ e[2] < current_job.count
    BY <1>2, <1>3, <2>1, <2>2 DEF LateInv, CountedInWindow
  <2>4. current_job.count \in Nat
    BY DEF IInv, TypeOK, Job
  <2>5. e = <<1, e[2]>> /\ e[2] \in 0 .. current_job.count - 1
    BY <2>1, <2>3, <2>4
  <2> QED
    BY <2>5
<1>7. counted = Whole
  BY <1>5, <1>6
<1>8. total_done_all = current_job.count
  <2>1. current_job.count \in Nat /\ total_done_all = Cardinality(counted)
    BY DEF IInv, TypeOK, Job, SliceInv, TotalIsCount
  <2>2. CASE current_job.count = 0
    BY <1>7, <2>1, <2>2, FS_EmptySet
  <2>3. CASE current_job.count > 0
    <3>1. \A g, a \in Nat : a < current_job.count =>
            Cardinality({<<g, x>> : x \in a .. current_job.count - 1}) =
              current_job.count - a
      BY <2>1, ChunkCardinality
    <3>2. Cardinality(Whole) = current_job.count - 0
      BY <2>3, <3>1
    <3> QED
      BY <1>7, <2>1, <3>2
  <2> QED
    BY <2>1, <2>2, <2>3
<1>9. ASSUME NEW x \in 0 .. current_job.count - 1
      PROVE  global_best.best_correct >= FixedPoints(current_job.seed, x)
  <2>1. \A w \in Workers : wpc[w] \notin {"peek", "merge"}
    OBVIOUS
  <2>2. FixedPoints(current_job.seed, x) <= global_best.best_correct
    BY <1>3, <1>5, <2>1 DEF BestKept
  <2>3. FixedPoints(current_job.seed, x) \in 0 .. 25
    BY <1>2, <1>3, <1>5, CountedScores
  <2>4. global_best.best_correct \in -1 .. 25
    BY DEF IInv, TypeOK, Result, Score
  <2> QED
    BY <2>2, <2>3, <2>4
<1> QED
  BY <1>8, <1>9

(* A board of the one seed there is, with its own index and score, is what *)
(* the replay of the server finds.                                         *)
LEMMA OneSeedReplays ==
  ASSUME IInv, FirstLeaseInv
  PROVE  FirstReportReplays
<1> SUFFICES ASSUME lease_gen <= 1, sent # NoReport
             PROVE  Replays(sent)
  BY DEF FirstReportReplays, OneLeaseSoFar, ReportReplays
<1>1. lease_gen = 1
  BY DEF FirstLeaseInv, BeforeFirstLease, IInv, TypeOK
<1>2. sent.best_arr[1] = sent.seed
  BY <1>1 DEF FirstLeaseInv, FirstLease, OneSeed
<1>3. sent.best_arr[2] = sent.best_index
      /\ sent.best_correct = FixedPoints(sent.best_arr[1], sent.best_arr[2])
  BY DEF IInv, ResultsWhole, OneShuffle
<1>4. sent.best_arr \in Nat \X Nat
  BY DEF IInv, TypeOK, Board
<1> QED
  BY <1>2, <1>3, <1>4 DEF Replays

-----------------------------------------------------------------------------
(* The three invariants that go beyond NothingCountedTwice hold together.  *)
LEMMA LeaseInvariance == Spec => [](IInv /\ SliceInv /\ LateInv /\ FirstLeaseInv)
<1>1. IInv /\ SliceInv /\ LateInv /\ FirstLeaseInv /\ [Next]_vars
        => SliceInv' /\ LateInv' /\ FirstLeaseInv'
  <2>1. ASSUME IInv, SliceInv, LateInv, FirstLeaseInv, UNCHANGED vars
        PROVE  SliceInv' /\ LateInv' /\ FirstLeaseInv'
    <3> USE <2>1 DEF vars, service, lease, total, best, worker, locals, reporter,
            reported
    <3>1. SliceInv'
      BY QuietStep DEF HasLease, Done
    <3>2. LateInv'
      BY DEF LateInv, CountedInWindow, OneLateChunkEach, Late, OwesLateChunk, Owner
    <3>3. BeforeFirstLease' /\ BestOfChunk' /\ AtomicIsBest'
      BY DEF FirstLeaseInv, BeforeFirstLease, BestOfChunk, AtomicIsBest, Hi
    <3>4. FirstLease'
      BY DEF FirstLeaseInv, FirstLease, BornAfterResets, SliceDone, Done, BestKept,
         OneSeed, HasResult, Owner
    <3> QED
      BY <3>1, <3>2, <3>3, <3>4 DEF FirstLeaseInv
  <2> QED
    BY <2>1, SliceInvStep, LateInvStep, FirstLeaseInvStep
<1> QED
  BY <1>1, InitSliceInv, InitFirstLeaseInv, Invariance, PTL DEF Spec

(* A total exceeds the count of its lease by at most one late chunk per    *)
(* worker, and not at all while there was one lease: what BOGO_API.md asks *)
(* of total_done, for any number of workers and any size of chunk.         *)
THEOREM TotalStaysNearItsLease == Spec => []TotalBounded
<1>1. IInv /\ SliceInv /\ LateInv => TotalBounded
  BY LateBounds
<1> QED
  BY <1>1, LeaseInvariance, PTL

(* When all workers wait after the first job, its window is computed to    *)
(* the last shuffle, and global_best is as good as any of it: no chunk is  *)
(* skipped between the slices, no better result lost in the merge.         *)
THEOREM WaitingWorkersAreDone == Spec => []IdleMeansExhausted
<1>1. IInv /\ SliceInv /\ LateInv /\ FirstLeaseInv => IdleMeansExhausted
  BY AllWaiting
<1> QED
  BY <1>1, LeaseInvariance, PTL

(* Every report of the first lease replays: seed, index, board and score   *)
(* fit each other although reporter and workers run side by side.          *)
THEOREM FirstLeaseReplays == Spec => []FirstReportReplays
<1>1. IInv /\ FirstLeaseInv => FirstReportReplays
  BY OneSeedReplays
<1> QED
  BY <1>1, LeaseInvariance, PTL
=============================================================================
