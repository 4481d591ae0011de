----------------------------- MODULE VulkanRun -----------------------------
(***************************************************************************)
(* compute_run of the Vulkan backend (src/compute/compute_vulkan.cpp) and  *)
(* its shader (compute_vulkan.comp).  Every thread that calls it works on  *)
(* the same globals: the device, one command buffer, one buffer of         *)
(* parameters, one of results, which grow with the largest call so far.    *)
(*                                                                         *)
(* A step of a thread is one use of these globals.  The Vulkan library is  *)
(* external; of it the model keeps the life of the objects, and the rules  *)
(* of use that this code could break.  To break one is undefined: the      *)
(* process is "undefined" from then on, and nothing is said about it.  A   *)
(* step of the device is what one invocation of the shader does between    *)
(* two barriers.  Calls whose result the code does not look at (mapping,   *)
(* recording, submitting, waiting) are taken to succeed.                   *)
(***************************************************************************)
EXTENDS Integers, SequencesExt

CONSTANTS
  num_workers,        \* threads that call compute_run: --workers
  GroupSize,          \* invocations of a workgroup: 256 in the code
  MaxGroups,          \* workgroups of a dispatch: at most 4096
  UINT32,             \* 2^32, at which the number of workgroups is cut
  Windows,            \* bound: the calls of compute_run
  FixedPoints(_, _)   \* FixedPoints(seed, index): the score of one shuffle

Workers == 0 .. num_workers - 1
Group == 0 .. MaxGroups - 1
Invocation == 0 .. GroupSize - 1

ASSUME VulkanAssumption ==
  /\ num_workers \in Nat \ {0} /\ GroupSize \in Nat \ {0}
  /\ MaxGroups \in Nat \ {0} /\ UINT32 \in Nat \ 0 .. MaxGroups
  /\ \A win \in Windows :
       /\ win \in [seed : Nat, lo : Nat, hi : Nat]
       /\ \A x \in win.lo .. win.hi - 1 : FixedPoints(win.seed, x) \in 0 .. 25

VARIABLES
  process,            \* "up", "exited" by exit(1), or "undefined"
  vulkan_initialized,
  device,             \* how many devices were created; the last is used
  buffers,            \* paramBuffer and resultBuffer with their memory
  descriptorSet,      \* the buffers it points to
  current_max_workgroups,
  commandBuffer,
  mapped,             \* the memories that are mapped now
  params, results,    \* what the two buffers hold
  dispatch,           \* what the device works on
  ipc, found, sh_max_c, sh_best_tid,  \* the invocations, the shared memory
  pc, args, result    \* by thread: where it is in compute_run, what it returns

setup == <<vulkan_initialized, device>>
sizes == <<buffers, descriptorSet, current_max_workgroups>>
objects == <<setup, sizes>>
contents == <<params, results>>
memory == <<mapped, contents>>
shared == <<sh_max_c, sh_best_tid>>
gpu == <<dispatch, ipc, found, shared>>
calls == <<args, result>>
host == <<pc, calls>>
vars == <<process, objects, commandBuffer, memory, gpu, host>>

(* Boards, and memory not written yet, as in GpuReduce.                    *)
Sorted == <<"sorted">>
Unwritten == [best_c |-> 0, best_i |-> 0, best_arr |-> <<"unwritten">>]

NoWindow == [seed |-> 0, lo |-> 0, hi |-> 0]
NoParams == [seed |-> 0, base_index |-> 0, total_work |-> 0]
NoBuffers == [made |-> 0, device |-> 0]
NoDispatch == [groups |-> 0, by |-> -1]
EmptyResult(lo) ==
  [best_correct |-> -1, best_index |-> lo, best_arr |-> Sorted]
FreshCommands == [state |-> "initial", groups |-> 0, made |-> 0]
Fresh(value) == [g \in Group |-> value]
Everywhere(value) == Fresh([t \in Invocation |-> value])

Init ==
  /\ process = "up"
  /\ vulkan_initialized = FALSE /\ device = 0
  /\ buffers = NoBuffers /\ descriptorSet = 0
  /\ current_max_workgroups = 0
  /\ commandBuffer = FreshCommands /\ mapped = {}
  /\ params = NoParams /\ results = Fresh(Unwritten)
  /\ dispatch = NoDispatch
  /\ ipc = Everywhere("off") /\ found = Everywhere(Unwritten)
  /\ sh_max_c = Fresh(0) /\ sh_best_tid = Fresh(GroupSize)
  /\ pc = [w \in Workers |-> "idle"]
  /\ args = [w \in Workers |-> NoWindow]
  /\ result = [w \in Workers |-> EmptyResult(0)]

Up == process = "up"
At(w, place) == Up /\ pc[w] = place
GoTo(w, place) == pc' = [pc EXCEPT ![w] = place]

-----------------------------------------------------------------------------
(* The host: sizes.                                                        *)

GroupsFor(win) == (win.hi - win.lo + GroupSize - 1) \div GroupSize
CutOff(win) == GroupsFor(win) % UINT32
Workgroups(win) ==
  IF CutOff(win) > MaxGroups THEN MaxGroups ELSE CutOff(win)

(* Faulty variants, each a slip this code invites.                         *)
NeverGrows(w) == FALSE
AllGroups(w) == MaxGroups
BarrierIgnored(g) == TRUE
IdleReturns(idx, end) == IF idx < end THEN "max" ELSE "returned"

NeedsGrowth(w) == Workgroups(args[w]) > current_max_workgroups

(* The rules of Vulkan that a call relies on.                              *)
Usable == buffers.made > 0 /\ buffers.device = device
NotInUse == dispatch = NoDispatch
MayMapParams == Usable /\ "params" \notin mapped
MayMapResults(w) ==
  Usable /\ "results" \notin mapped /\ Workgroups(args[w]) > 0
MayBegin == commandBuffer.state \in {"initial", "executable", "invalid"}
MayRecord(w) ==
  /\ commandBuffer.state = "recording"
  /\ Usable /\ descriptorSet = buffers.made
  /\ Workgroups(args[w]) <= current_max_workgroups
MaySubmit ==
  /\ commandBuffer.state = "executable"
  /\ Usable /\ commandBuffer.made = buffers.made

-----------------------------------------------------------------------------
(* compute_run, called by thread w.                                        *)

Call(w, win) ==
  /\ At(w, "idle")
  /\ args' = [args EXCEPT ![w] = win]
  /\ result' = [result EXCEPT ![w] = EmptyResult(win.lo)]
  /\ GoTo(w, IF win.hi <= win.lo THEN "idle" ELSE "init")
  /\ UNCHANGED <<process, objects, commandBuffer, memory, gpu>>

LookInitialized(w) ==
  /\ At(w, "init")
  /\ GoTo(w, IF vulkan_initialized THEN "size" ELSE "create")
  /\ UNCHANGED <<process, objects, commandBuffer, memory, gpu, calls>>

(* init_vulkan makes a device with a command buffer and a descriptor set   *)
(* of its own.                                                             *)
InitVulkan(w) ==
  /\ At(w, "create")
  /\ device' = device + 1
  /\ commandBuffer' = FreshCommands
  /\ descriptorSet' = 0
  /\ vulkan_initialized' = TRUE
  /\ GoTo(w, "size")
  /\ UNCHANGED <<process, buffers, current_max_workgroups, memory, gpu, calls>>

DestroyBuffers(w) ==
  /\ At(w, "size")
  /\ NotInUse \/ ~NeedsGrowth(w) \/ buffers = NoBuffers
  /\ IF NeedsGrowth(w)
     THEN /\ buffers' = [buffers EXCEPT !.device = 0]
          /\ mapped' = {}
          /\ GoTo(w, "grow")
     ELSE UNCHANGED <<buffers, mapped>> /\ GoTo(w, "map params")
  /\ UNCHANGED <<process, setup, descriptorSet, current_max_workgroups,
                 commandBuffer, contents, gpu, calls>>

(* With new buffers, the descriptor set is made to point to them.          *)
CreateBuffers(w) ==
  /\ At(w, "grow") /\ NotInUse
  /\ buffers' = [made |-> buffers.made + 1, device |-> device]
  /\ params' = NoParams /\ results' = Fresh(Unwritten)
  /\ descriptorSet' = buffers.made + 1
  /\ current_max_workgroups' = Workgroups(args[w])
  /\ GoTo(w, "map params")
  /\ UNCHANGED <<process, setup, commandBuffer, mapped, gpu, calls>>

MapParams(w) ==
  /\ At(w, "map params") /\ MayMapParams
  /\ mapped' = mapped \cup {"params"}
  /\ GoTo(w, "write params")
  /\ UNCHANGED <<process, objects, commandBuffer, contents, gpu, calls>>

WriteParams(w) ==
  /\ At(w, "write params") /\ "params" \in mapped
  /\ params' = [seed |-> args[w].seed, base_index |-> args[w].lo,
                total_work |-> args[w].hi - args[w].lo]
  /\ mapped' = mapped \ {"params"}
  /\ GoTo(w, "begin")
  /\ UNCHANGED <<process, objects, commandBuffer, results, gpu, calls>>

(* vkBeginCommandBuffer forgets what was recorded.                         *)
BeginCommands(w) ==
  /\ At(w, "begin") /\ MayBegin
  /\ commandBuffer' = [FreshCommands EXCEPT !.state = "recording"]
  /\ GoTo(w, "record")
  /\ UNCHANGED <<process, objects, memory, gpu, calls>>

RecordCommands(w) ==
  /\ At(w, "record") /\ MayRecord(w)
  /\ commandBuffer' = [state |-> "executable", groups |-> Workgroups(args[w]),
                       made |-> descriptorSet]
  /\ GoTo(w, "submit")
  /\ UNCHANGED <<process, objects, memory, gpu, calls>>

(* The command buffer is submitted with a fence of the thread's own.       *)
Submit(w) ==
  /\ At(w, "submit") /\ MaySubmit
  /\ commandBuffer' = [commandBuffer EXCEPT !.state = "pending"]
  /\ dispatch' = [groups |-> commandBuffer.groups, by |-> w]
  /\ ipc' = [g \in Group |-> [t \in Invocation |->
               IF g < commandBuffer.groups THEN "scan" ELSE "off"]]
  /\ GoTo(w, "wait")
  /\ UNCHANGED <<process, objects, memory, found, shared, calls>>

(* vkWaitForFences without a timeout.                                      *)
Signaled(w) == dispatch.by # w

WaitForFence(w) ==
  /\ At(w, "wait") /\ Signaled(w)
  /\ GoTo(w, "map results")
  /\ UNCHANGED <<process, objects, commandBuffer, memory, gpu, calls>>

MapResults(w) ==
  /\ At(w, "map results") /\ MayMapResults(w)
  /\ mapped' = mapped \cup {"results"}
  /\ GoTo(w, "read")
  /\ UNCHANGED <<process, objects, commandBuffer, contents, gpu, calls>>

(* The first of the best workgroups, which the loop stops at if all 25 are *)
(* fixed points.                                                           *)
GroupsToRead(w) == Workgroups(args[w])
Better(best, g) ==
  IF results[g].best_c > best.best_correct
  THEN [best_correct |-> results[g].best_c, best_index |-> results[g].best_i,
        best_arr |-> results[g].best_arr]
  ELSE best

ReadResults(w) ==
  /\ At(w, "read") /\ "results" \in mapped
  /\ LET order == [k \in 1 .. GroupsToRead(w) |-> k - 1]
     IN  result' = [result EXCEPT ![w] =
                      FoldLeft(Better, EmptyResult(args[w].lo), order)]
  /\ mapped' = mapped \ {"results"}
  /\ GoTo(w, "idle")
  /\ UNCHANGED <<process, objects, commandBuffer, contents, gpu, args>>

(* The failures that the code looks at end the process: those of the       *)
(* set-up, and of making a buffer.                                         *)
ExitOnFailure(w) ==
  /\ At(w, "create") \/ At(w, "grow")
  /\ process' = "exited"
  /\ UNCHANGED <<objects, commandBuffer, memory, gpu, host>>

Misuse(w) ==
  /\ \/ At(w, "size") /\ NeedsGrowth(w) /\ buffers # NoBuffers /\ ~NotInUse
     \/ At(w, "grow") /\ ~NotInUse
     \/ At(w, "map params") /\ ~MayMapParams
     \/ At(w, "write params") /\ "params" \notin mapped
     \/ At(w, "begin") /\ ~MayBegin
     \/ At(w, "record") /\ ~MayRecord(w)
     \/ At(w, "submit") /\ ~MaySubmit
     \/ At(w, "map results") /\ ~MayMapResults(w)
     \/ At(w, "read") /\ "results" \notin mapped
  /\ process' = "undefined"
  /\ UNCHANGED <<objects, commandBuffer, memory, gpu, host>>

-----------------------------------------------------------------------------
(* The device: invocation t of workgroup g.                                *)

InvocationAt(g, t, place) == Up /\ ipc[g][t] = place
InvocationGoTo(g, t, place) == ipc' = [ipc EXCEPT ![g][t] = place]

End == params.base_index + params.total_work
Visited(idx) ==
  {x \in idx .. End - 1 : (x - idx) % (GroupSize * dispatch.groups) = 0}

(* The first of its best shuffles; before it has one that scores, the      *)
(* sorted board and the index it starts from.                              *)
InvocationBest(idx) ==
  LET score(x) == FixedPoints(params.seed, x)
      best == {x \in Visited(idx) :
                 /\ score(x) > 0
                 /\ \A y \in Visited(idx) :
                      score(y) <= score(x) /\ (y < x => score(y) < score(x))}
  IN  IF best = {}
      THEN [best_c |-> 0, best_i |-> idx, best_arr |-> Sorted]
      ELSE LET x == CHOOSE x \in best : TRUE
           IN  [best_c |-> score(x), best_i |-> x,
                best_arr |-> <<params.seed, x>>]

(* Where an invocation goes after its loop, also if it had no index at all.*)
AfterLoop(idx, end) == "max"
Higher(seen, claim) == IF claim > seen THEN claim ELSE seen
Lower(seen, claim) == IF claim < seen THEN claim ELSE seen

(* The calls of barrier.                                                   *)
Reached(g, places) == \A t \in Invocation : ipc[g][t] \in places
AllScanned(g) == Reached(g, {"max", "claim", "write", "done"})
AllCounted(g) == Reached(g, {"claim", "write", "done"})
AllClaimed(g) == Reached(g, {"write", "done"})

Scan(g, t) ==
  /\ InvocationAt(g, t, "scan")
  /\ LET idx == params.base_index + g * GroupSize + t
     IN  /\ found' = [found EXCEPT ![g][t] = InvocationBest(idx)]
         /\ InvocationGoTo(g, t, AfterLoop(idx, End))
  /\ IF t = 0
     THEN /\ sh_max_c' = [sh_max_c EXCEPT ![g] = 0]
          /\ sh_best_tid' = [sh_best_tid EXCEPT ![g] = GroupSize]
     ELSE UNCHANGED <<sh_max_c, sh_best_tid>>
  /\ UNCHANGED <<process, objects, commandBuffer, memory, dispatch, host>>

AtomicMax(g, t) ==
  /\ InvocationAt(g, t, "max") /\ AllScanned(g)
  /\ sh_max_c' = [sh_max_c EXCEPT ![g] = Higher(@, found[g][t].best_c)]
  /\ InvocationGoTo(g, t, "claim")
  /\ UNCHANGED <<process, objects, commandBuffer, memory, dispatch, found,
                 sh_best_tid, host>>

AtomicMin(g, t) ==
  /\ InvocationAt(g, t, "claim") /\ AllCounted(g)
  /\ sh_best_tid' = IF found[g][t].best_c = sh_max_c[g]
                    THEN [sh_best_tid EXCEPT ![g] = Lower(@, t)]
                    ELSE sh_best_tid
  /\ InvocationGoTo(g, t, "write")
  /\ UNCHANGED <<process, objects, commandBuffer, memory, dispatch, found,
                 sh_max_c, host>>

WriteResult(g, t) ==
  /\ InvocationAt(g, t, "write") /\ AllClaimed(g)
  /\ results' = IF t = sh_best_tid[g]
                THEN [results EXCEPT ![g] = found[g][t]]
                ELSE results
  /\ InvocationGoTo(g, t, "done")
  /\ UNCHANGED <<process, objects, commandBuffer, mapped, params, dispatch,
                 found, shared, host>>

(* The dispatch is complete: the fence is signaled, and the commands, good *)
(* for one submission, are used up.                                        *)
Complete ==
  /\ Up /\ dispatch # NoDispatch
  /\ \A g \in 0 .. dispatch.groups - 1 : Reached(g, {"done", "returned"})
  /\ dispatch' = NoDispatch
  /\ commandBuffer' = [commandBuffer EXCEPT !.state = "invalid"]
  /\ ipc' = Everywhere("off") /\ found' = Everywhere(Unwritten)
  /\ sh_max_c' = Fresh(0) /\ sh_best_tid' = Fresh(GroupSize)
  /\ UNCHANGED <<process, objects, memory, host>>

-----------------------------------------------------------------------------
HostStep(w) ==
  \/ LookInitialized(w) \/ InitVulkan(w)
  \/ DestroyBuffers(w) \/ CreateBuffers(w)
  \/ MapParams(w) \/ WriteParams(w) \/ BeginCommands(w) \/ RecordCommands(w)
  \/ Submit(w) \/ WaitForFence(w) \/ MapResults(w) \/ ReadResults(w)
  \/ Misuse(w)

DeviceStep ==
  \/ \E g \in Group, t \in Invocation :
       Scan(g, t) \/ AtomicMax(g, t) \/ AtomicMin(g, t) \/ WriteResult(g, t)
  \/ Complete

Next ==
  \/ \E w \in Workers :
       (\E win \in Windows : Call(w, win)) \/ HostStep(w) \/ ExitOnFailure(w)
  \/ DeviceStep

Spec == Init /\ [][Next]_vars

(* Threads run, and the device finishes what it was given.                 *)
Fairness == (\A w \in Workers : WF_vars(HostStep(w))) /\ WF_vars(DeviceStep)

FairSpec == Spec /\ Fairness

-----------------------------------------------------------------------------
(* Properties.                                                             *)

Candidate == [best_c : 0 .. 25, best_i : Nat,
              best_arr : {Sorted, Unwritten.best_arr} \cup (Nat \X Nat)]

(* No dispatch is larger than the buffer its results go to.                *)
TypeOK ==
  /\ process \in {"up", "exited", "undefined"}
  /\ vulkan_initialized \in BOOLEAN /\ device \in Nat
  /\ buffers \in [made : Nat, device : Nat]
  /\ descriptorSet \in 0 .. buffers.made
  /\ current_max_workgroups \in 0 .. MaxGroups
  /\ commandBuffer \in
       [state : {"initial", "recording", "executable", "pending", "invalid"},
        groups : 0 .. MaxGroups, made : Nat]
  /\ mapped \subseteq {"params", "results"}
  /\ params \in [seed : Nat, base_index : Nat, total_work : Nat]
  /\ results \in [Group -> Candidate]
  /\ found \in [Group -> [Invocation -> Candidate]]
  /\ dispatch \in [groups : 0 .. current_max_workgroups,
                   by : Workers \cup {-1}]
  /\ sh_max_c \in [Group -> 0 .. 25]
  /\ sh_best_tid \in [Group -> 0 .. GroupSize]
  /\ args \in [Workers -> [seed : Nat, lo : Nat, hi : Nat]]

(* A window is launched with at least one workgroup unless the cut to 32   *)
(* bits leaves zero of them.                                               *)
Launched(w) == args[w].hi > args[w].lo /\ Workgroups(args[w]) > 0
Returned(w) == Up /\ pc[w] = "idle" /\ Launched(w)
Window(w) == args[w].lo .. args[w].hi - 1

(* However calls of growing and shrinking windows follow one another, no   *)
(* rule of Vulkan is broken: no buffer is destroyed, mapped, bound or      *)
(* recorded while it is missing or in use.                                 *)
ValidUsage == process = "undefined" => \E w \in Workers : ~Launched(w)

(* BOGO_API.md: best_index is an index of the window that was asked for,   *)
(* also when nothing scored and when invocations stand beyond its end.     *)
IndexInWindow ==
  \A w \in Workers : Returned(w) => result[w].best_index \in Window(w)

(* No shuffle of the window is missed: not by invocations that stride, nor *)
(* by a number of workgroups that was cut to 32 bits, nor by ties.         *)
BestOfWindow ==
  \A w \in Workers : Returned(w) =>
    LET score(x) == FixedPoints(args[w].seed, x)
    IN  /\ \A x \in Window(w) : result[w].best_correct >= score(x)
        /\ \E x \in Window(w) : result[w].best_correct = score(x)

(* Score, index and board of a result are those of one shuffle of this     *)
(* call, though buffers and shared memory still hold those of earlier ones.*)
ScoreReplays ==
  \A w \in Workers : Returned(w) /\ result[w].best_correct > 0 =>
    /\ result[w].best_correct = FixedPoints(args[w].seed, result[w].best_index)
    /\ result[w].best_arr = <<args[w].seed, result[w].best_index>>

(* What a call returns can be reported: dispatch and buffers fit each      *)
(* other, and the result names an index of the window and replays.         *)
Inv == TypeOK /\ IndexInWindow /\ ScoreReplays

(* compute_run comes back: no invocation waits at a barrier for one that   *)
(* does not come, and no thread for a fence that nothing signals.          *)
CallReturns == \A w \in Workers : pc[w] # "idle" ~> pc[w] = "idle" \/ ~Up
=============================================================================
