-------------------------- MODULE SendQueueProofs --------------------------
(***************************************************************************)
(* The ring of src/server.c implements a bounded FIFO queue, for every     *)
(* size and every set of messages.                                         *)
(***************************************************************************)
EXTENDS SendQueue, SequenceTheorems, TLAPS

-----------------------------------------------------------------------------
(* Index arithmetic: below twice the size, % subtracts the size once.      *)
LEMMA Wrap ==
  ASSUME NEW x \in Nat, x < 2 * SEND_QUEUE_SIZE
  PROVE  x % SEND_QUEUE_SIZE = IF x < SEND_QUEUE_SIZE THEN x ELSE x - SEND_QUEUE_SIZE
<1>1. CASE x < SEND_QUEUE_SIZE
  BY <1>1, SizeAssumption
<1>2. CASE x >= SEND_QUEUE_SIZE
  <2> DEFINE r == x - SEND_QUEUE_SIZE
  <2>1. r \in 0 .. SEND_QUEUE_SIZE - 1 /\ x = 1 * SEND_QUEUE_SIZE + r
    BY <1>2, SizeAssumption
  <2> HIDE DEF r
  <2>2. (1 * SEND_QUEUE_SIZE + r) % SEND_QUEUE_SIZE = r
    BY <2>1, SizeAssumption
  <2> QED
    BY <1>2, <2>1, <2>2, SizeAssumption DEF r
<1> QED
  BY <1>1, <1>2, SizeAssumption

(* The k-th slot from the tail, without %.                                 *)
SlotAt(tail, k) == IF tail + k < SEND_QUEUE_SIZE THEN tail + k
                                                 ELSE tail + k - SEND_QUEUE_SIZE

LEMMA SlotsFromTail ==
  ASSUME NEW tail \in Slots, NEW k \in 0 .. SEND_QUEUE_SIZE
  PROVE  /\ (tail + k) % SEND_QUEUE_SIZE = SlotAt(tail, k)
         /\ SlotAt(tail, k) \in Slots
<1>1. tail + k \in Nat /\ tail + k < 2 * SEND_QUEUE_SIZE
  BY SizeAssumption DEF Slots
<1>2. (tail + k) % SEND_QUEUE_SIZE = SlotAt(tail, k)
  <2> DEFINE x == tail + k
  <2>1. x \in Nat /\ x < 2 * SEND_QUEUE_SIZE
    BY <1>1
  <2> HIDE DEF x
  <2>2. x % SEND_QUEUE_SIZE = IF x < SEND_QUEUE_SIZE THEN x ELSE x - SEND_QUEUE_SIZE
    BY <2>1, Wrap
  <2> QED
    BY <1>1, <2>2, SizeAssumption DEF x, SlotAt, Slots
<1>3. SlotAt(tail, k) \in Slots
  BY SizeAssumption DEF SlotAt, Slots
<1> QED
  BY <1>2, <1>3

LEMMA AdvanceIsNext ==
  ASSUME NEW x \in Slots
  PROVE  Advance(x) = SlotAt(x, 1) /\ Advance(x) \in Slots
BY SizeAssumption, SlotsFromTail DEF Advance

-----------------------------------------------------------------------------
(* The index part of the invariant in the terms of SlotAt.                 *)
LEMMA RingIndices ==
  ASSUME Inv
  PROVE  /\ send_tail \in Slots /\ send_head \in Slots
         /\ send_count \in 0 .. SEND_QUEUE_SIZE
         /\ send_head = SlotAt(send_tail, send_count)
         /\ \A k \in 0 .. send_count - 1 : send_queue[SlotAt(send_tail, k)] \in Messages
<1>1. /\ send_tail \in Slots /\ send_head \in Slots
      /\ send_count \in 0 .. SEND_QUEUE_SIZE
      /\ send_head = (send_tail + send_count) % SEND_QUEUE_SIZE
      /\ \A k \in 0 .. send_count - 1 :
           send_queue[(send_tail + k) % SEND_QUEUE_SIZE] \in Messages
  BY DEF Inv, TypeOK, RingConsistent, WaitingAreMessages
<1>2. \A k \in 0 .. send_count - 1 : k \in 0 .. SEND_QUEUE_SIZE
  BY <1>1, SizeAssumption
<1> QED
  BY <1>1, <1>2, SlotsFromTail

LEMMA InitInv == Init => Inv
<1> SUFFICES ASSUME Init PROVE Inv
  OBVIOUS
<1>1. TypeOK
  BY SizeAssumption DEF Init, TypeOK, Slots
<1>2. RingConsistent /\ MutualExclusion /\ WaitingAreMessages
  BY SizeAssumption DEF Init, RingConsistent, MutualExclusion, WaitingAreMessages, Threads
<1> QED
  BY <1>1, <1>2 DEF Inv

(* A thread that takes the free mutex finds every other one outside.       *)
LEMMA FreeMeansIdle ==
  ASSUME Inv, send_mutex = NULL
  PROVE  \A t \in Threads : pc[t] = "idle"
BY NullAssumption DEF Inv, TypeOK, MutualExclusion

(* The thread that holds the mutex is alone inside.                        *)
LEMMA AloneInside ==
  ASSUME Inv, NEW t \in Threads, pc[t] # "idle"
  PROVE  send_mutex = t /\ \A u \in Threads : u # t => pc[u] = "idle"
BY DEF Inv, TypeOK, MutualExclusion

LEMMA QueuePushInv ==
  ASSUME Inv, NEW t \in Threads, NEW m \in Messages, QueuePush(t, m)
  PROVE  Inv'
<1>1. /\ \A u \in Threads : pc[u] = "idle"
      /\ pc' = [pc EXCEPT ![t] = "push"] /\ json' = [json EXCEPT ![t] = m]
      /\ send_queue' = [send_queue EXCEPT ![send_head] = m]
      /\ send_mutex' = t /\ send_count < SEND_QUEUE_SIZE
      /\ UNCHANGED <<send_head, send_tail, send_count>>
  BY FreeMeansIdle DEF QueuePush, CanLock, NotFull
<1>2. TypeOK'
  BY <1>1 DEF Inv, TypeOK
<1>3. MutualExclusion'
  BY <1>1 DEF Inv, TypeOK, MutualExclusion
<1>4. RingConsistent'
  BY <1>1 DEF Inv, TypeOK, RingConsistent
<1>5. WaitingAreMessages'
  BY <1>1 DEF Inv, TypeOK, WaitingAreMessages
<1> QED
  BY <1>2, <1>3, <1>4, <1>5 DEF Inv

LEMMA QueuePushedInv ==
  ASSUME Inv, NEW t \in Threads, QueuePushed(t)
  PROVE  Inv'
<1>1. /\ \A u \in Threads : u # t => pc[u] = "idle"
      /\ pc' = [pc EXCEPT ![t] = "idle"] /\ json' = [json EXCEPT ![t] = NULL]
      /\ send_mutex' = NULL /\ send_count' = send_count + 1
      /\ send_head' = Advance(send_head)
      /\ UNCHANGED <<send_queue, send_tail>>
  BY AloneInside DEF QueuePushed
<1>2. /\ send_count < SEND_QUEUE_SIZE /\ json[t] \in Messages
      /\ send_queue[send_head] = json[t]
  BY DEF QueuePushed, Inv, RingConsistent
<1>3. TypeOK'
  BY <1>1, <1>2, AdvanceIsNext, SizeAssumption DEF Inv, TypeOK
<1>4. MutualExclusion'
  BY <1>1 DEF Inv, TypeOK, MutualExclusion
<1>5. send_count + 1 \in 0 .. SEND_QUEUE_SIZE /\ send_count \in Nat
  BY <1>2, RingIndices, SizeAssumption
<1>6. RingConsistent'
  <2>1. send_head' = SlotAt(send_tail, send_count + 1)
    BY <1>1, <1>5, RingIndices, AdvanceIsNext, SizeAssumption DEF SlotAt, Slots
  <2>2. send_head' = (send_tail + (send_count + 1)) % SEND_QUEUE_SIZE
    BY <1>5, <2>1, RingIndices, SlotsFromTail
  <2>3. \A u \in Threads : pc'[u] = "idle"
    BY <1>1 DEF Inv, TypeOK
  <2> QED
    BY <1>1, <2>2, <2>3 DEF RingConsistent
<1>7. WaitingAreMessages'
  <2> SUFFICES ASSUME NEW k \in 0 .. send_count
               PROVE  send_queue[(send_tail + k) % SEND_QUEUE_SIZE] \in Messages
    BY <1>1, <1>5 DEF WaitingAreMessages
  <2>1. (send_tail + k) % SEND_QUEUE_SIZE = SlotAt(send_tail, k)
    BY <1>5, RingIndices, SlotsFromTail, SizeAssumption
  <2>2. CASE k = send_count
    BY <1>2, <2>1, <2>2, RingIndices
  <2>3. CASE k < send_count
    BY <1>5, <2>1, <2>3, RingIndices
  <2> QED
    BY <1>5, <2>2, <2>3
<1> QED
  BY <1>3, <1>4, <1>6, <1>7 DEF Inv

LEMMA QueuePopInv ==
  ASSUME Inv, NEW t \in Threads, QueuePop(t)
  PROVE  Inv'
<1>1. /\ \A u \in Threads : pc[u] = "idle"
      /\ pc' = [pc EXCEPT ![t] = "pop"] /\ json' = [json EXCEPT ![t] = send_queue[send_tail]]
      /\ send_mutex' = t /\ send_count # 0
      /\ UNCHANGED ring
  BY FreeMeansIdle DEF QueuePop, CanLock
<1>2. TypeOK'
  BY <1>1 DEF Inv, TypeOK, ring
<1>3. MutualExclusion'
  BY <1>1 DEF Inv, TypeOK, MutualExclusion
<1>4. RingConsistent'
  BY <1>1 DEF Inv, TypeOK, RingConsistent, ring
<1>5. WaitingAreMessages'
  BY <1>1 DEF Inv, WaitingAreMessages, ring
<1> QED
  BY <1>2, <1>3, <1>4, <1>5 DEF Inv

LEMMA QueuePoppedInv ==
  ASSUME Inv, NEW t \in Threads, QueuePopped(t)
  PROVE  Inv'
<1>1. /\ \A u \in Threads : u # t => pc[u] = "idle"
      /\ pc' = [pc EXCEPT ![t] = "idle"] /\ json' = [json EXCEPT ![t] = NULL]
      /\ send_mutex' = NULL /\ send_count' = send_count - 1
      /\ send_tail' = Advance(send_tail)
      /\ UNCHANGED <<send_queue, send_head>>
  BY AloneInside DEF QueuePopped
<1>2. send_count > 0
  BY DEF QueuePopped, Inv, RingConsistent
<1>3. TypeOK'
  BY <1>1, <1>2, AdvanceIsNext, SizeAssumption DEF Inv, TypeOK
<1>4. MutualExclusion'
  BY <1>1 DEF Inv, TypeOK, MutualExclusion
<1>5. /\ send_count - 1 \in 0 .. SEND_QUEUE_SIZE
      /\ send_tail' \in Slots /\ send_tail' = SlotAt(send_tail, 1)
  BY <1>1, <1>2, RingIndices, AdvanceIsNext, SizeAssumption
<1>6. RingConsistent'
  <2>1. send_head = SlotAt(send_tail', send_count - 1)
    BY <1>2, <1>5, RingIndices, SizeAssumption DEF SlotAt, Slots
  <2>2. send_head = (send_tail' + (send_count - 1)) % SEND_QUEUE_SIZE
    BY <1>5, <2>1, SlotsFromTail
  <2>3. \A u \in Threads : pc'[u] = "idle"
    BY <1>1 DEF Inv, TypeOK
  <2> QED
    BY <1>1, <2>2, <2>3 DEF RingConsistent
<1>7. WaitingAreMessages'
  <2> SUFFICES ASSUME NEW k \in 0 .. send_count - 2
               PROVE  send_queue[(send_tail' + k) % SEND_QUEUE_SIZE] \in Messages
    BY <1>1, <1>2, RingIndices DEF WaitingAreMessages
  <2>1. k \in 0 .. SEND_QUEUE_SIZE /\ k + 1 \in 0 .. send_count - 1
    BY <1>2, RingIndices, SizeAssumption
  <2>2. (send_tail' + k) % SEND_QUEUE_SIZE = SlotAt(send_tail', k)
    BY <1>5, <2>1, SlotsFromTail
  <2>3. SlotAt(send_tail', k) = SlotAt(send_tail, k + 1)
    BY <1>5, <2>1, RingIndices, SizeAssumption DEF SlotAt, Slots
  <2> QED
    BY <2>1, <2>2, <2>3, RingIndices
<1> QED
  BY <1>3, <1>4, <1>6, <1>7 DEF Inv

(* Calls that only look leave the ring alone.                              *)
LEMMA QuietInv ==
  ASSUME Inv, UNCHANGED <<send_mutex, ring, pc, json>>
  PROVE  Inv'
<1>1. TypeOK' /\ MutualExclusion'
  BY DEF Inv, TypeOK, MutualExclusion, ring
<1>2. RingConsistent' /\ WaitingAreMessages'
  BY DEF Inv, RingConsistent, WaitingAreMessages, ring
<1> QED
  BY <1>1, <1>2 DEF Inv

LEMMA StepInv == Inv /\ [Next]_vars => Inv'
<1> SUFFICES ASSUME Inv, [Next]_vars PROVE Inv'
  OBVIOUS
<1>1. ASSUME NEW t \in Threads, NEW m \in Messages, QueuePush(t, m) PROVE Inv'
  BY <1>1, QueuePushInv
<1>2. ASSUME NEW t \in Threads, NEW m \in Messages, QueueRefuse(t, m) PROVE Inv'
  BY <1>2, QuietInv DEF QueueRefuse
<1>3. ASSUME NEW t \in Threads, QueuePushed(t) PROVE Inv'
  BY <1>3, QueuePushedInv
<1>4. CASE QueuePop(Service)
  BY <1>4, QueuePopInv DEF Threads
<1>5. CASE QueuePopped(Service)
  BY <1>5, QueuePoppedInv DEF Threads
<1>6. CASE QueuePopEmpty(Service)
  BY <1>6, QuietInv DEF QueuePopEmpty
<1>7. CASE UNCHANGED vars
  BY <1>7, QuietInv DEF vars
<1> QED
  BY <1>1, <1>2, <1>3, <1>4, <1>5, <1>6, <1>7 DEF Next

(* The mutex excludes and the indices agree with the slots, for every size *)
(* of the ring: no call of queue_push or queue_pop sees a half-made change.*)
THEOREM RingInvariant == Spec => []Inv
BY InitInv, StepInv, PTL DEF Spec

-----------------------------------------------------------------------------
(* The ring as a sequence.                                                 *)

SeqOf(slots, tail, count) ==
  [k \in 1 .. count |-> slots[(tail + k - 1) % SEND_QUEUE_SIZE]]

LEMMA SequenceOfSlots ==
  ASSUME NEW slots, NEW tail \in Slots, NEW count \in 0 .. SEND_QUEUE_SIZE,
         \A k \in 0 .. count - 1 : slots[SlotAt(tail, k)] \in Messages
  PROVE  /\ SeqOf(slots, tail, count) \in Seq(Messages)
         /\ Len(SeqOf(slots, tail, count)) = count
         /\ \A k \in 1 .. count : SeqOf(slots, tail, count)[k] = slots[SlotAt(tail, k - 1)]
<1>1. count \in Nat /\ \A k \in 1 .. count :
        /\ k - 1 \in 0 .. count - 1 /\ k - 1 \in 0 .. SEND_QUEUE_SIZE
        /\ tail + k - 1 = tail + (k - 1)
  BY SizeAssumption DEF Slots
<1>2. \A k \in 1 .. count :
        slots[(tail + k - 1) % SEND_QUEUE_SIZE] = slots[SlotAt(tail, k - 1)]
  BY <1>1, SlotsFromTail
<1>3. \A k \in 1 .. count : slots[(tail + k - 1) % SEND_QUEUE_SIZE] \in Messages
  BY <1>1, <1>2
<1> QED
  BY <1>1, <1>2, <1>3 DEF SeqOf

LEMMA ContentsOfRing ==
  ASSUME Inv
  PROVE  /\ Contents \in Seq(Messages)
         /\ Len(Contents) = send_count
         /\ \A k \in 1 .. send_count : Contents[k] = send_queue[SlotAt(send_tail, k - 1)]
<1>1. Contents = SeqOf(send_queue, send_tail, send_count)
  BY DEF Contents, SeqOf
<1> QED
  BY <1>1, RingIndices, SequenceOfSlots

(* Two sequences with the same elements are the same.                      *)
LEMMA SameSequence ==
  ASSUME NEW s \in Seq(Messages), NEW u \in Seq(Messages), Len(s) = Len(u),
         \A k \in 1 .. Len(s) : s[k] = u[k]
  PROVE  s = u
BY SeqEqual

(* Writing the slot of the head disturbs no message that waits.            *)
LEMMA QueuePushMaps ==
  ASSUME Inv, Inv', NEW t \in Threads, NEW m \in Messages, QueuePush(t, m)
  PROVE  UNCHANGED Fifo!fifo
<1>1. /\ send_queue' = [send_queue EXCEPT ![send_head] = m] /\ send_count < SEND_QUEUE_SIZE
      /\ UNCHANGED <<send_tail, send_count, outcome>>
  BY DEF QueuePush, NotFull
<1>2. ASSUME NEW k \in 1 .. send_count
      PROVE  /\ SlotAt(send_tail, k - 1) \in Slots
             /\ SlotAt(send_tail, k - 1) # send_head
  BY <1>1, RingIndices, SizeAssumption DEF SlotAt, Slots
<1>3. \A k \in 1 .. send_count :
        send_queue'[SlotAt(send_tail, k - 1)] = send_queue[SlotAt(send_tail, k - 1)]
  BY <1>1, <1>2 DEF Inv, TypeOK
<1>4. /\ Contents' \in Seq(Messages) /\ Len(Contents') = send_count
      /\ \A k \in 1 .. send_count : Contents'[k] = send_queue'[SlotAt(send_tail, k - 1)]
  <2>1. \A k \in 0 .. send_count - 1 : send_queue'[SlotAt(send_tail, k)] \in Messages
    <3> SUFFICES ASSUME NEW k \in 0 .. send_count - 1
                 PROVE  send_queue'[SlotAt(send_tail, k)] \in Messages
      OBVIOUS
    <3>1. k + 1 \in 1 .. send_count /\ (k + 1) - 1 = k
      BY RingIndices
    <3> QED
      BY <1>3, <3>1, RingIndices
  <2>2. Contents' = SeqOf(send_queue', send_tail, send_count)
    BY <1>1 DEF Contents, SeqOf
  <2> QED
    BY <2>1, <2>2, RingIndices, SequenceOfSlots
<1>5. Contents' = Contents
  BY <1>3, <1>4, ContentsOfRing, SameSequence
<1> QED
  BY <1>1, <1>5 DEF Fifo!fifo

(* Moving the head appends the message of the slot.                        *)
LEMMA QueuePushedMaps ==
  ASSUME Inv, Inv', NEW t \in Threads, QueuePushed(t)
  PROVE  Fifo!Next
<1> DEFINE m == json[t]
<1>1. /\ outcome' = <<"put", m>> /\ send_count' = send_count + 1
      /\ UNCHANGED <<send_queue, send_tail>>
  BY DEF QueuePushed
<1>2. m \in Messages /\ send_count < SEND_QUEUE_SIZE /\ send_queue[send_head] = m
  BY DEF QueuePushed, Inv, RingConsistent
<1> HIDE DEF m
<1>3. send_count \in Nat /\ send_head = SlotAt(send_tail, send_count)
  BY RingIndices
<1>4. /\ Contents' \in Seq(Messages) /\ Len(Contents') = send_count + 1
      /\ \A k \in 1 .. send_count + 1 : Contents'[k] = send_queue[SlotAt(send_tail, k - 1)]
  <2>1. send_count + 1 \in 0 .. SEND_QUEUE_SIZE
    BY <1>2, <1>3, SizeAssumption
  <2>2. \A k \in 0 .. (send_count + 1) - 1 : send_queue[SlotAt(send_tail, k)] \in Messages
    <3> SUFFICES ASSUME NEW k \in 0 .. send_count
                 PROVE  send_queue[SlotAt(send_tail, k)] \in Messages
      BY <1>3
    <3>1. k = send_count \/ k \in 0 .. send_count - 1
      BY <1>3
    <3> QED
      BY <1>2, <1>3, <3>1, RingIndices
  <2>3. Contents' = SeqOf(send_queue, send_tail, send_count + 1)
    BY <1>1 DEF Contents, SeqOf
  <2> QED
    BY <2>1, <2>2, <2>3, RingIndices, SequenceOfSlots
<1>5. /\ Append(Contents, m) \in Seq(Messages) /\ Len(Append(Contents, m)) = send_count + 1
      /\ \A k \in 1 .. send_count : Append(Contents, m)[k] = Contents[k]
      /\ Append(Contents, m)[send_count + 1] = m
  BY <1>2, ContentsOfRing, AppendProperties
<1>6. ASSUME NEW k \in 1 .. send_count + 1
      PROVE  Contents'[k] = Append(Contents, m)[k]
  <2>1. CASE k = send_count + 1
    <3>1. k - 1 = send_count
      BY <1>3, <2>1
    <3> QED
      BY <1>2, <1>3, <1>4, <1>5, <2>1, <3>1
  <2>2. CASE k \in 1 .. send_count
    BY <1>4, <1>5, <2>2, ContentsOfRing
  <2>3. k = send_count + 1 \/ k \in 1 .. send_count
    BY <1>3
  <2> QED
    BY <2>1, <2>2, <2>3
<1>7. Contents' = Append(Contents, m)
  BY <1>4, <1>5, <1>6, SameSequence
<1>8. Fifo!Put(m)
  BY <1>1, <1>2, <1>7, ContentsOfRing DEF Fifo!Put
<1> QED
  BY <1>2, <1>8 DEF Fifo!Next

(* Moving the tail drops the oldest message, the one queue_pop returns.    *)
LEMMA QueuePoppedMaps ==
  ASSUME Inv, Inv', NEW t \in Threads, QueuePopped(t)
  PROVE  Fifo!Next
<1>1. /\ outcome' = <<"took", json[t]>> /\ send_count' = send_count - 1
      /\ send_tail' = Advance(send_tail) /\ UNCHANGED send_queue
  BY DEF QueuePopped
<1>2. send_count > 0 /\ send_queue[send_tail] = json[t]
  BY DEF QueuePopped, Inv, RingConsistent
<1>3. /\ send_count \in Nat /\ send_tail \in Slots /\ send_count <= SEND_QUEUE_SIZE
      /\ send_tail' = SlotAt(send_tail, 1)
  BY <1>1, RingIndices, AdvanceIsNext
<1>4. Contents # <<>> /\ Head(Contents) = json[t]
  <2>1. SlotAt(send_tail, 0) = send_tail
    BY <1>3, SizeAssumption DEF SlotAt, Slots
  <2>2. Contents[1] = json[t]
    BY <1>2, <1>3, <2>1, ContentsOfRing
  <2> QED
    BY <1>2, <1>3, <2>2, ContentsOfRing
<1>5. /\ Tail(Contents) \in Seq(Messages) /\ Len(Tail(Contents)) = send_count - 1
      /\ \A k \in 1 .. send_count - 1 : Tail(Contents)[k] = Contents[k + 1]
  BY <1>4, ContentsOfRing, HeadTailProperties
<1>6. /\ Contents' \in Seq(Messages) /\ Len(Contents') = send_count - 1
      /\ \A k \in 1 .. send_count - 1 : Contents'[k] = send_queue[SlotAt(send_tail', k - 1)]
  <2>1. send_tail' \in Slots /\ send_count - 1 \in 0 .. SEND_QUEUE_SIZE
    BY <1>1, <1>2, <1>3, AdvanceIsNext, SizeAssumption
  <2>2. \A k \in 0 .. (send_count - 1) - 1 : send_queue[SlotAt(send_tail', k)] \in Messages
    <3> SUFFICES ASSUME NEW k \in 0 .. send_count - 2
                 PROVE  send_queue[SlotAt(send_tail', k)] \in Messages
      BY <1>3
    <3>1. SlotAt(send_tail', k) = SlotAt(send_tail, k + 1) /\ k + 1 \in 0 .. send_count - 1
      BY <1>3, SizeAssumption DEF SlotAt, Slots
    <3> QED
      BY <3>1, RingIndices
  <2>3. Contents' = SeqOf(send_queue, send_tail', send_count - 1)
    BY <1>1 DEF Contents, SeqOf
  <2> QED
    BY <2>1, <2>2, <2>3, SequenceOfSlots
<1>7. ASSUME NEW k \in 1 .. send_count - 1
      PROVE  Contents'[k] = Tail(Contents)[k]
  <2>1. SlotAt(send_tail', k - 1) = SlotAt(send_tail, k)
    BY <1>3, SizeAssumption DEF SlotAt, Slots
  <2>2. k + 1 \in 1 .. send_count /\ (k + 1) - 1 = k
    BY <1>3
  <2> QED
    BY <1>5, <1>6, <2>1, <2>2, ContentsOfRing
<1>8. Contents' = Tail(Contents)
  BY <1>5, <1>6, <1>7, SameSequence
<1>9. Fifo!Take
  BY <1>1, <1>4, <1>8 DEF Fifo!Take
<1> QED
  BY <1>9 DEF Fifo!Next

(* The ring implements the bounded FIFO queue: however queue_push and      *)
(* queue_pop interleave, no message is lost, duplicated, reordered or      *)
(* overwritten, and a push is refused only when the ring is full.          *)
THEOREM RingImplementsFifo == Spec => FifoSpec
<1>1. Init => Fifo!Init
  <2> SUFFICES ASSUME Init PROVE Contents = <<>> /\ outcome = <<"none">>
    BY DEF Fifo!Init
  <2>1. Inv
    BY InitInv
  <2>2. Len(Contents) = 0 /\ Contents \in Seq(Messages)
    BY <2>1, ContentsOfRing DEF Init
  <2> QED
    BY <2>2, EmptySeq DEF Init
<1>2. Inv /\ Inv' /\ [Next]_vars => [Fifo!Next]_(Fifo!fifo)
  <2> SUFFICES ASSUME Inv, Inv', [Next]_vars PROVE [Fifo!Next]_(Fifo!fifo)
    OBVIOUS
  <2>1. ASSUME NEW t \in Threads, NEW m \in Messages, QueuePush(t, m)
        PROVE  UNCHANGED Fifo!fifo
    BY <2>1, QueuePushMaps
  <2>2. ASSUME NEW t \in Threads, NEW m \in Messages, QueueRefuse(t, m)
        PROVE  Fifo!Next
    <3>1. send_count = SEND_QUEUE_SIZE
      BY <2>2, RingIndices, SizeAssumption DEF QueueRefuse, NotFull
    <3>2. Contents' = Contents
      BY <2>2 DEF QueueRefuse, Contents, ring
    <3>3. Fifo!Refuse(m)
      BY <2>2, <3>1, <3>2, ContentsOfRing DEF Fifo!Refuse, QueueRefuse
    <3> QED
      BY <3>3 DEF Fifo!Next
  <2>3. ASSUME NEW t \in Threads, QueuePushed(t)
        PROVE  Fifo!Next
    BY <2>3, QueuePushedMaps
  <2>4. CASE QueuePop(Service)
    BY <2>4 DEF QueuePop, Fifo!fifo, Contents, ring
  <2>5. CASE QueuePopped(Service)
    BY <2>5, QueuePoppedMaps DEF Threads
  <2>6. CASE QueuePopEmpty(Service)
    <3>1. Contents = <<>>
      BY <2>6, ContentsOfRing, EmptySeq DEF QueuePopEmpty
    <3>2. Contents' = Contents
      BY <2>6 DEF QueuePopEmpty, Contents, ring
    <3>3. Fifo!TakeNothing
      BY <2>6, <3>1, <3>2 DEF Fifo!TakeNothing, QueuePopEmpty
    <3> QED
      BY <3>3 DEF Fifo!Next
  <2>7. CASE UNCHANGED vars
    BY <2>7 DEF vars, ring, Fifo!fifo, Contents
  <2> QED
    BY <2>1, <2>2, <2>3, <2>4, <2>5, <2>6, <2>7 DEF Next
<1> QED
  BY <1>1, <1>2, RingInvariant, PTL DEF Spec, FifoSpec, Fifo!Spec
=============================================================================
