----------------------------- MODULE SendQueue -----------------------------
(***************************************************************************)
(* The ring of src/server.c: queue_push on the service thread (hello) and  *)
(* on the reporter thread (results), queue_pop on the service thread.      *)
(* Each critical section of send_mutex is two steps, so that the mutex     *)
(* matters: the first takes it and touches the slot, the second moves the  *)
(* indices and releases it.  Slots are not cleared: a popped pointer stays *)
(* behind in its slot.                                                     *)
(***************************************************************************)
EXTENDS Naturals, Sequences

CONSTANTS
  SEND_QUEUE_SIZE,
  Messages,
  Service, Reporter,   \* the threads
  NULL                 \* nullptr

Threads == {Service, Reporter}

ASSUME SizeAssumption == SEND_QUEUE_SIZE \in Nat \ {0}
ASSUME NullAssumption == NULL \notin Messages \cup Threads

VARIABLES
  send_mutex,    \* the thread that holds it, or NULL
  send_queue, send_head, send_tail, send_count,
  pc,            \* of each thread: "idle", "push" or "pop"
  json,          \* of each thread: its local variable json
  outcome        \* auxiliary: what the last completed call returned

ring == <<send_queue, send_head, send_tail, send_count>>
vars == <<send_mutex, ring, pc, json, outcome>>

Slots == 0 .. SEND_QUEUE_SIZE - 1

Init ==
  /\ send_mutex = NULL
  /\ send_queue = [s \in Slots |-> NULL]
  /\ send_head = 0 /\ send_tail = 0 /\ send_count = 0
  /\ pc = [t \in Threads |-> "idle"]
  /\ json = [t \in Threads |-> NULL]
  /\ outcome = <<"none">>

(* Faulty variants, each a slip this code invites.                         *)
MutexIgnored == TRUE
NotFullOffByOne == send_count <= SEND_QUEUE_SIZE

CanLock == send_mutex = NULL
NotFull == send_count < SEND_QUEUE_SIZE
Advance(x) == (x + 1) % SEND_QUEUE_SIZE

-----------------------------------------------------------------------------
(* queue_push(m).                                                          *)

QueuePush(t, m) ==
  /\ pc[t] = "idle"
  /\ CanLock
  /\ NotFull
  /\ send_mutex' = t
  /\ send_queue' = [send_queue EXCEPT ![send_head] = m]
  /\ json' = [json EXCEPT ![t] = m]
  /\ pc' = [pc EXCEPT ![t] = "push"]
  /\ UNCHANGED <<send_head, send_tail, send_count, outcome>>

QueuePushed(t) ==
  /\ pc[t] = "push"
  /\ send_head' = Advance(send_head)
  /\ send_count' = send_count + 1
  /\ send_mutex' = NULL
  /\ outcome' = <<"put", json[t]>>
  /\ json' = [json EXCEPT ![t] = NULL]
  /\ pc' = [pc EXCEPT ![t] = "idle"]
  /\ UNCHANGED <<send_queue, send_tail>>

(* The message of a full queue is freed and forgotten.                     *)
QueueRefuse(t, m) ==
  /\ pc[t] = "idle"
  /\ CanLock
  /\ ~NotFull
  /\ outcome' = <<"refused", m>>
  /\ UNCHANGED <<send_mutex, ring, pc, json>>

(* queue_pop().                                                            *)

QueuePop(t) ==
  /\ pc[t] = "idle"
  /\ CanLock
  /\ send_count # 0
  /\ send_mutex' = t
  /\ json' = [json EXCEPT ![t] = send_queue[send_tail]]
  /\ pc' = [pc EXCEPT ![t] = "pop"]
  /\ UNCHANGED <<ring, outcome>>

QueuePopped(t) ==
  /\ pc[t] = "pop"
  /\ send_tail' = Advance(send_tail)
  /\ send_count' = send_count - 1
  /\ send_mutex' = NULL
  /\ outcome' = <<"took", json[t]>>
  /\ json' = [json EXCEPT ![t] = NULL]
  /\ pc' = [pc EXCEPT ![t] = "idle"]
  /\ UNCHANGED <<send_queue, send_head>>

QueuePopEmpty(t) ==
  /\ pc[t] = "idle"
  /\ CanLock
  /\ send_count = 0
  /\ outcome' = <<"empty">>
  /\ UNCHANGED <<send_mutex, ring, pc, json>>

Next ==
  \/ \E t \in Threads, m \in Messages : QueuePush(t, m) \/ QueueRefuse(t, m)
  \/ \E t \in Threads : QueuePushed(t)
  \/ QueuePop(Service) \/ QueuePopped(Service) \/ QueuePopEmpty(Service)

Spec == Init /\ [][Next]_vars

-----------------------------------------------------------------------------
(* Properties.                                                             *)

(* The variables of the ring and the threads' locals keep their types.     *)
TypeOK ==
  /\ send_mutex \in Threads \cup {NULL}
  /\ send_queue \in [Slots -> Messages \cup {NULL}]
  /\ send_head \in Slots /\ send_tail \in Slots
  /\ send_count \in 0 .. SEND_QUEUE_SIZE
  /\ pc \in [Threads -> {"idle", "push", "pop"}]
  /\ json \in [Threads -> Messages \cup {NULL}]

(* send_mutex excludes: a thread inside a critical section holds it.       *)
MutualExclusion == \A t \in Threads : pc[t] # "idle" => send_mutex = t

(* The three indices agree, and a thread in the middle of queue_push or    *)
(* queue_pop has its message in the slot it is about to hand over.         *)
RingConsistent ==
  /\ send_head = (send_tail + send_count) % SEND_QUEUE_SIZE
  /\ \A t \in Threads :
       /\ pc[t] = "push" => /\ send_count < SEND_QUEUE_SIZE
                            /\ json[t] \in Messages /\ send_queue[send_head] = json[t]
       /\ pc[t] = "pop" => /\ send_count > 0
                           /\ send_queue[send_tail] = json[t]

(* Every slot between tail and head holds a message, never a null pointer. *)
WaitingAreMessages ==
  \A k \in 0 .. send_count - 1 :
    send_queue[(send_tail + k) % SEND_QUEUE_SIZE] \in Messages

(* The lock excludes, indices and count agree, and every message between   *)
(* tail and head is a whole message: an inductive invariant.               *)
Inv == TypeOK /\ MutualExclusion /\ RingConsistent /\ WaitingAreMessages

(* The messages that wait, oldest first, as the ring holds them.           *)
Contents ==
  [k \in 1 .. send_count |-> send_queue[(send_tail + k - 1) % SEND_QUEUE_SIZE]]

Fifo == INSTANCE BoundedFifo
          WITH queue <- Contents, Capacity <- SEND_QUEUE_SIZE

(* However pushes and pops interleave, the ring is a bounded FIFO queue:   *)
(* nothing is lost, duplicated, reordered or overwritten.                  *)
FifoSpec == Fifo!Spec
=============================================================================
