----------------------------- MODULE Transport -----------------------------
(***************************************************************************)
(* The socket side of src/server.c with the threads of src/main.c around   *)
(* it: the service thread inside libwebsockets, the reporter that queues   *)
(* results and wakes it, the dashboard, and main, which waits for the end  *)
(* of the session and joins.                                               *)
(*                                                                         *)
(* libwebsockets is external.  Of it the model keeps two pending requests, *)
(* which do not count: cancelled (lws_cancel_service was called) and       *)
(* writable (lws_callback_on_writable was), the state of the connection,   *)
(* and that callbacks run one at a time on the service thread.  The send   *)
(* queue is the abstract one, which the ring of SendQueue implements.      *)
(***************************************************************************)
EXTENDS Naturals, Sequences

CONSTANTS
  SEND_QUEUE_SIZE,
  MaxResults         \* bound: how many results the reporter makes

ASSUME TransportAssumption ==
  /\ SEND_QUEUE_SIZE \in Nat \ {0}
  /\ MaxResults \in Nat

Message == [kind : {"hello", "huge", "result"}, total : 0 .. MaxResults]
Hello == [kind |-> "hello", total |-> 0]
HugeHello == [kind |-> "huge", total |-> 0]  \* longer than 4096 bytes
ResultOf(n) == [kind |-> "result", total |-> n]

VARIABLES
  queue, outcome,   \* the send queue
  running,
  context,          \* "alive", "destroyed" (the pointer dangles) or "null"
  wsi,              \* conn.wsi: "set" or "null"
  link,             \* lws: "connecting", "up" or "down"
  cancelled, writable,   \* lws: requests that are pending
  spc, rpc, mpc, dpc,    \* service, reporter, main and dashboard threads
  produced,         \* how many results the reporter has made
  wire,             \* what was handed to lws_write, in order
  crashed           \* a dangling or null context was used, and it showed

sendqueue == <<queue, outcome>>
lws == <<context, wsi, link, cancelled, writable>>
threads == <<spc, rpc, mpc, dpc>>
vars == <<sendqueue, running, lws, threads, produced, wire, crashed>>

Fifo == INSTANCE BoundedFifo WITH Messages <- Message, Capacity <- SEND_QUEUE_SIZE

(* server_init and server_connect have succeeded; the threads are created. *)
Init ==
  /\ Fifo!Init
  /\ running = TRUE
  /\ context = "alive" /\ wsi = "set" /\ link = "connecting"
  /\ cancelled = FALSE /\ writable = FALSE
  /\ spc = "loop" /\ rpc = "unborn" /\ mpc = "watch" /\ dpc = "run"
  /\ produced = 0 /\ wire = <<>> /\ crashed = FALSE

(* The process has neither crashed nor returned from main.                 *)
Live == ~crashed /\ mpc # "returned"

-----------------------------------------------------------------------------
(* Faulty variants, each a slip this code invites.                         *)
NoRequest == writable
Forgotten == FALSE

(* EVENT_WAIT_CANCELLED asks for a writable callback when data waits.      *)
WantsToWrite == writable \/ (wsi # "null" /\ running /\ queue # <<>>)
(* After a write, another one is asked for when more data waits.           *)
MoreToWrite == writable \/ queue # <<>>
(* server_lws_thread and main leave their loops when the session ends.     *)
ServiceEnds == ~running
DashboardEnds == ~running

(* lws_cancel_service(context) wakes the service thread; on a context that *)
(* is gone it is undefined behaviour, which shows or does not.             *)
CancelService ==
  IF context = "alive"
  THEN cancelled' = TRUE /\ UNCHANGED crashed
  ELSE crashed' \in BOOLEAN /\ UNCHANGED cancelled

-----------------------------------------------------------------------------
(* The service thread: server_lws_thread, and ws_callback inside it.       *)

InCallback == Live /\ spc = "service"

EnterService ==
  /\ Live /\ spc = "loop" /\ ~ServiceEnds
  /\ spc' = "service"
  /\ UNCHANGED <<sendqueue, running, lws, rpc, mpc, dpc, produced, wire, crashed>>

ReturnFromService ==
  /\ InCallback
  /\ spc' = "loop"
  /\ UNCHANGED <<sendqueue, running, lws, rpc, mpc, dpc, produced, wire, crashed>>

(* CLIENT_ESTABLISHED: hello is queued.  How long it is depends on the     *)
(* command line.                                                           *)
Established ==
  /\ InCallback /\ link = "connecting"
  /\ link' = "up"
  /\ wsi' = "set"
  /\ \E hello \in {Hello, HugeHello} :
       \/ Fifo!Put(hello) /\ cancelled' = TRUE
       \/ Fifo!Refuse(hello) /\ UNCHANGED cancelled
  /\ writable' = TRUE
  /\ UNCHANGED <<running, context, threads, produced, wire, crashed>>

(* CLIENT_CLOSED and CLIENT_CONNECTION_ERROR.                              *)
ConnectionLost ==
  /\ InCallback /\ link # "down"
  /\ link' = "down"
  /\ wsi' = "null"
  /\ writable' = FALSE
  /\ running' = FALSE
  /\ CancelService
  /\ UNCHANGED <<sendqueue, context, threads, produced, wire>>

(* banned, contributions_closed and client_outdated.                       *)
ReceiveEnd ==
  /\ InCallback /\ link = "up"
  /\ running' = FALSE
  /\ CancelService
  /\ UNCHANGED <<sendqueue, context, wsi, link, writable, threads, produced, wire>>

(* The first job starts the reporter.  The coordinator answers a hello.    *)
ReceiveJob ==
  /\ InCallback /\ link = "up"
  /\ wire # <<>>
  /\ rpc = "unborn"
  /\ rpc' = "loop"
  /\ UNCHANGED <<sendqueue, running, lws, spc, mpc, dpc, produced, wire, crashed>>

EventWaitCancelled ==
  /\ InCallback /\ cancelled
  /\ cancelled' = FALSE
  /\ writable' = WantsToWrite
  /\ UNCHANGED <<sendqueue, running, context, wsi, link, threads, produced, wire, crashed>>

(* CLIENT_WRITEABLE takes one message; one that is too long is dropped.    *)
Writeable ==
  /\ InCallback /\ link = "up" /\ writable
  /\ writable' = FALSE
  /\ \/ Fifo!TakeNothing /\ UNCHANGED <<spc, wire>>
     \/ Fifo!Take /\ Head(queue).kind = "huge" /\ UNCHANGED <<spc, wire>>
     \/ /\ Fifo!Take /\ Head(queue).kind # "huge"
        /\ wire' = Append(wire, Head(queue))
        /\ spc' = "wrote"
  /\ UNCHANGED <<running, context, wsi, link, cancelled, rpc, mpc, dpc, produced, crashed>>

(* The end of CLIENT_WRITEABLE, after another look at send_count.          *)
Rearm ==
  /\ Live /\ spc = "wrote"
  /\ writable' = MoreToWrite
  /\ spc' = "service"
  /\ UNCHANGED <<sendqueue, running, context, wsi, link, cancelled, rpc, mpc, dpc,
                 produced, wire, crashed>>

(* lws_context_destroy closes the connection that is still open.           *)
DestroyContext ==
  /\ Live /\ spc = "loop" /\ ServiceEnds
  /\ context' = "destroyed"
  /\ link' = "down" /\ wsi' = "null" /\ writable' = FALSE
  /\ running' = IF link = "down" THEN running ELSE FALSE
  /\ spc' = "destroyed"
  /\ UNCHANGED <<sendqueue, cancelled, rpc, mpc, dpc, produced, wire, crashed>>

ClearContext ==
  /\ Live /\ spc = "destroyed"
  /\ context' = "null"
  /\ spc' = "exited"
  /\ UNCHANGED <<sendqueue, running, wsi, link, cancelled, writable, rpc, mpc, dpc,
                 produced, wire, crashed>>

-----------------------------------------------------------------------------
(* The reporter: running is read, a second passes, a result may be due.    *)

ReporterLoop ==
  /\ Live /\ rpc = "loop"
  /\ rpc' = IF running THEN "report" ELSE "exited"
  /\ UNCHANGED <<sendqueue, running, lws, spc, mpc, dpc, produced, wire, crashed>>

NothingToReport ==
  /\ Live /\ rpc = "report"
  /\ rpc' = "loop"
  /\ UNCHANGED <<sendqueue, running, lws, spc, mpc, dpc, produced, wire, crashed>>

(* server_send_result: a refused result is gone; the reporter never knows. *)
SendResult ==
  /\ Live /\ rpc = "report" /\ produced < MaxResults
  /\ produced' = produced + 1
  /\ \/ Fifo!Put(ResultOf(produced + 1)) /\ rpc' = "cancel"
     \/ Fifo!Refuse(ResultOf(produced + 1)) /\ rpc' = "loop"
  /\ UNCHANGED <<running, lws, spc, mpc, dpc, wire, crashed>>

(* The end of queue_push, outside send_mutex.                              *)
WakeService ==
  /\ Live /\ rpc = "cancel"
  /\ CancelService
  /\ rpc' = "loop"
  /\ UNCHANGED <<sendqueue, running, context, wsi, link, writable, spc, mpc, dpc,
                 produced, wire>>

-----------------------------------------------------------------------------
(* main and the dashboard thread.                                          *)

MainNotices ==
  /\ Live /\ mpc = "watch" /\ ~running
  /\ mpc' = "check"
  /\ UNCHANGED <<sendqueue, running, lws, spc, rpc, dpc, produced, wire, crashed>>

(* client_shutdown looks at context, then uses it.                         *)
MainChecksContext ==
  /\ Live /\ mpc = "check"
  /\ mpc' = IF context = "null" THEN "join" ELSE "cancel"
  /\ UNCHANGED <<sendqueue, running, lws, spc, rpc, dpc, produced, wire, crashed>>

MainCancels ==
  /\ Live /\ mpc = "cancel"
  /\ CancelService
  /\ mpc' = "join"
  /\ UNCHANGED <<sendqueue, running, context, wsi, link, writable, spc, rpc, dpc,
                 produced, wire>>

MainJoins ==
  /\ Live /\ mpc = "join" /\ spc = "exited" /\ dpc = "exited"
  /\ mpc' = "returned"
  /\ UNCHANGED <<sendqueue, running, lws, spc, rpc, dpc, produced, wire, crashed>>

DashboardExits ==
  /\ Live /\ dpc = "run" /\ DashboardEnds
  /\ dpc' = "exited"
  /\ UNCHANGED <<sendqueue, running, lws, spc, rpc, mpc, produced, wire, crashed>>

-----------------------------------------------------------------------------
Lifetime == EnterService \/ Rearm \/ DestroyContext \/ ClearContext
Main == MainNotices \/ MainChecksContext \/ MainCancels \/ MainJoins

Next ==
  \/ Lifetime \/ ReturnFromService
  \/ Established \/ ConnectionLost \/ ReceiveEnd \/ ReceiveJob
  \/ EventWaitCancelled \/ Writeable
  \/ ReporterLoop \/ NothingToReport \/ SendResult \/ WakeService
  \/ Main \/ DashboardExits

Spec == Init /\ [][Next]_vars

(* Threads that can run do.  lws_service comes back to its caller, and     *)
(* serves a pending request in the end: a socket that stays open becomes   *)
(* writable again and again.  Nothing makes the connection, a message of   *)
(* the coordinator or a new result happen.                                 *)
Fairness ==
  /\ WF_vars(Lifetime) /\ WF_vars(ReturnFromService)
  /\ SF_vars(EventWaitCancelled) /\ SF_vars(Writeable)
  /\ WF_vars(ReporterLoop) /\ WF_vars(WakeService)
  /\ WF_vars(Main) /\ WF_vars(DashboardExits)

FairSpec == Spec /\ Fairness

-----------------------------------------------------------------------------
(* Properties.                                                             *)

(* Threads and connection are in one of their states, and the send queue   *)
(* stays within its size.                                                  *)
TypeOK ==
  /\ queue \in Seq(Message) /\ Len(queue) <= SEND_QUEUE_SIZE
  /\ running \in BOOLEAN
  /\ context \in {"alive", "destroyed", "null"}
  /\ wsi \in {"set", "null"} /\ link \in {"connecting", "up", "down"}
  /\ cancelled \in BOOLEAN /\ writable \in BOOLEAN
  /\ spc \in {"loop", "service", "wrote", "destroyed", "exited"}
  /\ rpc \in {"unborn", "loop", "report", "cancel", "exited"}
  /\ mpc \in {"watch", "check", "cancel", "join", "returned"}
  /\ dpc \in {"run", "exited"}
  /\ produced \in 0 .. MaxResults /\ wire \in Seq(Message)
  /\ crashed \in BOOLEAN

(* No wakeup is lost between the threads: while a message waits on an open *)
(* connection, a wakeup is pending, or the thread that will cause one is   *)
(* just before it.  Neither the drop of a long message nor a message       *)
(* queued during a write leaves the queue asleep.                          *)
NoStall ==
  running /\ link = "up" /\ queue # <<>> =>
    writable \/ cancelled \/ spc = "wrote" \/ rpc = "cancel"

(* Threads, connection and queue keep to their types, and the queue never  *)
(* goes to sleep on a message.                                             *)
Inv == TypeOK /\ NoStall

(* BOGO_API.md: total_done strictly increases; so results leave in the     *)
(* order they were made, whichever of them are dropped.                    *)
WireInOrder ==
  \A a, b \in 1 .. Len(wire) : a < b => wire[a].total < wire[b].total

(* A result in the queue gets out, or the session ends.                    *)
QueuedIsWritten ==
  \A n \in 1 .. MaxResults :
    (\E k \in 1 .. Len(queue) : queue[k] = ResultOf(n)) ~>
      (~running \/ \E k \in 1 .. Len(wire) : wire[k] = ResultOf(n))

(* Once the session ends, all joined threads end and main returns.         *)
ShutdownCompletes == ~running ~> mpc = "returned" \/ crashed
=============================================================================
