---------------------------- MODULE BoundedFifo ----------------------------
(***************************************************************************)
(* What src/server.c promises of its send queue: a bounded first-in        *)
(* first-out queue that never blocks.  A message put into a full queue is  *)
(* refused; taking from an empty one yields nothing.                       *)
(***************************************************************************)
EXTENDS Naturals, Sequences

CONSTANTS Messages, Capacity

VARIABLES
  queue,    \* the messages that wait, oldest first
  outcome   \* what the last operation did

fifo == <<queue, outcome>>

Init ==
  /\ queue = <<>>
  /\ outcome = <<"none">>

(* A faulty variant: the wrong end.                                        *)
TakeNewest ==
  /\ queue # <<>>
  /\ queue' = SubSeq(queue, 1, Len(queue) - 1)
  /\ outcome' = <<"took", queue[Len(queue)]>>

Put(m) ==
  /\ Len(queue) < Capacity
  /\ queue' = Append(queue, m)
  /\ outcome' = <<"put", m>>

Refuse(m) ==
  /\ Len(queue) = Capacity
  /\ outcome' = <<"refused", m>>
  /\ UNCHANGED queue

Take ==
  /\ queue # <<>>
  /\ queue' = Tail(queue)
  /\ outcome' = <<"took", Head(queue)>>

TakeNothing ==
  /\ queue = <<>>
  /\ outcome' = <<"empty">>
  /\ UNCHANGED queue

Next ==
  \/ \E m \in Messages : Put(m) \/ Refuse(m)
  \/ Take
  \/ TakeNothing

Spec == Init /\ [][Next]_fifo
=============================================================================
