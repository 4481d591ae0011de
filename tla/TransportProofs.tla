-------------------------- MODULE TransportProofs --------------------------
(***************************************************************************)
(* No wakeup between the reporter and the service thread is lost, for      *)
(* every size of the queue and every number of results.                    *)
(***************************************************************************)
EXTENDS Transport, SequenceTheorems, TLAPS

-----------------------------------------------------------------------------
(* A hello is alone in the queue, since the coordinator's first job        *)
(* answers it: so dropping a long one leaves nothing behind.               *)
HelloAlone ==
  /\ queue \in Seq(Message)
  /\ link = "connecting" => queue = <<>> /\ wire = <<>> /\ rpc = "unborn"
  /\ rpc # "unborn" => wire # <<>>
  /\ wire # <<>> => \A k \in 1 .. Len(queue) : queue[k].kind = "result"
  /\ wire = <<>> => Len(queue) <= 1

(* A session that runs has its context, and an open connection its handle. *)
SessionHasContext ==
  /\ context # "alive" \/ spc \in {"destroyed", "exited"} => ~running
  /\ link = "up" => wsi = "set"

StallInv ==
  /\ wire \in Seq(Message) /\ produced \in Nat
  /\ HelloAlone
  /\ SessionHasContext
  /\ NoStall

(* The two greetings and every result are messages.                        *)
LEMMA MessagesAreMessages ==
  /\ Hello \in Message /\ HugeHello \in Message
  /\ \A n \in 0 .. MaxResults : ResultOf(n) \in Message
BY TransportAssumption DEF Hello, HugeHello, ResultOf, Message

LEMMA InitStallInv == Init => StallInv
<1> SUFFICES ASSUME Init PROVE StallInv
  OBVIOUS
<1>1. queue = <<>> /\ wire = <<>> /\ Len(queue) = 0
  BY DEF Init, Fifo!Init
<1> QED
  BY <1>1 DEF Init, StallInv, HelloAlone, SessionHasContext, NoStall

(* Steps that leave the queue, the wire and the connection alone.          *)
LEMMA QuietStep ==
  ASSUME StallInv,
         UNCHANGED <<queue, wire, link, wsi, context, produced>>,
         running' => running,
         rpc' # "unborn" => rpc # "unborn" \/ wire # <<>>,
         link = "connecting" => rpc' = "unborn",
         spc' \in {"destroyed", "exited"} => ~running',
         writable' \/ cancelled' \/ spc' = "wrote" \/ rpc' = "cancel"
           \/ ~(writable \/ cancelled \/ spc = "wrote" \/ rpc = "cancel")
           \/ ~running' \/ link # "up" \/ queue = <<>>
  PROVE  StallInv'
<1>1. HelloAlone'
  BY DEF StallInv, HelloAlone
<1>2. SessionHasContext'
  BY DEF StallInv, SessionHasContext
<1>3. NoStall'
  BY DEF StallInv, NoStall
<1> QED
  BY <1>1, <1>2, <1>3 DEF StallInv

LEMMA EstablishedStep ==
  ASSUME StallInv, Established
  PROVE  StallInv'
<1>1. /\ queue = <<>> /\ wire = <<>> /\ rpc = "unborn" /\ wire' = wire /\ rpc' = rpc
      /\ link' = "up" /\ wsi' = "set" /\ writable' = TRUE
      /\ UNCHANGED <<running, context, spc, produced>>
  BY DEF Established, StallInv, HelloAlone, threads
<1>2. queue' \in Seq(Message) /\ Len(queue') <= 1
  <2>1. ASSUME NEW m \in Message, Fifo!Put(m)
        PROVE  queue' \in Seq(Message) /\ Len(queue') <= 1
    <3>1. queue' = Append(queue, m) /\ queue \in Seq(Message) /\ Len(queue) = 0
      BY <1>1, <2>1 DEF Fifo!Put, StallInv, HelloAlone
    <3> QED
      BY <3>1, AppendProperties
  <2>2. ASSUME NEW m \in Message, Fifo!Refuse(m)
        PROVE  queue' \in Seq(Message) /\ Len(queue') <= 1
    BY <1>1, <2>2 DEF Fifo!Refuse, StallInv, HelloAlone
  <2> QED
    BY <2>1, <2>2, MessagesAreMessages DEF Established
<1> QED
  BY <1>1, <1>2 DEF StallInv, HelloAlone, SessionHasContext, NoStall

LEMMA WriteableStep ==
  ASSUME StallInv, Writeable
  PROVE  StallInv'
<1>1. /\ link = "up" /\ UNCHANGED <<running, context, wsi, link, rpc, cancelled, produced>>
      /\ queue \in Seq(Message) /\ wire \in Seq(Message)
  BY DEF Writeable, StallInv, HelloAlone
<1>2. CASE Fifo!TakeNothing /\ UNCHANGED <<spc, wire>>
  BY <1>1, <1>2 DEF Fifo!TakeNothing, StallInv, HelloAlone, SessionHasContext, NoStall
<1>3. CASE Fifo!Take
  <2>1. /\ queue # <<>> /\ queue' = Tail(queue) /\ queue' \in Seq(Message)
        /\ Len(queue') = Len(queue) - 1 /\ Len(queue) \in Nat \ {0}
        /\ \A k \in 1 .. Len(queue') : queue'[k] = queue[k + 1]
    BY <1>1, <1>3, HeadTailProperties, EmptySeq DEF Fifo!Take
  <2>2. Head(queue) = queue[1] /\ Head(queue) \in Message
    BY <1>1, <2>1, HeadTailProperties
  <2>3. wire # <<>> => \A k \in 1 .. Len(queue') : queue'[k].kind = "result"
    <3> SUFFICES ASSUME wire # <<>>, NEW k \in 1 .. Len(queue')
                 PROVE  queue'[k].kind = "result"
      OBVIOUS
    <3>1. k + 1 \in 1 .. Len(queue)
      BY <2>1
    <3> QED
      BY <2>1, <3>1 DEF StallInv, HelloAlone
  <2>4. wire = <<>> => Len(queue') = 0
    BY <2>1 DEF StallInv, HelloAlone
  <2>5. CASE Head(queue).kind = "huge" /\ UNCHANGED <<spc, wire>>
    <3>1. wire = <<>>
      BY <2>1, <2>2, <2>5 DEF StallInv, HelloAlone
    <3>2. queue' = <<>>
      BY <2>1, <2>4, <3>1, EmptySeq
    <3> QED
      BY <1>1, <2>1, <2>4, <2>5, <3>1, <3>2
      DEF StallInv, HelloAlone, SessionHasContext, NoStall
  <2>6. CASE Head(queue).kind # "huge" /\ wire' = Append(wire, Head(queue)) /\ spc' = "wrote"
    <3>1. wire' # <<>> /\ wire' \in Seq(Message)
      BY <1>1, <2>2, <2>6, AppendProperties
    <3>2. \A k \in 1 .. Len(queue') : queue'[k].kind = "result"
      BY <2>3, <2>4
    <3> QED
      BY <1>1, <2>1, <2>6, <3>1, <3>2
      DEF StallInv, HelloAlone, SessionHasContext, NoStall
  <2> QED
    BY <1>2, <1>3, <2>1, <2>5, <2>6 DEF Writeable, Fifo!TakeNothing
<1> QED
  BY <1>2, <1>3 DEF Writeable

LEMMA SendResultStep ==
  ASSUME StallInv, SendResult
  PROVE  StallInv'
<1> DEFINE m == ResultOf(produced + 1)
<1>1. /\ rpc = "report" /\ UNCHANGED <<running, context, wsi, link, writable, cancelled, spc, wire>>
      /\ queue \in Seq(Message) /\ wire # <<>>
      /\ \A k \in 1 .. Len(queue) : queue[k].kind = "result"
  BY DEF SendResult, lws, StallInv, HelloAlone
<1>2. m.kind = "result"
  BY DEF ResultOf
<1>3. CASE Fifo!Put(m) /\ rpc' = "cancel"
  <2>1. m \in Message
    <3>1. produced + 1 \in 0 .. MaxResults
      BY TransportAssumption DEF SendResult, StallInv
    <3> QED
      BY <3>1, MessagesAreMessages
  <2> HIDE DEF m
  <2>2. /\ queue' = Append(queue, m) /\ queue' \in Seq(Message)
        /\ Len(queue') = Len(queue) + 1 /\ Len(queue) \in Nat
        /\ \A k \in 1 .. Len(queue) : queue'[k] = queue[k]
        /\ queue'[Len(queue) + 1] = m
    BY <1>1, <1>3, <2>1, AppendProperties, LenProperties DEF Fifo!Put
  <2>3. ASSUME NEW k \in 1 .. Len(queue')
        PROVE  queue'[k].kind = "result"
    <3>1. k \in 1 .. Len(queue) \/ k = Len(queue) + 1
      BY <2>2
    <3> QED
      BY <1>1, <1>2, <2>2, <3>1
  <2>4. HelloAlone'
    BY <1>1, <1>3, <2>2, <2>3 DEF StallInv, HelloAlone
  <2>5. SessionHasContext' /\ NoStall'
    BY <1>1, <1>3 DEF StallInv, SessionHasContext, NoStall
  <2> QED
    BY <1>1, <2>4, <2>5 DEF StallInv, SendResult
<1>4. CASE Fifo!Refuse(m) /\ rpc' = "loop"
  <2>1. queue' = queue
    BY <1>4 DEF Fifo!Refuse
  <2>2. HelloAlone'
    BY <1>1, <1>4, <2>1 DEF StallInv, HelloAlone
  <2>3. SessionHasContext' /\ NoStall'
    BY <1>1, <1>4, <2>1 DEF StallInv, SessionHasContext, NoStall
  <2> QED
    BY <1>1, <2>2, <2>3 DEF StallInv, SendResult
<1> QED
  BY <1>3, <1>4 DEF SendResult

(* The connection ends, and with it the session.                           *)
LEMMA ConnectionEnds ==
  ASSUME StallInv, link' = "down", ~running', UNCHANGED <<queue, wire, rpc, produced>>
  PROVE  StallInv'
BY DEF StallInv, HelloAlone, SessionHasContext, NoStall

LEMMA StallInvStep == StallInv /\ [Next]_vars => StallInv'
<1> SUFFICES ASSUME StallInv, [Next]_vars PROVE StallInv'
  OBVIOUS
<1> USE DEF sendqueue, lws, threads
<1>1. CASE Lifetime
  <2>1. CASE EnterService
    BY <2>1, QuietStep DEF EnterService, ServiceEnds, StallInv, HelloAlone
  <2>2. CASE Rearm
    BY <2>2, QuietStep DEF Rearm, MoreToWrite, StallInv, HelloAlone
  <2>3. CASE DestroyContext
    BY <2>3, ConnectionEnds DEF DestroyContext, ServiceEnds
  <2>4. CASE ClearContext
    BY <2>4 DEF ClearContext, StallInv, HelloAlone, SessionHasContext, NoStall
  <2> QED
    BY <1>1, <2>1, <2>2, <2>3, <2>4 DEF Lifetime
<1>2. CASE ReturnFromService
  BY <1>2, QuietStep DEF ReturnFromService, InCallback, StallInv, HelloAlone
<1>3. CASE Established
  BY <1>3, EstablishedStep
<1>4. CASE ConnectionLost
  BY <1>4, ConnectionEnds DEF ConnectionLost
<1>5. CASE ReceiveEnd
  BY <1>5, QuietStep DEF ReceiveEnd, StallInv, HelloAlone
<1>6. CASE ReceiveJob
  BY <1>6, QuietStep DEF ReceiveJob, InCallback, StallInv, HelloAlone
<1>7. CASE EventWaitCancelled
  BY <1>7, QuietStep DEF EventWaitCancelled, WantsToWrite, InCallback, StallInv,
     HelloAlone, SessionHasContext
<1>8. CASE Writeable
  BY <1>8, WriteableStep
<1>9. CASE ReporterLoop
  BY <1>9, QuietStep DEF ReporterLoop, StallInv, HelloAlone, SessionHasContext
<1>10. CASE NothingToReport
  BY <1>10, QuietStep DEF NothingToReport, StallInv, HelloAlone, SessionHasContext
<1>11. CASE SendResult
  BY <1>11, SendResultStep
<1>12. CASE WakeService
  BY <1>12, QuietStep DEF WakeService, CancelService, StallInv, HelloAlone, SessionHasContext
<1>13. CASE Main
  <2>1. CASE MainCancels
    BY <2>1, QuietStep DEF MainCancels, CancelService, StallInv, HelloAlone, SessionHasContext
  <2>2. CASE MainNotices \/ MainChecksContext \/ MainJoins
    BY <2>2, QuietStep DEF MainNotices, MainChecksContext, MainJoins, StallInv,
       HelloAlone, SessionHasContext
  <2> QED
    BY <1>13, <2>1, <2>2 DEF Main
<1>14. CASE DashboardExits
  BY <1>14, QuietStep DEF DashboardExits, StallInv, HelloAlone, SessionHasContext
<1>15. CASE UNCHANGED vars
  BY <1>15, QuietStep DEF vars, StallInv, HelloAlone, SessionHasContext
<1> QED
  BY <1>1, <1>2, <1>3, <1>4, <1>5, <1>6, <1>7, <1>8, <1>9, <1>10, <1>11, <1>12,
     <1>13, <1>14, <1>15 DEF Next

(* While a message waits on an open connection, a wakeup is pending or     *)
(* about to be asked for: no interleaving of reporter and service thread,  *)
(* and no dropped message, puts the queue to sleep.                        *)
THEOREM NoWakeupLost == Spec => []NoStall
<1>1. StallInv => NoStall
  BY DEF StallInv
<1> QED
  BY <1>1, InitStallInv, StallInvStep, PTL DEF Spec

-----------------------------------------------------------------------------
(* Types.  Queue and wire are those of StallInv.                           *)

LEMMA QueueStaysBounded ==
  ASSUME StallInv, TypeOK, [Next]_vars
  PROVE  Len(queue') <= SEND_QUEUE_SIZE
<1>1. queue \in Seq(Message) /\ Len(queue) <= SEND_QUEUE_SIZE /\ Len(queue) \in Nat
  BY DEF TypeOK
<1>2. ASSUME NEW m \in Message, Fifo!Put(m) PROVE Len(queue') <= SEND_QUEUE_SIZE
  <2>1. Len(queue') = Len(queue) + 1 /\ Len(queue) < SEND_QUEUE_SIZE
    BY <1>1, <1>2, AppendProperties DEF Fifo!Put
  <2> QED
    BY <1>1, <2>1, TransportAssumption
<1>3. CASE Fifo!Take
  <2>1. queue # <<>> /\ Len(queue') = Len(queue) - 1
    BY <1>1, <1>3, HeadTailProperties DEF Fifo!Take
  <2> QED
    BY <1>1, <2>1, TransportAssumption
<1>4. ASSUME queue' = queue PROVE Len(queue') <= SEND_QUEUE_SIZE
  BY <1>1, <1>4
<1>5. CASE Established
  BY <1>2, <1>4, <1>5, MessagesAreMessages DEF Established, Fifo!Refuse
<1>6. CASE Writeable
  BY <1>3, <1>4, <1>6 DEF Writeable, Fifo!TakeNothing
<1>7. CASE SendResult
  <2>1. produced + 1 \in 0 .. MaxResults
    BY <1>7, TransportAssumption DEF SendResult, TypeOK
  <2>2. ResultOf(produced + 1) \in Message
    BY <2>1, MessagesAreMessages
  <2> QED
    BY <1>2, <1>4, <1>7, <2>2 DEF SendResult, Fifo!Refuse
<1>8. CASE Lifetime \/ ReturnFromService \/ Main \/ DashboardExits
  BY <1>4, <1>8 DEF Lifetime, ReturnFromService, Main, DashboardExits, EnterService, Rearm,
     DestroyContext, ClearContext, MainNotices, MainChecksContext, MainCancels, MainJoins,
     sendqueue
<1>9. CASE ConnectionLost \/ ReceiveEnd \/ ReceiveJob \/ EventWaitCancelled
  BY <1>4, <1>9 DEF ConnectionLost, ReceiveEnd, ReceiveJob, EventWaitCancelled, sendqueue
<1>10. CASE ReporterLoop \/ NothingToReport \/ WakeService
  BY <1>4, <1>10 DEF ReporterLoop, NothingToReport, WakeService, sendqueue
<1>11. CASE UNCHANGED vars
  BY <1>4, <1>11 DEF vars, sendqueue
<1> QED
  BY <1>5, <1>6, <1>7, <1>8, <1>9, <1>10, <1>11 DEF Next

LEMMA TypeOKStep ==
  ASSUME StallInv, TypeOK, [Next]_vars
  PROVE  TypeOK'
<1>1. queue' \in Seq(Message) /\ wire' \in Seq(Message)
  BY StallInvStep DEF StallInv, HelloAlone
<1>2. Len(queue') <= SEND_QUEUE_SIZE
  BY QueueStaysBounded
<1> HIDE DEF StallInv
<1> USE <1>1, <1>2 DEF TypeOK, sendqueue, lws, threads, CancelService
<1>3. CASE EnterService \/ ReturnFromService \/ ClearContext
  BY <1>3 DEF EnterService, ReturnFromService, ClearContext
<1>4. CASE Rearm
  BY <1>4 DEF Rearm, MoreToWrite
<1>5. CASE DestroyContext
  BY <1>5 DEF DestroyContext
<1>6. CASE Established
  BY <1>6 DEF Established
<1>7. CASE ConnectionLost \/ ReceiveEnd \/ ReceiveJob
  BY <1>7 DEF ConnectionLost, ReceiveEnd, ReceiveJob
<1>8. CASE EventWaitCancelled
  <2>1. writable' \in BOOLEAN /\ cancelled' \in BOOLEAN
    BY <1>8, Zenon DEF EventWaitCancelled, WantsToWrite
  <2> QED
    BY <1>8, <2>1 DEF EventWaitCancelled
<1>9. CASE Writeable
  <2>1. /\ spc' \in {spc, "wrote"} /\ writable' = FALSE
        /\ UNCHANGED <<running, context, wsi, link, cancelled, rpc, mpc, dpc, produced, crashed>>
    BY <1>9 DEF Writeable
  <2>2. writable' \in BOOLEAN
    BY <2>1
  <2>3. spc' \in {"loop", "service", "wrote", "destroyed", "exited"}
    BY <2>1
  <2> QED
    BY <2>1, <2>2, <2>3
<1>10. CASE ReporterLoop \/ NothingToReport \/ WakeService
  BY <1>10 DEF ReporterLoop, NothingToReport, WakeService
<1>11. CASE SendResult
  BY <1>11, TransportAssumption DEF SendResult
<1>12. CASE Main \/ DashboardExits
  BY <1>12 DEF Main, MainNotices, MainChecksContext, MainCancels, MainJoins, DashboardExits
<1>13. CASE UNCHANGED vars
  BY <1>13 DEF vars
<1> QED
  BY <1>3, <1>4, <1>5, <1>6, <1>7, <1>8, <1>9, <1>10, <1>11, <1>12, <1>13
  DEF Next, Lifetime

(* Types, the bound of the queue, and no lost wakeup, together.            *)
THEOREM TypesAndWakeups == Spec => []Inv
<1>1. Init => TypeOK
  <2> SUFFICES ASSUME Init PROVE TypeOK
    OBVIOUS
  <2>1. queue = <<>> /\ wire = <<>> /\ Len(queue) = 0
    BY DEF Init, Fifo!Init
  <2>2. 0 \in 0 .. MaxResults /\ 0 <= SEND_QUEUE_SIZE
    BY TransportAssumption
  <2>3. queue \in Seq(Message) /\ wire \in Seq(Message)
    BY <2>1
  <2> QED
    BY <2>1, <2>2, <2>3 DEF Init, TypeOK
<1>2. StallInv /\ TypeOK /\ [Next]_vars => TypeOK'
  BY TypeOKStep
<1>3. StallInv /\ TypeOK => Inv
  BY DEF StallInv, Inv
<1> QED
  BY <1>1, <1>2, <1>3, InitStallInv, StallInvStep, PTL DEF Spec

-----------------------------------------------------------------------------
(* Order.  Totals grow along the wire, from the wire into the queue and    *)
(* along the queue; the next result's is above them all.                   *)
Growing(q) == \A a, b \in 1 .. Len(q) : a < b => q[a].total < q[b].total

InOrder ==
  /\ Growing(wire) /\ Growing(queue)
  /\ \A a \in 1 .. Len(wire), b \in 1 .. Len(queue) : wire[a].total < queue[b].total
  /\ \A a \in 1 .. Len(wire) : wire[a].total <= produced
  /\ \A b \in 1 .. Len(queue) : queue[b].total <= produced

(* Totals are numbers.                                                     *)
LEMMA TotalsAreNumbers ==
  ASSUME NEW q \in Seq(Message), NEW k \in 1 .. Len(q)
  PROVE  q[k].total \in Nat
<1>1. q[k] \in Message
  BY ElementOfSeq
<1> QED
  BY <1>1, TransportAssumption DEF Message

(* A message above all others keeps a sequence growing.                    *)
LEMMA GrowingAppend ==
  ASSUME NEW q \in Seq(Message), NEW m \in Message, Growing(q),
         \A k \in 1 .. Len(q) : q[k].total < m.total
  PROVE  Growing(Append(q, m))
<1>1. /\ Len(Append(q, m)) = Len(q) + 1 /\ Len(q) \in Nat
      /\ \A k \in 1 .. Len(q) : Append(q, m)[k] = q[k]
      /\ Append(q, m)[Len(q) + 1] = m
  BY AppendProperties, LenProperties
<1> SUFFICES ASSUME NEW a \in 1 .. Len(q) + 1, NEW b \in 1 .. Len(q) + 1, a < b
             PROVE  Append(q, m)[a].total < Append(q, m)[b].total
  BY <1>1 DEF Growing
<1>2. a \in 1 .. Len(q) /\ (b \in 1 .. Len(q) \/ b = Len(q) + 1)
  BY <1>1
<1> QED
  BY <1>1, <1>2 DEF Growing

LEMMA SendResultInOrder ==
  ASSUME StallInv, TypeOK, InOrder, SendResult
  PROVE  InOrder'
<1> DEFINE m == ResultOf(produced + 1)
<1>1. /\ produced' = produced + 1 /\ wire' = wire /\ produced \in Nat
      /\ queue \in Seq(Message) /\ wire \in Seq(Message)
  BY DEF SendResult, TypeOK
<1>2. m.total = produced + 1
  BY DEF ResultOf
<1>3. m \in Message
  <2>1. produced + 1 \in 0 .. MaxResults
    BY <1>1, TransportAssumption DEF SendResult
  <2> QED
    BY <2>1, MessagesAreMessages
<1> HIDE DEF m
<1>4. \A a \in 1 .. Len(wire) : wire[a].total < m.total /\ wire[a].total <= produced'
  BY <1>1, <1>2, TotalsAreNumbers DEF InOrder
<1>5. \A b \in 1 .. Len(queue) : queue[b].total < m.total /\ queue[b].total <= produced'
  BY <1>1, <1>2, TotalsAreNumbers DEF InOrder
<1>6. CASE Fifo!Put(m)
  <2>1. /\ queue' = Append(queue, m) /\ Len(queue') = Len(queue) + 1
        /\ Len(queue) \in Nat /\ queue'[Len(queue) + 1] = m
        /\ \A k \in 1 .. Len(queue) : queue'[k] = queue[k]
    BY <1>1, <1>3, <1>6, AppendProperties, LenProperties DEF Fifo!Put
  <2>2. Growing(queue')
    BY <1>1, <1>3, <1>5, <2>1, GrowingAppend DEF InOrder
  <2>3. ASSUME NEW b \in 1 .. Len(queue')
        PROVE  /\ queue'[b].total <= produced'
               /\ \A a \in 1 .. Len(wire) : wire[a].total < queue'[b].total
    <3>1. b \in 1 .. Len(queue) \/ b = Len(queue) + 1
      BY <2>1
    <3> QED
      BY <1>1, <1>2, <1>4, <1>5, <2>1, <3>1 DEF InOrder
  <2> QED
    BY <1>1, <1>4, <2>2, <2>3 DEF InOrder, Growing
<1>7. CASE Fifo!Refuse(m)
  <2>1. queue' = queue
    BY <1>7 DEF Fifo!Refuse
  <2> QED
    BY <1>1, <1>4, <1>5, <2>1 DEF InOrder, Growing
<1> QED
  BY <1>6, <1>7 DEF SendResult, m

(* The head of the queue is above the wire and below the rest.             *)
LEMMA WriteableInOrder ==
  ASSUME StallInv, TypeOK, InOrder, Writeable
  PROVE  InOrder'
<1>1. produced' = produced /\ queue \in Seq(Message) /\ wire \in Seq(Message)
  BY DEF Writeable, TypeOK
<1>2. CASE Fifo!TakeNothing /\ UNCHANGED wire
  BY <1>1, <1>2 DEF Fifo!TakeNothing, InOrder, Growing
<1>3. CASE Fifo!Take /\ (wire' = wire \/ wire' = Append(wire, Head(queue)))
  <2>1. /\ queue # <<>> /\ queue' = Tail(queue) /\ Head(queue) = queue[1]
        /\ Len(queue') = Len(queue) - 1 /\ Len(queue) \in Nat \ {0}
        /\ \A k \in 1 .. Len(queue') : queue'[k] = queue[k + 1]
        /\ Head(queue) \in Message
    BY <1>1, <1>3, HeadTailProperties, EmptySeq DEF Fifo!Take
  <2>2. \A k \in 1 .. Len(queue') : k + 1 \in 1 .. Len(queue) /\ 1 < k + 1
    BY <2>1
  <2>3. Growing(queue')
    BY <2>1, <2>2 DEF InOrder, Growing
  <2>4. \A k \in 1 .. Len(queue') : /\ queue'[k].total <= produced
                                   /\ queue[1].total < queue'[k].total
    BY <2>1, <2>2 DEF InOrder, Growing
  <2>5. 1 \in 1 .. Len(queue)
    BY <2>1
  <2>6. CASE wire' = wire
    BY <1>1, <2>1, <2>2, <2>3, <2>4, <2>6 DEF InOrder, Growing
  <2>7. CASE wire' = Append(wire, Head(queue))
    <3>1. /\ Len(wire') = Len(wire) + 1 /\ Len(wire) \in Nat
          /\ \A k \in 1 .. Len(wire) : wire'[k] = wire[k]
          /\ wire'[Len(wire) + 1] = queue[1]
      BY <1>1, <2>1, <2>7, AppendProperties, LenProperties
    <3>2. Growing(wire')
      BY <1>1, <2>1, <2>5, <2>7, GrowingAppend DEF InOrder
    <3>3. ASSUME NEW a \in 1 .. Len(wire')
          PROVE  /\ wire'[a].total <= produced
                 /\ \A b \in 1 .. Len(queue') : wire'[a].total < queue'[b].total
      <4>1. a \in 1 .. Len(wire) \/ a = Len(wire) + 1
        BY <3>1
      <4> QED
        BY <2>1, <2>2, <2>4, <2>5, <3>1, <4>1 DEF InOrder
    <3> QED
      BY <1>1, <2>3, <2>4, <3>2, <3>3 DEF InOrder, Growing
  <2> QED
    BY <1>3, <2>6, <2>7
<1> QED
  BY <1>2, <1>3 DEF Writeable

LEMMA InOrderStep ==
  ASSUME StallInv, TypeOK, InOrder, [Next]_vars
  PROVE  InOrder'
<1>1. ASSUME UNCHANGED <<queue, wire, produced>> PROVE InOrder'
  BY <1>1 DEF InOrder, Growing
<1>2. CASE SendResult
  BY <1>2, SendResultInOrder
<1>3. CASE Writeable
  BY <1>3, WriteableInOrder
<1>4. CASE Established
  <2>1. queue = <<>> /\ wire = <<>> /\ wire' = <<>> /\ produced' = produced
    BY <1>4 DEF Established, StallInv, HelloAlone
  <2>2. ASSUME NEW m \in {Hello, HugeHello}, Fifo!Put(m)
        PROVE  InOrder'
    <3>1. queue' = <<m>> /\ Len(queue') = 1 /\ queue'[1] = m
      BY <2>1, <2>2 DEF Fifo!Put
    <3>2. m.total = 0 /\ produced \in Nat
      BY DEF Hello, HugeHello, TypeOK
    <3> QED
      BY <2>1, <3>1, <3>2 DEF InOrder, Growing
  <2>3. ASSUME NEW m, Fifo!Refuse(m) PROVE InOrder'
    BY <1>1, <2>1, <2>3 DEF Fifo!Refuse
  <2> QED
    BY <1>4, <2>2, <2>3 DEF Established
<1>5. CASE Lifetime \/ ReturnFromService \/ Main \/ DashboardExits
  BY <1>1, <1>5 DEF Lifetime, ReturnFromService, Main, DashboardExits, EnterService, Rearm,
     DestroyContext, ClearContext, MainNotices, MainChecksContext, MainCancels, MainJoins,
     sendqueue
<1>6. CASE ConnectionLost \/ ReceiveEnd \/ ReceiveJob \/ EventWaitCancelled
  BY <1>1, <1>6 DEF ConnectionLost, ReceiveEnd, ReceiveJob, EventWaitCancelled, sendqueue
<1>7. CASE ReporterLoop \/ NothingToReport \/ WakeService
  BY <1>1, <1>7 DEF ReporterLoop, NothingToReport, WakeService, sendqueue
<1>8. CASE UNCHANGED vars
  BY <1>1, <1>8 DEF vars, sendqueue
<1> QED
  BY <1>2, <1>3, <1>4, <1>5, <1>6, <1>7, <1>8 DEF Next

(* What leaves, leaves in the order it was made, whatever was dropped.     *)
THEOREM WireStaysInOrder == Spec => []WireInOrder
<1>1. Init => InOrder
  <2> SUFFICES ASSUME Init PROVE InOrder
    OBVIOUS
  <2>1. Len(queue) = 0 /\ Len(wire) = 0
    BY DEF Init, Fifo!Init
  <2> QED
    BY <2>1 DEF InOrder, Growing
<1>2. StallInv /\ Inv /\ InOrder /\ [Next]_vars => InOrder'
  BY InOrderStep DEF Inv
<1>3. InOrder => WireInOrder
  BY DEF InOrder, Growing, WireInOrder
<1> QED
  BY <1>1, <1>2, <1>3, TypesAndWakeups, InitStallInv, StallInvStep, PTL DEF Spec
=============================================================================
