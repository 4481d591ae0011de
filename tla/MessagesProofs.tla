--------------------------- MODULE MessagesProofs ---------------------------
(***************************************************************************)
(* The dashboard shows the end of the log, whatever the threads that log   *)
(* do; the log that the messages go to is that of Dashboard, and no screen *)
(* contradicts itself: for every number of messages, lines and threads.    *)
(* Inv, Init, Next and Spec are Dashboard's, the rest is Messages'.        *)
(***************************************************************************)
EXTENDS Messages, SequenceTheorems, TLAPS

-----------------------------------------------------------------------------
(* Index arithmetic modulo the number of lines.                            *)

LEMMA Remainder ==
  ASSUME NEW q \in Nat, NEW r \in Slots
  PROVE  (q * LOG_LINES + r) % LOG_LINES = r
BY LogAssumption DEF Slots

LEMMA Divide ==
  ASSUME NEW a \in Nat
  PROVE  \E q \in Nat, r \in Slots : a = q * LOG_LINES + r /\ a % LOG_LINES = r
<1> DEFINE q == a \div LOG_LINES
           r == a % LOG_LINES
<1>1. q \in Nat /\ r \in Slots /\ a = q * LOG_LINES + r
  BY LogAssumption DEF Slots
<1> QED
  BY <1>1

(* The slot after slot a % LOG_LINES is slot (a + 1) % LOG_LINES.          *)
LEMMA NextSlot ==
  ASSUME NEW a \in Nat
  PROVE  ((a % LOG_LINES) + 1) % LOG_LINES = (a + 1) % LOG_LINES
<1>1. PICK q \in Nat, r \in Slots : a = q * LOG_LINES + r /\ a % LOG_LINES = r
  BY Divide
<1>2. CASE r + 1 \in Slots
  <2>1. a + 1 = q * LOG_LINES + (r + 1) /\ r + 1 = 0 * LOG_LINES + (r + 1)
    BY <1>1, LogAssumption DEF Slots
  <2>2. (q * LOG_LINES + (r + 1)) % LOG_LINES = r + 1
    BY <1>2, Remainder
  <2>3. (0 * LOG_LINES + (r + 1)) % LOG_LINES = r + 1
    BY <1>2, Remainder
  <2> QED
    BY <1>1, <2>1, <2>2, <2>3
<1>3. CASE r + 1 = LOG_LINES
  <2>1. a + 1 = (q + 1) * LOG_LINES + 0 /\ r + 1 = 1 * LOG_LINES + 0
    BY <1>1, <1>3, LogAssumption DEF Slots
  <2>2. 0 \in Slots /\ q + 1 \in Nat
    BY LogAssumption DEF Slots
  <2>3. ((q + 1) * LOG_LINES + 0) % LOG_LINES = 0
    BY <2>2, Remainder
  <2>4. (1 * LOG_LINES + 0) % LOG_LINES = 0
    BY <2>2, Remainder
  <2> QED
    BY <1>1, <2>1, <2>3, <2>4
<1> QED
  BY <1>2, <1>3, LogAssumption DEF Slots

(* Fewer than LOG_LINES apart, two lines lie in different slots.           *)
LEMMA DifferentSlots ==
  ASSUME NEW a \in Nat, NEW b \in Nat, a < b, b < a + LOG_LINES
  PROVE  a % LOG_LINES # b % LOG_LINES
<1>1. PICK q \in Nat, r \in Slots : a = q * LOG_LINES + r /\ a % LOG_LINES = r
  BY Divide
<1>2. PICK p \in Nat, u \in Slots : b = p * LOG_LINES + u /\ b % LOG_LINES = u
  BY Divide
<1>3. SUFFICES ASSUME r = u PROVE FALSE
  BY <1>1, <1>2
<1>4. (p - q) * LOG_LINES = b - a
  BY <1>1, <1>2, <1>3, LogAssumption DEF Slots
<1>5. p - q \in Int /\ 0 < b - a /\ b - a < LOG_LINES
  BY LogAssumption
<1>6. CASE p - q <= 0
  <2>1. (p - q) * LOG_LINES <= 0
    BY <1>5, <1>6, LogAssumption
  <2> QED
    BY <1>4, <1>5, <2>1
<1>7. CASE p - q >= 1
  <2>1. (p - q) * LOG_LINES >= LOG_LINES
    BY <1>5, <1>7, LogAssumption
  <2> QED
    BY <1>4, <1>5, <2>1, LogAssumption
<1> QED
  BY <1>5, <1>6, <1>7

(* A whole turn of the ring leads back to the same slot.                   *)
LEMMA WholeTurn ==
  ASSUME NEW a \in Nat
  PROVE  (a + LOG_LINES) % LOG_LINES = a % LOG_LINES
<1>1. PICK q \in Nat, r \in Slots : a = q * LOG_LINES + r /\ a % LOG_LINES = r
  BY Divide
<1>2. a + LOG_LINES = (q + 1) * LOG_LINES + r
  BY <1>1, LogAssumption DEF Slots
<1> QED
  BY <1>1, <1>2, Remainder

(* k slots after slot a % LOG_LINES is slot (a + k) % LOG_LINES.           *)
LEMMA SlotsOn ==
  ASSUME NEW a \in Nat, NEW k \in Slots
  PROVE  ((a % LOG_LINES) + k) % LOG_LINES = (a + k) % LOG_LINES
<1>1. PICK q \in Nat, r \in Slots : a = q * LOG_LINES + r /\ a % LOG_LINES = r
  BY Divide
<1>2. r + k \in Nat
  BY LogAssumption DEF Slots
<1>3. PICK p \in Nat, u \in Slots : r + k = p * LOG_LINES + u /\ (r + k) % LOG_LINES = u
  BY <1>2, Divide
<1>4. a + k = (q + p) * LOG_LINES + u
  BY <1>1, <1>3, LogAssumption DEF Slots
<1>5. ((q + p) * LOG_LINES + u) % LOG_LINES = u
  BY Remainder
<1> QED
  BY <1>1, <1>3, <1>4, <1>5

(* A slot number is its own remainder.                                     *)
LEMMA SmallRemainder ==
  ASSUME NEW a \in Slots
  PROVE  a % LOG_LINES = a
BY LogAssumption DEF Slots

-----------------------------------------------------------------------------
LEMMA InitInv == Init => Inv
<1> SUFFICES ASSUME Init PROVE Inv
  OBVIOUS
<1>2. 0 \in Slots
  BY LogAssumption DEF Slots
<1>1. TypeOK /\ MutualExclusion
  <2>1. log_buf \in [Slots -> Nat]
    BY DEF Init
  <2>2. 0 \in 0 .. LOG_LINES /\ 0 \in 0 .. MaxLines
    BY LogAssumption
  <2> QED
    BY <1>2, <2>1, <2>2 DEF Init, TypeOK, MutualExclusion
<1>3. RingConsistent
  BY <1>2, SmallRemainder, LogAssumption DEF Init, RingConsistent, Complete
<1>4. FrameIsEndOfLog
  BY LogAssumption DEF Init, FrameIsEndOfLog
<1> QED
  BY <1>1, <1>3, <1>4 DEF Inv

(* Writing a line takes the slot of the line that is LOG_LINES older.      *)
LEMMA WriteLineStep ==
  ASSUME Inv, NEW t \in Loggers, WriteLine(t)
  PROVE  Inv'
<1>1. writing = {} /\ ~copying
  BY LogAssumption DEF Inv, TypeOK, MutualExclusion, WriteLine, CanLock
<1>2. /\ logged \in Nat /\ logged' = logged + 1 /\ logged < MaxLines
      /\ log_mutex' = t /\ writing' = {t}
      /\ log_buf' = [log_buf EXCEPT ![log_head] = logged + 1]
      /\ UNCHANGED <<log_head, log_count, copying, count, head, frame>>
  BY <1>1 DEF Inv, TypeOK, WriteLine
<1>3. TypeOK'
  BY <1>2, LogAssumption DEF Inv, TypeOK
<1>4. MutualExclusion'
  BY <1>1, <1>2 DEF MutualExclusion
<1>5. Complete = logged /\ Complete' = logged
  BY <1>1, <1>2 DEF Complete
<1>6. RingConsistent'
  <2>1. log_head = logged % LOG_LINES
    BY <1>5 DEF Inv, RingConsistent
  <2>2. ASSUME NEW n \in 1 .. logged + 1, n > (logged + 1) - LOG_LINES
        PROVE  log_buf'[(n - 1) % LOG_LINES] = n
    <3>1. CASE n = logged + 1
      <4>1. n - 1 = logged
        BY <1>2, <3>1
      <4> QED
        BY <1>2, <2>1, <3>1, <4>1 DEF Inv, TypeOK
    <3>2. CASE n < logged + 1
      <4>1. n \in 1 .. logged /\ n > logged - LOG_LINES
        BY <1>2, <2>2, <3>2, LogAssumption
      <4>2. n - 1 \in Nat /\ n - 1 < logged /\ logged < (n - 1) + LOG_LINES
        BY <1>2, <2>2, <3>2, LogAssumption
      <4>3. (n - 1) % LOG_LINES # log_head
        BY <1>2, <2>1, <4>2, DifferentSlots
      <4>4. log_buf[(n - 1) % LOG_LINES] = n
        BY <4>1 DEF Inv, RingConsistent
      <4>5. (n - 1) % LOG_LINES \in Slots
        BY <4>2, Divide
      <4> QED
        BY <1>2, <4>3, <4>4, <4>5 DEF Inv, TypeOK
    <3> QED
      BY <1>2, <3>1, <3>2
  <2> QED
    BY <1>2, <1>5, <2>2 DEF Inv, RingConsistent
<1>7. FrameIsEndOfLog'
  BY <1>2 DEF Inv, FrameIsEndOfLog
<1> QED
  BY <1>3, <1>4, <1>6, <1>7 DEF Inv

LEMMA MoveIndicesStep ==
  ASSUME Inv, NEW t \in Loggers, MoveIndices(t)
  PROVE  Inv'
<1>1. writing = {t} /\ ~copying
  BY LogAssumption DEF Inv, TypeOK, MutualExclusion, MoveIndices
<1>2. /\ log_head' = (log_head + 1) % LOG_LINES /\ log_count' = CountAfter
      /\ log_mutex' = Nobody /\ writing' = {}
      /\ UNCHANGED <<log_buf, copying, count, head, frame, logged>>
  BY <1>1 DEF MoveIndices
<1>3. /\ Complete \in Nat /\ Complete' = Complete + 1 /\ Complete = logged - 1
      /\ logged \in Nat /\ log_count \in Nat
  BY <1>1, <1>2 DEF Complete, Inv, TypeOK, RingConsistent
<1>4. log_head' = (Complete + 1) % LOG_LINES
  BY <1>2, <1>3, NextSlot DEF Inv, RingConsistent
<1>5. log_head' \in Slots
  <2>1. Complete + 1 \in Nat
    BY <1>3
  <2> QED
    BY <1>4, <2>1, Divide
<1>6. TypeOK'
  BY <1>2, <1>5, LogAssumption DEF Inv, TypeOK, CountAfter
<1>7. MutualExclusion'
  BY <1>1, <1>2 DEF MutualExclusion
<1>8. RingConsistent'
  <2>1. log_count' = IF Complete + 1 < LOG_LINES THEN Complete + 1 ELSE LOG_LINES
    BY <1>2, <1>3, LogAssumption DEF Inv, RingConsistent, CountAfter
  <2>2. Complete' \in Nat
    BY <1>3
  <2> QED
    BY <1>2, <1>3, <1>4, <2>1, <2>2 DEF Inv, RingConsistent
<1>9. FrameIsEndOfLog'
  BY <1>2 DEF Inv, FrameIsEndOfLog
<1> QED
  BY <1>6, <1>7, <1>8, <1>9 DEF Inv

LEMMA CopyIndicesStep ==
  ASSUME Inv, CopyIndices
  PROVE  Inv'
<1>1. writing = {}
  BY LogAssumption DEF Inv, TypeOK, MutualExclusion, CopyIndices, CanLock
<1>2. TypeOK'
  BY DEF Inv, TypeOK, CopyIndices, log
<1>3. MutualExclusion'
  BY <1>1 DEF MutualExclusion, CopyIndices, log
<1>4. RingConsistent' /\ FrameIsEndOfLog'
  BY DEF Inv, RingConsistent, Complete, FrameIsEndOfLog, CopyIndices, log
<1> QED
  BY <1>2, <1>3, <1>4 DEF Inv

(* Under the mutex the copied indices fit the copied buffer.               *)
LEMMA CopyLinesStep ==
  ASSUME Inv, CopyLines
  PROVE  Inv'
<1>1. /\ copying /\ writing = {}
      /\ UNCHANGED <<log_buf, log_head, log_count, writing, count, head, logged>>
      /\ log_mutex' = Nobody /\ copying' = FALSE
      /\ frame' = [k \in 1 .. count |-> log_buf[(Start + k - 1) % LOG_LINES]]
  BY LogAssumption DEF Inv, TypeOK, MutualExclusion, CopyLines, log
<1>2. TypeOK' /\ MutualExclusion'
  BY <1>1 DEF Inv, TypeOK, MutualExclusion
<1>3. RingConsistent'
  BY <1>1 DEF Inv, RingConsistent, Complete
<1>4. /\ logged \in Nat /\ head = logged % LOG_LINES
      /\ count = IF logged < LOG_LINES THEN logged ELSE LOG_LINES
      /\ \A n \in 1 .. logged : n > logged - LOG_LINES => log_buf[(n - 1) % LOG_LINES] = n
  BY <1>1 DEF Inv, TypeOK, MutualExclusion, RingConsistent, Complete
<1>5. CASE logged < LOG_LINES
  <2>1. count = logged /\ Start = 0
    BY <1>4, <1>5, LogAssumption DEF Start
  <2>2. ASSUME NEW k \in 1 .. logged
        PROVE  log_buf[(Start + k - 1) % LOG_LINES] = k
    <3>1. Start + k - 1 = k - 1 /\ k > logged - LOG_LINES
      BY <1>4, <1>5, <2>1, LogAssumption
    <3> QED
      BY <1>4, <3>1
  <2>3. frame' = [k \in 1 .. logged |-> k]
    BY <1>1, <2>1, <2>2
  <2>4. FrameIsEndOfLog'
    <3>1. logged \in 0 .. logged'
      BY <1>1, <1>4
    <3>2. frame' = [k \in 1 .. (IF logged < LOG_LINES THEN logged ELSE LOG_LINES) |->
                      IF logged < LOG_LINES THEN k ELSE logged - LOG_LINES + k]
      BY <1>5, <2>3
    <3> QED
      BY <3>1, <3>2 DEF FrameIsEndOfLog
  <2> QED
    BY <1>2, <1>3, <2>4 DEF Inv
<1>6. CASE logged >= LOG_LINES
  <2>1. count = LOG_LINES /\ Start = head
    BY <1>4, <1>6, LogAssumption DEF Start
  <2>2. ASSUME NEW k \in 1 .. LOG_LINES
        PROVE  log_buf[(Start + k - 1) % LOG_LINES] = logged - LOG_LINES + k
    <3> DEFINE n == logged - LOG_LINES + k
    <3>1. n \in 1 .. logged /\ n > logged - LOG_LINES /\ n - 1 \in Nat
      BY <1>4, <1>6, LogAssumption
    <3>2. k - 1 \in Slots /\ logged + (k - 1) = (n - 1) + LOG_LINES
      BY <1>4, LogAssumption DEF Slots
    <3> HIDE DEF n
    <3>3. (head + (k - 1)) % LOG_LINES = (logged + (k - 1)) % LOG_LINES
      BY <1>4, <3>2, SlotsOn
    <3>4. ((n - 1) + LOG_LINES) % LOG_LINES = (n - 1) % LOG_LINES
      BY <3>1, WholeTurn
    <3>5. Start + k - 1 = head + (k - 1)
      BY <2>1, LogAssumption DEF Inv, TypeOK, Slots
    <3>6. log_buf[(n - 1) % LOG_LINES] = n
      BY <1>4, <3>1
    <3> QED
      BY <3>2, <3>3, <3>4, <3>5, <3>6 DEF n
  <2>3. frame' = [k \in 1 .. LOG_LINES |-> logged - LOG_LINES + k]
    BY <1>1, <2>1, <2>2
  <2>4. FrameIsEndOfLog'
    <3>1. logged \in 0 .. logged' /\ ~(logged < LOG_LINES)
      BY <1>1, <1>4, <1>6, LogAssumption
    <3> QED
      BY <2>3, <3>1 DEF FrameIsEndOfLog
  <2> QED
    BY <1>2, <1>3, <2>4 DEF Inv
<1> QED
  BY <1>4, <1>5, <1>6, LogAssumption

(* The screen shows the end of the log as it was at one moment, whatever   *)
(* the threads that log do meanwhile and however often the ring wraps.     *)
THEOREM ScreenIsFaithful == Spec => []Inv
<1>1. Inv /\ [Next]_vars => Inv'
  <2> SUFFICES ASSUME Inv, [Next]_vars PROVE Inv'
    OBVIOUS
  <2>1. ASSUME NEW t \in Loggers, WriteLine(t) \/ MoveIndices(t) PROVE Inv'
    BY <2>1, WriteLineStep, MoveIndicesStep
  <2>2. CASE UNCHANGED vars
    <3>1. TypeOK' /\ MutualExclusion'
      BY <2>2 DEF vars, log, Inv, TypeOK, MutualExclusion
    <3>2. RingConsistent' /\ FrameIsEndOfLog'
      BY <2>2 DEF vars, log, Inv, RingConsistent, Complete, FrameIsEndOfLog
    <3> QED
      BY <3>1, <3>2 DEF Inv
  <2> QED
    BY <2>1, <2>2, CopyIndicesStep, CopyLinesStep DEF Next
<1> QED
  BY <1>1, InitInv, PTL DEF Spec

-----------------------------------------------------------------------------
(* Every step of the handlers and of the dashboard is one of the log's, or *)
(* leaves the log alone.                                                   *)
LEMMA LogStep == [MessagesNext]_allvars => [Next]_vars
<1> SUFFICES ASSUME [MessagesNext]_allvars PROVE [Next]_vars
  OBVIOUS
<1>1. ASSUME NEW k \in Kinds, ReceiveMessage(k) PROVE UNCHANGED vars
  BY <1>1 DEF ReceiveMessage
<1>2. CASE SetLifetime \/ SetBest \/ ServiceEnds
  BY <1>2 DEF SetLifetime, SetBest, ServiceEnds
<1>3. CASE ServiceLogs \/ ServiceLogged
  BY <1>3, MessagesAssumption DEF ServiceLogs, ServiceLogged, Next
<1>4. ASSUME NEW t \in Loggers \ {Service}, OthersLog(t) PROVE Next
  BY <1>4 DEF OthersLog, Next
<1>5. CASE DashboardLoop \/ CopyStats \/ PrintScreen
  BY <1>5 DEF DashboardLoop, CopyStats, PrintScreen
<1>6. CASE CopyLog
  BY <1>6 DEF CopyLog, Next
<1>7. CASE UNCHANGED allvars
  BY <1>7 DEF allvars
<1> QED
  BY <1>1, <1>2, <1>3, <1>4, <1>5, <1>6, <1>7 DEF MessagesNext

(* The log beside the messages is the log of Dashboard, step by step: what *)
(* is proved of it there holds here.                                       *)
THEOREM MessagesUseTheLog == MessagesSpec => Spec
<1>1. MessagesInit => Init
  BY DEF MessagesInit
<1> QED
  BY <1>1, LogStep, PTL DEF MessagesSpec, Spec

THEOREM LogStaysFaithful == MessagesSpec => []Inv
BY MessagesUseTheLog, ScreenIsFaithful, PTL

-----------------------------------------------------------------------------
(* The inductive invariant.                                                *)

MessagesTypeOK ==
  /\ received \in Nat /\ kind \in Kinds
  /\ global_stats \in Figures /\ s \in Figures /\ shown.stats \in Figures
  /\ about \in Seq(Nat) /\ Len(about) = logged

(* stats_mutex is held just while an update is half done.                  *)
StatsLocked == stats_mutex = IF spc = "best" THEN Service ELSE Nobody

(* The figures are whole unless an update is half done.  A welcome finds   *)
(* no rate; a message that is about to be logged has set its figures.      *)
FiguresWhole ==
  /\ global_stats.lifetime_shuffles <= received /\ global_stats.rate <= received
  /\ spc # "best" => Whole(global_stats)
  /\ spc \in {"account", "figures", "best"} =>
       kind = "credited" \/ (kind = "welcome" /\ global_stats.rate = 0)
  /\ spc = "best" \/ (spc = "log" /\ kind \in {"welcome", "credited"}) =>
       global_stats.lifetime_shuffles = received

(* Lines follow their figures: into the log, into the copies and onto the  *)
(* screen.                                                                 *)
LinesFollow ==
  /\ \A n \in 1 .. logged : about[n] <= global_stats.lifetime_shuffles
  /\ dpc = "print" =>
       \A k \in DOMAIN frame : about[frame[k]] <= s.lifetime_shuffles
  /\ \A k \in DOMAIN shown.lines :
       /\ shown.lines[k] \in 1 .. logged
       /\ about[shown.lines[k]] <= shown.stats.lifetime_shuffles

MessagesInv ==
  /\ MessagesTypeOK /\ StatsLocked /\ FiguresWhole /\ LinesFollow
  /\ Whole(s) /\ Whole(shown.stats)

(* What was copied are lines of the log.                                   *)
LEMMA FrameIsLines ==
  ASSUME Inv PROVE \A k \in DOMAIN frame : frame[k] \in 1 .. logged
<1>1. PICK upto \in 0 .. logged :
        frame = [k \in 1 .. (IF upto < LOG_LINES THEN upto ELSE LOG_LINES) |->
                   IF upto < LOG_LINES THEN k ELSE upto - LOG_LINES + k]
  BY DEF Inv, FrameIsEndOfLog
<1>2. logged \in Nat
  BY DEF Inv, TypeOK
<1>3. CASE upto < LOG_LINES
  <2>1. frame = [k \in 1 .. upto |-> k]
    BY <1>1, <1>3
  <2> QED
    BY <1>2, <2>1
<1>4. CASE ~(upto < LOG_LINES)
  <2>1. frame = [k \in 1 .. LOG_LINES |-> upto - LOG_LINES + k]
    BY <1>1, <1>4
  <2> QED
    BY <1>2, <1>4, <2>1, LogAssumption
<1> QED
  BY <1>3, <1>4

LEMMA MessagesInitInv == MessagesInit => MessagesInv
<1> SUFFICES ASSUME MessagesInit PROVE MessagesInv
  OBVIOUS
<1>1. NoFigures \in Figures /\ Whole(NoFigures)
  BY DEF NoFigures, Figures, Whole
<1>2. about \in Seq(Nat) /\ Len(about) = 0 /\ logged = 0
  BY DEF MessagesInit, Init
<1>3. shown.stats = NoFigures /\ DOMAIN shown.lines = {}
  BY DEF MessagesInit
<1>4. MessagesTypeOK
  BY <1>1, <1>2, <1>3 DEF MessagesInit, MessagesTypeOK, Kinds
<1>5. StatsLocked /\ FiguresWhole
  BY <1>1 DEF MessagesInit, StatsLocked, FiguresWhole, NoFigures
<1>6. LinesFollow
  BY <1>2, <1>3 DEF MessagesInit, LinesFollow
<1> QED
  BY <1>1, <1>3, <1>4, <1>5, <1>6 DEF MessagesInv, MessagesInit

(* Steps that add no line and change no figure, copy or screen.            *)
LEMMA StillStep ==
  ASSUME MessagesInv,
         UNCHANGED <<stats_mutex, global_stats, received, kind, spc, s, shown, about>>,
         logged' = logged, dpc' = "print" => dpc = "print" /\ frame' = frame
  PROVE  MessagesInv'
<1>1. MessagesTypeOK' /\ StatsLocked' /\ FiguresWhole'
  BY DEF MessagesInv, MessagesTypeOK, StatsLocked, FiguresWhole, Whole
<1>2. LinesFollow'
  BY DEF MessagesInv, LinesFollow
<1> QED
  BY <1>1, <1>2 DEF MessagesInv, Whole

LEMMA ReceiveMessageStep ==
  ASSUME MessagesInv, NEW k \in Kinds, ReceiveMessage(k)
  PROVE  MessagesInv'
<1>1. /\ received' = received + 1 /\ kind' = k /\ spc = "idle"
      /\ UNCHANGED <<frame, logged, stats_mutex, global_stats, dpc, s, shown, about>>
      /\ spc' \in {"account", "figures", "log", "idle"}
      /\ spc' \in {"account", "figures"} => k \in {"welcome", "credited"}
      /\ spc' = "log" => k \in {"logged", "last"}
  BY DEF ReceiveMessage, vars, Kinds
<1>2. MessagesTypeOK' /\ StatsLocked'
  BY <1>1 DEF MessagesInv, MessagesTypeOK, StatsLocked
<1>3. FiguresWhole'
  <2>1. /\ global_stats.lifetime_shuffles \in Nat /\ global_stats.rate \in Nat
        /\ received \in Nat
    BY DEF MessagesInv, MessagesTypeOK, Figures
  <2>2. k = "welcome" => global_stats.rate = 0
    BY <2>1 DEF ReceiveMessage, MessagesInv, FiguresWhole
  <2> QED
    BY <1>1, <2>1, <2>2 DEF MessagesInv, FiguresWhole, Whole
<1>4. LinesFollow'
  BY <1>1 DEF MessagesInv, LinesFollow
<1> QED
  BY <1>1, <1>2, <1>3, <1>4 DEF MessagesInv, Whole

(* While a figure is set, no line tells of it yet.                         *)
LEMMA SetLifetimeStep ==
  ASSUME MessagesInv, SetLifetime
  PROVE  MessagesInv'
<1>1. /\ global_stats' = [global_stats EXCEPT !.lifetime_shuffles = received]
      /\ spc = "figures" /\ spc' = "best" /\ stats_mutex' = Service
      /\ UNCHANGED <<frame, logged, received, kind, dpc, s, shown, about>>
  BY DEF SetLifetime, vars
<1>2. /\ global_stats \in Figures /\ received \in Nat
      /\ global_stats'.lifetime_shuffles = received
      /\ global_stats'.rate = global_stats.rate /\ global_stats' \in Figures
      /\ global_stats.lifetime_shuffles <= received
  BY <1>1 DEF MessagesInv, MessagesTypeOK, FiguresWhole, Figures
<1>3. MessagesTypeOK' /\ StatsLocked'
  BY <1>1, <1>2 DEF MessagesInv, MessagesTypeOK, StatsLocked
<1>4. FiguresWhole'
  BY <1>1, <1>2 DEF MessagesInv, FiguresWhole
<1>5. \A n \in 1 .. logged : about[n] <= global_stats'.lifetime_shuffles
  <2> SUFFICES ASSUME NEW n \in 1 .. logged
               PROVE  about[n] <= global_stats'.lifetime_shuffles
    OBVIOUS
  <2>1. about[n] <= global_stats.lifetime_shuffles
    BY DEF MessagesInv, LinesFollow
  <2>2. about[n] \in Nat /\ global_stats.lifetime_shuffles \in Nat
    BY <1>2, ElementOfSeq DEF MessagesInv, MessagesTypeOK, Figures
  <2> QED
    BY <1>2, <2>1, <2>2
<1>6. LinesFollow'
  BY <1>1, <1>5 DEF MessagesInv, LinesFollow
<1> QED
  BY <1>1, <1>3, <1>4, <1>6 DEF MessagesInv, Whole

LEMMA SetBestStep ==
  ASSUME MessagesInv, SetBest
  PROVE  MessagesInv'
<1>1. /\ global_stats' = [global_stats EXCEPT
                            !.all_time_best = received,
                            !.rate = IF kind = "credited" THEN received ELSE @]
      /\ spc = "best" /\ spc' = "log" /\ stats_mutex' = Nobody
      /\ UNCHANGED <<frame, logged, received, kind, dpc, s, shown, about>>
  BY DEF SetBest, vars
<1>2. /\ global_stats \in Figures /\ received \in Nat
      /\ kind = "credited" \/ (kind = "welcome" /\ global_stats.rate = 0)
      /\ global_stats.lifetime_shuffles = received
  BY <1>1 DEF MessagesInv, MessagesTypeOK, FiguresWhole
<1>3. /\ global_stats'.lifetime_shuffles = received
      /\ global_stats'.all_time_best = received
      /\ global_stats'.rate \in {0, received} /\ global_stats' \in Figures
  BY <1>1, <1>2 DEF Figures
<1>4. MessagesTypeOK' /\ StatsLocked'
  BY <1>1, <1>3 DEF MessagesInv, MessagesTypeOK, StatsLocked
<1>5. FiguresWhole'
  BY <1>1, <1>2, <1>3 DEF FiguresWhole, Whole
<1>6. LinesFollow'
  BY <1>1, <1>2, <1>3 DEF MessagesInv, LinesFollow
<1> QED
  BY <1>1, <1>4, <1>5, <1>6 DEF MessagesInv, Whole

(* A line that tells of nothing, or of figures that are in place.          *)
LEMMA LineStep ==
  ASSUME MessagesInv, Inv, NEW m \in Nat, m <= global_stats.lifetime_shuffles,
         about' = Append(about, m), logged' = logged + 1,
         UNCHANGED <<stats_mutex, global_stats, received, kind, spc, dpc, s, shown, frame>>
  PROVE  MessagesInv'
<1>1. /\ about \in Seq(Nat) /\ Len(about) = logged /\ logged \in Nat
      /\ about' \in Seq(Nat) /\ Len(about') = logged + 1
      /\ \A n \in 1 .. logged : about'[n] = about[n]
      /\ about'[logged + 1] = m
  BY AppendProperties, LenProperties DEF MessagesInv, MessagesTypeOK
<1>2. MessagesTypeOK' /\ StatsLocked' /\ FiguresWhole'
  BY <1>1 DEF MessagesInv, MessagesTypeOK, StatsLocked, FiguresWhole, Whole
<1>3. LinesFollow'
  <2>1. ASSUME NEW n \in 1 .. logged + 1
        PROVE  about'[n] <= global_stats.lifetime_shuffles
    <3>1. n \in 1 .. logged \/ n = logged + 1
      BY <1>1
    <3> QED
      BY <1>1, <3>1 DEF MessagesInv, LinesFollow
  <2>2. \A k \in DOMAIN frame : about'[frame[k]] = about[frame[k]]
    BY <1>1, FrameIsLines
  <2>3. \A k \in DOMAIN shown.lines :
          /\ shown.lines[k] \in 1 .. logged + 1
          /\ about'[shown.lines[k]] = about[shown.lines[k]]
    BY <1>1 DEF MessagesInv, LinesFollow
  <2> QED
    BY <2>1, <2>2, <2>3 DEF MessagesInv, LinesFollow
<1> QED
  BY <1>2, <1>3 DEF MessagesInv, Whole

LEMMA ServiceLogsStep ==
  ASSUME MessagesInv, Inv, ServiceLogs
  PROVE  MessagesInv'
<1>1. Telling \in Nat /\ Telling <= global_stats.lifetime_shuffles
  BY DEF Telling, MessagesInv, MessagesTypeOK, FiguresWhole, Figures
<1>2. /\ about' = Append(about, Telling) /\ logged' = logged + 1
      /\ UNCHANGED <<stats_mutex, global_stats, received, kind, spc, dpc, s, shown, frame>>
  BY DEF ServiceLogs, WriteLine
<1> HIDE DEF Telling
<1> QED
  BY <1>1, <1>2, LineStep

LEMMA ServiceLoggedStep ==
  ASSUME MessagesInv, ServiceLogged
  PROVE  MessagesInv'
<1>1. /\ UNCHANGED <<stats_mutex, global_stats, received, kind, dpc, s, shown, about,
                     frame, logged>>
      /\ spc' \in {"figures", "shutdown", "idle"}
      /\ spc' = "figures" => spc = "account"
  BY DEF ServiceLogged, MoveIndices
<1>2. spc # "best"
  BY DEF ServiceLogged
<1>3. MessagesTypeOK' /\ StatsLocked' /\ FiguresWhole'
  BY <1>1, <1>2 DEF MessagesInv, MessagesTypeOK, StatsLocked, FiguresWhole, Whole
<1>4. LinesFollow'
  BY <1>1 DEF MessagesInv, LinesFollow
<1> QED
  BY <1>1, <1>3, <1>4 DEF MessagesInv, Whole

LEMMA ServiceEndsStep ==
  ASSUME MessagesInv, ServiceEnds
  PROVE  MessagesInv'
<1>1. /\ UNCHANGED <<stats_mutex, global_stats, received, kind, dpc, s, shown, about,
                     frame, logged>>
      /\ spc = "shutdown" /\ spc' = "idle"
  BY DEF ServiceEnds, vars
<1>2. MessagesTypeOK' /\ StatsLocked' /\ FiguresWhole' /\ LinesFollow'
  BY <1>1 DEF MessagesInv, MessagesTypeOK, StatsLocked, FiguresWhole, Whole, LinesFollow
<1> QED
  BY <1>1, <1>2 DEF MessagesInv, Whole

(* The lines were copied before: the figures that come now are newer.      *)
LEMMA CopyStatsStep ==
  ASSUME MessagesInv, Inv, CopyStats
  PROVE  MessagesInv'
<1>1. /\ s' = global_stats /\ stats_mutex = Nobody
      /\ UNCHANGED <<stats_mutex, global_stats, received, kind, spc, shown, about,
                     frame, logged>>
  BY DEF CopyStats, CanLockStats, vars
<1>2. Whole(global_stats)
  BY <1>1, MessagesAssumption, LogAssumption
  DEF MessagesInv, StatsLocked, FiguresWhole
<1>3. MessagesTypeOK' /\ StatsLocked' /\ FiguresWhole'
  BY <1>1 DEF MessagesInv, MessagesTypeOK, StatsLocked, FiguresWhole, Whole
<1>4. LinesFollow'
  BY <1>1, FrameIsLines DEF MessagesInv, LinesFollow
<1> QED
  BY <1>1, <1>2, <1>3, <1>4 DEF MessagesInv, Whole

LEMMA PrintScreenStep ==
  ASSUME MessagesInv, Inv, PrintScreen
  PROVE  MessagesInv'
<1>1. /\ shown' = [lines |-> frame, stats |-> s] /\ dpc = "print" /\ dpc' = "loop"
      /\ UNCHANGED <<stats_mutex, global_stats, received, kind, spc, s, about,
                     frame, logged>>
  BY DEF PrintScreen, vars
<1>2. shown'.lines = frame /\ shown'.stats = s
  BY <1>1
<1>3. MessagesTypeOK' /\ StatsLocked' /\ FiguresWhole'
  BY <1>1, <1>2 DEF MessagesInv, MessagesTypeOK, StatsLocked, FiguresWhole, Whole
<1>4. LinesFollow'
  BY <1>1, <1>2, FrameIsLines DEF MessagesInv, LinesFollow
<1> QED
  BY <1>1, <1>2, <1>3, <1>4 DEF MessagesInv, Whole

LEMMA MessagesInvStep == MessagesInv /\ Inv /\ [MessagesNext]_allvars => MessagesInv'
<1> SUFFICES ASSUME MessagesInv, Inv, [MessagesNext]_allvars PROVE MessagesInv'
  OBVIOUS
<1>1. ASSUME NEW k \in Kinds, ReceiveMessage(k) PROVE MessagesInv'
  BY <1>1, ReceiveMessageStep
<1>2. CASE SetLifetime \/ SetBest
  BY <1>2, SetLifetimeStep, SetBestStep
<1>3. CASE ServiceLogs \/ ServiceLogged \/ ServiceEnds
  BY <1>3, ServiceLogsStep, ServiceLoggedStep, ServiceEndsStep
<1>4. ASSUME NEW t \in Loggers \ {Service}, OthersLog(t) PROVE MessagesInv'
  <2>1. CASE WriteLine(t) /\ about' = Append(about, 0)
    <3>1. 0 \in Nat /\ 0 <= global_stats.lifetime_shuffles
      BY DEF MessagesInv, MessagesTypeOK, Figures
    <3>2. /\ logged' = logged + 1
          /\ UNCHANGED <<stats_mutex, global_stats, received, kind, spc, dpc, s, shown, frame>>
      BY <1>4, <2>1 DEF OthersLog, WriteLine
    <3> QED
      BY <2>1, <3>1, <3>2, LineStep
  <2>2. CASE MoveIndices(t) /\ UNCHANGED about
    BY <1>4, <2>2, StillStep DEF OthersLog, MoveIndices
  <2> QED
    BY <1>4, <2>1, <2>2 DEF OthersLog
<1>5. CASE DashboardLoop
  BY <1>5, StillStep DEF DashboardLoop, vars
<1>6. CASE CopyLog
  BY <1>6, StillStep DEF CopyLog, CopyIndices, CopyLines, log
<1>7. CASE CopyStats \/ PrintScreen
  BY <1>7, CopyStatsStep, PrintScreenStep
<1>8. CASE UNCHANGED allvars
  BY <1>8, StillStep DEF allvars, vars, messages
<1> QED
  BY <1>1, <1>2, <1>3, <1>4, <1>5, <1>6, <1>7, <1>8 DEF MessagesNext

(* No screen contradicts itself: its figures are those of one message, and *)
(* at least as new as every line above them.                               *)
THEOREM ScreenNeverContradictsItself == MessagesSpec => []ScreenAgrees
<1>1. MessagesInv => ScreenAgrees
  BY DEF MessagesInv, LinesFollow, ScreenAgrees
<1> QED
  BY <1>1, LogStaysFaithful, MessagesInitInv, MessagesInvStep, PTL DEF MessagesSpec
=============================================================================
