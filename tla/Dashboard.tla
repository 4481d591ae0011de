----------------------------- MODULE Dashboard -----------------------------
(***************************************************************************)
(* The log of src/dashboard.c: any thread writes lines into a ring with    *)
(* dashboard_log, and the dashboard thread copies the ring and prints what *)
(* it copied, oldest line first.  Messages puts it between the service     *)
(* thread, which logs what the coordinator sends, and the screen.          *)
(*                                                                         *)
(* A line is the number of its dashboard_log call, in the order the calls  *)
(* got log_mutex; its text is left out.  Each critical section is two      *)
(* steps: a writer fills the slot and then moves the indices; the reader   *)
(* copies the indices and then the buffer.                                 *)
(***************************************************************************)
EXTENDS Integers, Sequences

CONSTANTS
  LOG_LINES,
  Loggers,      \* the threads that log
  Screen,       \* the dashboard thread
  Nobody,
  MaxLines      \* bound: how many lines are logged

ASSUME LogAssumption ==
  /\ LOG_LINES \in Nat \ {0} /\ MaxLines \in Nat
  /\ Screen \notin Loggers /\ Nobody \notin Loggers \cup {Screen}

VARIABLES
  log_mutex, log_buf, log_head, log_count,
  writing,              \* the loggers between their two steps
  copying, count, head, \* the dashboard thread is; and its local copies
  frame,                \* the lines copied last, as they are printed
  logged                \* auxiliary: how many lines were written

log == <<log_buf, log_head, log_count>>
vars == <<log_mutex, log, writing, copying, count, head, frame, logged>>

Slots == 0 .. LOG_LINES - 1

Init ==
  /\ log_mutex = Nobody
  /\ log_buf = [s \in Slots |-> 0] /\ log_head = 0 /\ log_count = 0
  /\ writing = {}
  /\ copying = FALSE /\ count = 0 /\ head = 0
  /\ frame = <<>> /\ logged = 0

(* Faulty variants, each a slip this code invites.                         *)
MutexIgnored == TRUE
StartAtZero == 0

CanLock == log_mutex = Nobody
CountAfter == IF log_count < LOG_LINES THEN log_count + 1 ELSE log_count
(* Once the ring is full, the oldest line is the one to be written next.   *)
Start == IF count = LOG_LINES THEN head ELSE 0

-----------------------------------------------------------------------------
WriteLine(t) ==
  /\ logged < MaxLines
  /\ CanLock /\ t \notin writing
  /\ log_mutex' = t
  /\ log_buf' = [log_buf EXCEPT ![log_head] = logged + 1]
  /\ logged' = logged + 1
  /\ writing' = writing \cup {t}
  /\ UNCHANGED <<log_head, log_count, copying, count, head, frame>>

MoveIndices(t) ==
  /\ t \in writing
  /\ log_head' = (log_head + 1) % LOG_LINES
  /\ log_count' = CountAfter
  /\ log_mutex' = Nobody
  /\ writing' = writing \ {t}
  /\ UNCHANGED <<log_buf, copying, count, head, frame, logged>>

CopyIndices ==
  /\ CanLock /\ ~copying
  /\ log_mutex' = Screen
  /\ count' = log_count /\ head' = log_head
  /\ copying' = TRUE
  /\ UNCHANGED <<log, writing, frame, logged>>

(* The buffer is copied under the mutex, and printed from Start on.        *)
CopyLines ==
  /\ copying
  /\ log_mutex' = Nobody
  /\ copying' = FALSE
  /\ frame' = [k \in 1 .. count |-> log_buf[(Start + k - 1) % LOG_LINES]]
  /\ UNCHANGED <<log, writing, count, head, logged>>

Next ==
  \/ \E t \in Loggers : WriteLine(t) \/ MoveIndices(t)
  \/ CopyIndices \/ CopyLines

Spec == Init /\ [][Next]_vars

-----------------------------------------------------------------------------
(* Properties.                                                             *)

(* Ring and copies keep their types; no index leaves the ring.             *)
TypeOK ==
  /\ log_mutex \in Loggers \cup {Screen, Nobody}
  /\ log_buf \in [Slots -> Nat] /\ log_head \in Slots /\ log_count \in 0 .. LOG_LINES
  /\ writing \subseteq Loggers /\ copying \in BOOLEAN
  /\ count \in 0 .. LOG_LINES /\ head \in Slots
  /\ logged \in 0 .. MaxLines

(* Writers and reader exclude each other.                                  *)
MutualExclusion ==
  /\ \A t \in writing : log_mutex = t
  /\ copying => log_mutex = Screen /\ count = log_count /\ head = log_head

(* How many lines are complete: in their slot, and counted.                *)
Complete == IF writing = {} THEN logged ELSE logged - 1

(* Line n lies in slot (n - 1) % LOG_LINES until LOG_LINES more are        *)
(* written, and the indices agree with the number of complete lines.       *)
RingConsistent ==
  /\ Complete \in Nat
  /\ log_head = Complete % LOG_LINES
  /\ log_count = IF Complete < LOG_LINES THEN Complete ELSE LOG_LINES
  /\ \A n \in 1 .. logged : n > logged - LOG_LINES => log_buf[(n - 1) % LOG_LINES] = n

(* What is on the screen is the end of the log as it was at one moment:    *)
(* the newest LOG_LINES lines (all, while there are fewer), in the order   *)
(* they were logged, none missing, repeated or half-written.               *)
FrameIsEndOfLog ==
  \E upto \in 0 .. logged :
    frame = [k \in 1 .. (IF upto < LOG_LINES THEN upto ELSE LOG_LINES) |->
               IF upto < LOG_LINES THEN k ELSE upto - LOG_LINES + k]

(* The lock excludes, ring and indices agree, and so every frame, ever, is *)
(* the end of the log; an inductive invariant.                             *)
Inv == TypeOK /\ MutualExclusion /\ RingConsistent /\ FrameIsEndOfLog
=============================================================================
