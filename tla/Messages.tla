------------------------------ MODULE Messages ------------------------------
(***************************************************************************)
(* parse_message of src/server.c and what the user sees of it: the service *)
(* thread handles the coordinator's messages one at a time, puts account   *)
(* figures into global_stats under stats_mutex, and logs; the dashboard    *)
(* thread copies the log, then the figures, and prints both.               *)
(*                                                                         *)
(* Messages are numbered as they arrive.  A figure is the number of the    *)
(* message it came from (0 at first), and about[n] is the number of the    *)
(* message whose figures were in place when line n was made to tell of it. *)
(* What a job or the end of a session sets off is in Lease and Transport.  *)
(***************************************************************************)
EXTENDS Dashboard

CONSTANTS
  Service,      \* the thread that runs server_lws_thread
  MaxMessages   \* bound: how many messages arrive

ASSUME MessagesAssumption == Service \in Loggers /\ MaxMessages \in Nat

VARIABLES
  running,
  stats_mutex, global_stats,
  received, kind,   \* how many messages came; what the last one was
  spc,              \* where the service thread is in parse_message
  dpc, s,           \* where the dashboard thread is; its copy of the figures
  shown,            \* the screen: lines and figures
  about             \* auxiliary, a message number or 0 for each line

messages ==
  <<running, stats_mutex, global_stats, received, kind, spc, dpc, s, shown, about>>
allvars == <<vars, messages>>

Figures == [lifetime_shuffles : Nat, all_time_best : Nat, rate : Nat]
NoFigures == [lifetime_shuffles |-> 0, all_time_best |-> 0, rate |-> 0]

(* What arrives, by what parse_message does with it: welcome and credited  *)
(* carry figures; job, rejected, a message without or with an unknown type *)
(* and text that is no JSON are logged; banned, contributions_closed,      *)
(* client_outdated and the end of the connection are logged and end the    *)
(* session; ping and stats_tick are passed over.                           *)
Kinds == {"welcome", "credited", "logged", "last", "silent"}

MessagesInit ==
  /\ Init
  /\ running = TRUE
  /\ stats_mutex = Nobody /\ global_stats = NoFigures
  /\ received = 0 /\ kind = "silent"
  /\ spc = "idle" /\ dpc = "loop" /\ s = NoFigures
  /\ shown = [lines |-> <<>>, stats |-> NoFigures]
  /\ about = <<>>

(* A faulty variant: the mutex left out.                                   *)
StatsUnlocked == TRUE

CanLockStats == stats_mutex = Nobody

-----------------------------------------------------------------------------
(* The service thread.                                                     *)

(* The coordinator credits no client that it has not welcomed.  A welcome  *)
(* for a uuid that is not the stored one logs it before all else.          *)
ReceiveMessage(k) ==
  /\ spc = "idle" /\ received < MaxMessages
  /\ k = "welcome" => received = 0
  /\ k = "credited" => global_stats.lifetime_shuffles > 0
  /\ received' = received + 1 /\ kind' = k
  /\ spc' \in CASE k = "welcome" -> {"account", "figures"}
                [] k = "credited" -> {"figures"}
                [] k \in {"logged", "last"} -> {"log"}
                [] OTHER -> {"idle"}
  /\ UNCHANGED <<vars, running, stats_mutex, global_stats, dpc, s, shown, about>>

SetLifetime ==
  /\ spc = "figures" /\ CanLockStats
  /\ stats_mutex' = Service
  /\ global_stats' = [global_stats EXCEPT !.lifetime_shuffles = received]
  /\ spc' = "best"
  /\ UNCHANGED <<vars, running, received, kind, dpc, s, shown, about>>

(* Only credited carries a rate.                                           *)
SetBest ==
  /\ spc = "best"
  /\ global_stats' = [global_stats EXCEPT
                        !.all_time_best = received,
                        !.rate = IF kind = "credited" THEN received ELSE @]
  /\ stats_mutex' = Nobody
  /\ spc' = "log"
  /\ UNCHANGED <<vars, running, received, kind, dpc, s, shown, about>>

Telling == IF kind \in {"welcome", "credited"} /\ spc = "log" THEN received ELSE 0

ServiceLogs ==
  /\ spc \in {"account", "log"}
  /\ WriteLine(Service)
  /\ about' = Append(about, Telling)
  /\ UNCHANGED <<running, stats_mutex, global_stats, received, kind, spc, dpc, s, shown>>

ServiceLogged ==
  /\ spc \in {"account", "log"}
  /\ MoveIndices(Service)
  /\ spc' = CASE spc = "account" -> "figures"
              [] spc = "log" /\ kind = "last" -> "shutdown"
              [] OTHER -> "idle"
  /\ UNCHANGED <<running, stats_mutex, global_stats, received, kind, dpc, s, shown, about>>

(* client_shutdown.                                                        *)
ServiceEnds ==
  /\ spc = "shutdown"
  /\ running' = FALSE
  /\ spc' = "idle"
  /\ UNCHANGED <<vars, stats_mutex, global_stats, received, kind, dpc, s, shown, about>>

(* The reporter logs that the send queue is full, the workers' start...    *)
OthersLog(t) ==
  /\ \/ WriteLine(t) /\ about' = Append(about, 0)
     \/ MoveIndices(t) /\ UNCHANGED about
  /\ UNCHANGED <<running, stats_mutex, global_stats, received, kind, spc, dpc, s, shown>>

-----------------------------------------------------------------------------
(* The dashboard thread.                                                   *)

DashboardLoop ==
  /\ dpc = "loop"
  /\ dpc' = IF running THEN "indices" ELSE "exited"
  /\ UNCHANGED <<vars, running, stats_mutex, global_stats, received, kind, spc, s, shown, about>>

CopyLog ==
  /\ \/ dpc = "indices" /\ CopyIndices /\ dpc' = "lines"
     \/ dpc = "lines" /\ CopyLines /\ dpc' = "stats"
  /\ UNCHANGED <<running, stats_mutex, global_stats, received, kind, spc, s, shown, about>>

CopyStats ==
  /\ dpc = "stats" /\ CanLockStats
  /\ s' = global_stats
  /\ dpc' = "print"
  /\ UNCHANGED <<vars, running, stats_mutex, global_stats, received, kind, spc, shown, about>>

PrintScreen ==
  /\ dpc = "print"
  /\ shown' = [lines |-> frame, stats |-> s]
  /\ dpc' = "loop"
  /\ UNCHANGED <<vars, running, stats_mutex, global_stats, received, kind, spc, s, about>>

-----------------------------------------------------------------------------
MessagesNext ==
  \/ \E k \in Kinds : ReceiveMessage(k)
  \/ SetLifetime \/ SetBest \/ ServiceLogs \/ ServiceLogged \/ ServiceEnds
  \/ \E t \in Loggers \ {Service} : OthersLog(t)
  \/ DashboardLoop \/ CopyLog \/ CopyStats \/ PrintScreen

MessagesSpec == MessagesInit /\ [][MessagesNext]_allvars

-----------------------------------------------------------------------------
(* Properties.                                                             *)

(* The two figures are those of one message, and the rate is that of the   *)
(* last credit: no screen shows half an update.                            *)
Whole(figures) ==
  /\ figures.all_time_best = figures.lifetime_shuffles
  /\ figures.rate \in {0, figures.lifetime_shuffles}

(* Log and figures are copied one after the other under two locks, yet no  *)
(* screen contradicts itself: the figures are those of one message, and at *)
(* least as new as every line above them that tells of a welcome or of a   *)
(* credit.                                                                 *)
ScreenAgrees ==
  /\ Whole(shown.stats)
  /\ \A k \in DOMAIN shown.lines :
       about[shown.lines[k]] <= shown.stats.lifetime_shuffles
=============================================================================
