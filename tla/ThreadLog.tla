------------------------------ MODULE ThreadLog ------------------------------
(***************************************************************************)
(* What the event log of an agent thread promises its readers (the app's   *)
(* timeline, the assistant) while the thread's session lives: turns are    *)
(* logged one at a time, a permission request is asked within a turn, it   *)
(* is settled exactly once, and no request outlives the turn it was asked  *)
(* in. AgentSession implements it.                                         *)
(***************************************************************************)
CONSTANT Request

VARIABLES
  open,     \* a turn is logged as started and not yet as ended
  request,  \* what the log says of each request
  alive     \* the session has not been closed

logVars == <<open, request, alive>>

LogInit ==
  /\ open = FALSE
  /\ request = [r \in Request |-> "unseen"]
  /\ alive = TRUE

StartTurn ==
  /\ alive /\ ~open
  /\ open' = TRUE
  /\ UNCHANGED <<request, alive>>

(* A request from a claude that is in no turn starts one. *)
Ask(r) ==
  /\ alive /\ request[r] = "unseen"
  /\ request' = [request EXCEPT ![r] = "waiting"]
  /\ open' = TRUE
  /\ UNCHANGED alive

Settle(r) ==
  /\ alive /\ request[r] = "waiting"
  /\ request' = [request EXCEPT ![r] = "settled"]
  /\ UNCHANGED <<open, alive>>

(* The end of a turn settles what still waits in it. *)
FinishTurn ==
  /\ alive /\ open
  /\ open' = FALSE
  /\ request' = [r \in Request |-> IF request[r] = "waiting" THEN "settled" ELSE request[r]]
  /\ UNCHANGED alive

(* A closed session leaves its log as it is. *)
CloseSession ==
  /\ alive
  /\ alive' = FALSE
  /\ UNCHANGED <<open, request>>

LogNext ==
  \/ StartTurn \/ FinishTurn \/ CloseSession
  \/ \E r \in Request : Ask(r) \/ Settle(r)

LogSpec == LogInit /\ [][LogNext]_logVars
=============================================================================
