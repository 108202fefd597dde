------------------------------ MODULE MCRequests ------------------------------
(* Requests that interleave: the Worker's at every database statement          *)
(* (Accounts), the sockets and answers of a session that one of them may       *)
(* revoke (AccountHub), and a daemon's on one process name (ProcessManager).   *)
(* They share no variable: the session that a login makes in the one is there  *)
(* from the start in the other. So nothing is lost by letting only one of them *)
(* run in a behaviour.                                                         *)
EXTENDS AccountHub, Accounts, ProcessManager

VARIABLE part

requestsVars == <<part, hubVars, accountVars, procVars>>

RequestsInit ==
  /\ part \in {"hub", "accounts", "processes"}
  /\ HubInit /\ AccountInit /\ ProcInit
  /\ part # "accounts" => users = {}
  /\ part # "processes" => runs = 0

RequestsNext ==
  \/ part = "hub" /\ HubNext /\ UNCHANGED <<part, accountVars, procVars>>
  \/ part = "accounts" /\ AccountNext /\ UNCHANGED <<part, hubVars, procVars>>
  \/ part = "processes" /\ ProcNext /\ UNCHANGED <<part, hubVars, accountVars>>

RequestsSpec == RequestsInit /\ [][RequestsNext]_requestsVars
=============================================================================
