---------------------------- MODULE AgentManager ----------------------------
(* daemon/internal/agent/manager.go: the map from a thread to its session,    *)
(* over the lives of the daemon. Archiving and deleting the thread stop its    *)
(* session (Kill, Remove), a request makes one, an update of the daemon marks  *)
(* the turn it interrupts, and the daemon that comes back continues it. One    *)
(* thread is modelled: threads share only the map's lock. What a session does  *)
(* with a command is AgentSession; here it has claude or not, in a turn or not.*)
EXTENDS Integers

CONSTANTS
  Request,    \* goroutines, each serving one request for the thread
  MaxSession, \* bound on sessions made in a life of the daemon
  MaxLife     \* bound on daemons started

ASSUME SessionAssumption == MaxSession \in Nat /\ MaxLife \in Nat \ {0}

VARIABLES
  row,       \* the thread's row in the store: whether there is one, and its agent_continue
  entry,     \* m.sessions of the thread, 0 for none
  sess,      \* by number, a session
  made,      \* sessions made in this life
  request,   \* by goroutine, what it does and with which session
  daemon,    \* up, updating (marking, then about to restart), stopping, down
  lives,     \* daemons started
  marking,   \* the session MarkForContinuation has yet to ask, 0 for none
  stopping,  \* the session Shutdown took, 0 for none
  resume,    \* how far ContinueMarked has come, and with which session
  marked,    \* history: turns marked to be continued
  continued  \* history: turns that a session was told to continue

mapVars == <<row, entry, sess, made, request, daemon, lives, marking, stopping, resume, marked, continued>>

SessionId == 1..MaxSession
NoSession == [st |-> "none", asked |-> FALSE, claude |-> FALSE, turn |-> FALSE]
NewSession == [st |-> "runs", asked |-> FALSE, claude |-> FALSE, turn |-> FALSE]
Ended(r) == [st |-> "gone", asked |-> r.asked, claude |-> FALSE, turn |-> FALSE]
Idle == [st |-> "idle", s |-> 0]
NotResuming == [st |-> "no", s |-> 0]

SessionType == [st : {"none", "runs", "gone"}, asked : BOOLEAN, claude : BOOLEAN, turn : BOOLEAN]
RequestType == [st : {"idle", "prompts", "kills", "deletes", "stops", "waits"}, s : 0..MaxSession]
ResumeType == [st : {"no", "lists", "listed", "cleared", "found"}, s : 0..MaxSession]

MapTypeOK ==
  /\ row \in [there : BOOLEAN, mark : BOOLEAN]
  /\ entry \in 0..MaxSession /\ made \in 0..MaxSession
  /\ sess \in [SessionId -> SessionType]
  /\ request \in [Request -> RequestType]
  /\ daemon \in {"up", "updating", "stopping", "down"} /\ lives \in 0..MaxLife
  /\ marking \in 0..MaxSession /\ stopping \in 0..MaxSession
  /\ resume \in ResumeType
  /\ marked \in Nat /\ continued \in Nat

MapInit ==
  /\ row = [there |-> TRUE, mark |-> FALSE]
  /\ entry = 0 /\ made = 0
  /\ sess = [s \in SessionId |-> NoSession]
  /\ request = [q \in Request |-> Idle]
  /\ daemon = "up" /\ lives = 1
  /\ marking = 0 /\ stopping = 0 /\ resume = NotResuming
  /\ marked = 0 /\ continued = 0

Serves == daemon \in {"up", "updating", "stopping"}

-----------------------------------------------------------------------------
(* The map. *)

\* Manager.session, a critical section, returns s: the thread's session, made if it has
\* none. A thread that is not stored has none (0).
Found(s) ==
  \/ entry # 0 /\ s = entry /\ UNCHANGED <<entry, sess, made>>
  \/ /\ entry = 0 /\ row.there /\ made < MaxSession
     /\ s = made + 1
     /\ made' = s /\ entry' = s
     /\ sess' = [sess EXCEPT ![s] = NewSession]
  \/ entry = 0 /\ ~row.there /\ s = 0 /\ UNCHANGED <<entry, sess, made>>

\* A request for the session: a prompt, an attach, a process event.
Prompt(q) ==
  /\ Serves /\ request[q] = Idle
  /\ \E s \in 0..MaxSession :
       /\ Found(s)
       /\ request' = [request EXCEPT ![q] = IF s = 0 THEN Idle ELSE [st |-> "prompts", s |-> s]]
  /\ UNCHANGED <<row, daemon, lives, marking, stopping, resume, marked, continued>>

\* do and the command: the session's goroutine runs it, unless it has exited, also when
\* it has been asked to quit. claude starts if it can, and only for a stored thread.
RunPrompt(q) ==
  /\ request[q].st = "prompts"
  /\ request' = [request EXCEPT ![q] = Idle]
  /\ LET s == request[q].s IN
       \/ sess[s].st = "gone" /\ UNCHANGED sess
       \/ sess[s].st = "runs" /\ UNCHANGED sess  \* an attach, or claude cannot be started
       \/ /\ sess[s].st = "runs" /\ (sess[s].claude \/ row.there)
          /\ sess' = [sess EXCEPT ![s].claude = TRUE, ![s].turn = TRUE]
  /\ UNCHANGED <<row, entry, made, daemon, lives, marking, stopping, resume, marked, continued>>

\* threads.archive sets the row, then stops; KillKind stops threads of an agent that goes.
Archive(q) ==
  /\ Serves /\ request[q] = Idle /\ row.there
  /\ request' = [request EXCEPT ![q] = [st |-> "kills", s |-> 0]]
  /\ UNCHANGED <<row, entry, sess, made, daemon, lives, marking, stopping, resume, marked, continued>>

\* Fault: the session is stopped before the row is gone.
DeleteKillsFirst(q) ==
  \/ /\ Serves /\ request[q] = Idle /\ row.there
     /\ entry' = 0
     /\ sess' = [s \in SessionId |-> IF s = entry THEN [sess[s] EXCEPT !.asked = TRUE] ELSE sess[s]]
     /\ request' = [request EXCEPT ![q] = [st |-> "deletes", s |-> 0]]
     /\ UNCHANGED <<row, made, daemon, lives, marking, stopping, resume, marked, continued>>
  \/ /\ request[q].st = "deletes"
     /\ request' = [request EXCEPT ![q] = Idle]
     /\ row' = [there |-> FALSE, mark |-> FALSE]
     /\ UNCHANGED <<entry, sess, made, daemon, lives, marking, stopping, resume, marked, continued>>

\* deleteThread and deleteProject: the kind's hook has read the thread, the row goes, and
\* what the hook returned (Remove, or Kill) runs after.
Delete(q) ==
  /\ Serves /\ request[q] = Idle /\ row.there
  /\ row' = [there |-> FALSE, mark |-> FALSE]
  /\ request' = [request EXCEPT ![q] = [st |-> "kills", s |-> 0]]
  /\ UNCHANGED <<entry, sess, made, daemon, lives, marking, stopping, resume, marked, continued>>

\* Kill's critical section: the session leaves the map, in this goroutine's hands.
Kill(q) ==
  /\ request[q].st = "kills"
  /\ request' = [request EXCEPT ![q] = IF entry = 0 THEN Idle ELSE [st |-> "stops", s |-> entry]]
  /\ entry' = 0
  /\ UNCHANGED <<row, sess, made, daemon, lives, marking, stopping, resume, marked, continued>>

\* stop closes quit and waits for the session's goroutine to exit.
Stop(q) ==
  \/ /\ request[q].st = "stops"
     /\ request' = [request EXCEPT ![q].st = "waits"]
     /\ sess' = [sess EXCEPT ![request[q].s].asked = TRUE]
     /\ UNCHANGED <<row, entry, made, daemon, lives, marking, stopping, resume, marked, continued>>
  \/ /\ request[q].st = "waits" /\ sess[request[q].s].st = "gone"
     /\ request' = [request EXCEPT ![q] = Idle]
     /\ UNCHANGED <<row, entry, sess, made, daemon, lives, marking, stopping, resume, marked, continued>>

-----------------------------------------------------------------------------
(* A session. *)

SessionStep(s) ==
  /\ daemon # "down" /\ sess[s].st = "runs"
  /\ \/ sess[s].turn /\ sess' = [sess EXCEPT ![s].turn = FALSE]
     \* claude exits, or is stopped because it is idle
     \/ sess[s].claude /\ sess' = [sess EXCEPT ![s].claude = FALSE, ![s].turn = FALSE]
     \* quit: claude is closed and read to its end
     \/ sess[s].asked /\ sess' = [sess EXCEPT ![s] = Ended(sess[s])]
  /\ UNCHANGED <<row, entry, made, request, daemon, lives, marking, stopping, resume, marked, continued>>

-----------------------------------------------------------------------------
(* An update of the daemon. *)

\* applyUpdate has installed the release; MarkForContinuation collects the sessions.
UpdateDaemon ==
  /\ daemon = "up"
  /\ daemon' = "updating" /\ marking' = entry
  /\ UNCHANGED <<row, entry, sess, made, request, lives, stopping, resume, marked, continued>>

\* call: the session's goroutine marks its turn, or has none, cannot, or has exited.
MarkTurn ==
  /\ daemon = "updating" /\ marking # 0
  /\ marking' = 0
  /\ \/ UNCHANGED <<row, marked>>
     \/ /\ sess[marking].st = "runs" /\ sess[marking].turn /\ row.there
        /\ row' = [row EXCEPT !.mark = TRUE] /\ marked' = marked + 1
  /\ UNCHANGED <<entry, sess, made, request, daemon, lives, stopping, resume, continued>>

\* Server.Shutdown, half a second later or on a signal: Manager.Shutdown takes the whole map.
Shutdown ==
  /\ \/ daemon = "up"
     \/ daemon = "updating" /\ marking = 0
  /\ daemon' = "stopping" /\ stopping' = entry /\ entry' = 0
  /\ UNCHANGED <<row, sess, made, request, lives, marking, resume, marked, continued>>

StopTaken ==
  /\ daemon = "stopping" /\ stopping # 0 /\ ~sess[stopping].asked
  /\ sess' = [sess EXCEPT ![stopping].asked = TRUE]
  /\ UNCHANGED <<row, entry, made, request, daemon, lives, marking, stopping, resume, marked, continued>>

\* The process ends: once what Shutdown took has exited, or it crashes. Whatever ran in it
\* is gone, and a claude whose stdin has closed ends: the next life numbers its sessions anew.
DaemonEnds ==
  /\ daemon # "down"
  /\ daemon' = "down" /\ entry' = 0 /\ marking' = 0 /\ stopping' = 0
  /\ made' = 0 /\ sess' = [s \in SessionId |-> NoSession]
  /\ request' = [q \in Request |-> Idle] /\ resume' = NotResuming
  /\ UNCHANGED <<row, lives, marked, continued>>

DaemonStarts ==
  /\ daemon = "down" /\ lives < MaxLife
  /\ daemon' = "up" /\ lives' = lives + 1
  /\ resume' = [st |-> "lists", s |-> 0]
  /\ UNCHANGED <<row, entry, sess, made, request, marking, stopping, marked, continued>>

-----------------------------------------------------------------------------
(* ContinueMarked, on a goroutine of its own as the plugin starts. *)

ListMarked ==
  /\ resume.st = "lists"
  /\ resume' = IF row.there /\ row.mark THEN [st |-> "listed", s |-> 0] ELSE NotResuming
  /\ UNCHANGED <<row, entry, sess, made, request, daemon, lives, marking, stopping, marked, continued>>

\* Fault: the mark is left for the turn that continues to clear.
ClearMarkLater ==
  /\ resume.st = "listed"
  /\ resume' = [st |-> "cleared", s |-> 0]
  /\ UNCHANGED <<row, entry, sess, made, request, daemon, lives, marking, stopping, marked, continued>>

\* A thread whose mark cannot be cleared (it was deleted, or the store fails) is passed over.
ClearMark ==
  /\ resume.st = "listed"
  /\ \/ /\ row.there
        /\ row' = [row EXCEPT !.mark = FALSE]
        /\ resume' = [st |-> "cleared", s |-> 0]
     \/ resume' = NotResuming /\ UNCHANGED row
  /\ UNCHANGED <<entry, sess, made, request, daemon, lives, marking, stopping, marked, continued>>

FindMarked ==
  /\ resume.st = "cleared"
  /\ \E s \in 0..MaxSession :
       Found(s) /\ resume' = IF s = 0 THEN NotResuming ELSE [st |-> "found", s |-> s]
  /\ UNCHANGED <<row, request, daemon, lives, marking, stopping, marked, continued>>

\* do and continueTurn: a session that has exited drops it, one that cannot start claude says so.
Continue ==
  /\ resume.st = "found"
  /\ resume' = NotResuming
  /\ LET s == resume.s IN
       \/ sess[s].st = "gone" /\ UNCHANGED <<sess, continued>>
       \/ sess[s].st = "runs" /\ ~sess[s].claude /\ UNCHANGED <<sess, continued>>
       \/ /\ sess[s].st = "runs" /\ (sess[s].claude \/ row.there)
          /\ sess' = [sess EXCEPT ![s].claude = TRUE, ![s].turn = TRUE]
          /\ continued' = continued + 1
  /\ UNCHANGED <<row, entry, made, request, daemon, lives, marking, stopping, marked>>

-----------------------------------------------------------------------------

MapNext ==
  \/ \E q \in Request : Prompt(q) \/ RunPrompt(q) \/ Archive(q) \/ Delete(q) \/ Kill(q) \/ Stop(q)
  \/ \E s \in SessionId : SessionStep(s)
  \/ UpdateDaemon \/ MarkTurn \/ Shutdown \/ StopTaken \/ DaemonEnds \/ DaemonStarts
  \/ ListMarked \/ ClearMark \/ FindMarked \/ Continue

MapSpec == MapInit /\ [][MapNext]_mapVars

-----------------------------------------------------------------------------

Alive(s) == sess[s].st = "runs"
InHands(q, s) == request[q].st = "stops" /\ request[q].s = s

(* A session that runs is in the map, where it can be found and stopped, or   *)
(* somebody is about to stop it, or it has been asked to quit (Manager.session *)
(* and Kill each hold the lock from the look at the map to its change).        *)
NoneForgotten ==
  \A s \in SessionId : Alive(s) =>
    s = entry \/ sess[s].asked \/ s = stopping \/ \E q \in Request : InHands(q, s)

(* And no two are about to stop it: a quit closed twice brings the daemon down.*)
StoppedOnce ==
  \A s \in SessionId :
    /\ s = entry => ~sess[s].asked /\ s # stopping /\ \A q \in Request : ~InHands(q, s)
    /\ \A q \in Request : InHands(q, s) =>
         ~sess[s].asked /\ s # stopping /\ \A r \in Request \ {q} : ~InHands(r, s)

(* Once the thread's row is gone and whoever deletes it has come to Kill, no   *)
(* request can find or make a session for it (deleteThread's order, and the    *)
(* row read under the map's lock).                                             *)
DeletedIsForgotten ==
  ~row.there /\ (\A q \in Request : request[q].st # "kills") => entry = 0

(* Together: a deleted thread has no session that has not been told to stop,   *)
(* once, or is about to be.                                                    *)
SessionsAreStopped == NoneForgotten /\ StoppedOnce /\ DeletedIsForgotten

(* A turn is continued once for each time an update marked it, whatever the    *)
(* daemon does in between, crashes included: ContinueMarked clears the mark    *)
(* before it acts on it.                                                       *)
ContinuedOnce == continued <= marked
=============================================================================
