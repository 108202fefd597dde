--------------------------- MODULE ProcessManager ---------------------------
(* The runs of one process name of one thread (daemon/internal/process). Start *)
(* holds a lock of its own; the map of live runs, each run and the database    *)
(* have theirs, so the goroutines of Start, Stop, Remove, Report, Wait,        *)
(* StopThread and Shutdown, and each run's pump, interleave between them.      *)
EXTENDS Integers, FiniteSets

CONSTANTS
  Caller,    \* goroutines, each making one call
  MaxRun,    \* bound on runs, those loaded from the row included
  Nobody     \* no caller

ASSUME RunAssumption == MaxRun \in Nat \ {0} /\ Nobody \notin Caller

VARIABLES
  prow,      \* the name's row in the database: its id, 0 for none, its status, and the run that wrote it
  live,      \* the manager's map: by id, the run, 0 for none
  run,       \* by number, a run
  runs,      \* runs made
  starting,  \* who holds startMu
  call,      \* by caller, how far its call has come
  shut,      \* the manager's closed
  givenUp,   \* history: runs that a stop did not see the end of, or a Start did not see
  removed    \* history: runs that Remove stopped, once their row is deleted

procVars == <<prow, live, run, runs, starting, call, shut, givenUp, removed>>

Run == 1 .. MaxRun
\* A row's id is the number of the run it was made for.
Id == 0 .. MaxRun
Status == {"none", "running", "exited", "stopped", "failed", "done"}
RowState == [id : Id, tracker : BOOLEAN, status : Status, by : 0 .. MaxRun]
\* pump: how far finish has come. mark: whether the checkpoint has been reached.
RunState == [id : Id, tracker : BOOLEAN, status : Status, stopping : BOOLEAN, mark : BOOLEAN,
             pump : {"none", "reading", "saving", "unlisting", "over"}]
Op == {"none", "start", "replace", "stop", "remove", "report", "done", "wait", "archive", "shutdown"}
CallState ==
  [op : Op, p : 0 .. MaxRun, id : Id, tracker : BOOLEAN, status : Status, until : {"exit", "mark"},
   woken : BOOLEAN, rest : SUBSET Run,
   st : {"new", "found", "stopping", "ending", "unlisting", "saving", "listing", "listed", "spawned",
         "stored", "named", "applied", "deleting", "waiting", "asleep", "finished"}]

NoRow == [id |-> 0, tracker |-> FALSE, status |-> "none", by |-> 0]
NoRun == [id |-> 0, tracker |-> FALSE, status |-> "none", stopping |-> FALSE, mark |-> FALSE,
          pump |-> "none"]
NoCall(st) == [op |-> "none", p |-> 0, id |-> 0, tracker |-> FALSE, status |-> "none", until |-> "exit",
               woken |-> FALSE, rest |-> {}, st |-> st]

\* Nothing yet, or a tracker that a previous daemon left open.
ProcInit ==
  /\ \/ prow = NoRow /\ runs = 0
     \/ prow = [id |-> 1, tracker |-> TRUE, status |-> "running", by |-> 1] /\ runs = 1
  /\ live = [i \in Run |-> 0]
  /\ run = [p \in Run |-> NoRun]
  /\ starting = Nobody
  /\ call = [a \in Caller |-> NoCall("new")]
  /\ shut = FALSE /\ givenUp = {} /\ removed = {}

-----------------------------------------------------------------------------

Running(p) == run[p].status = "running"
At(a, st) == call[a].st = st
GoesTo(a, st) == call' = [call EXCEPT ![a].st = st]
Finishes(a) == call' = [call EXCEPT ![a] = NoCall("finished")]

\* SaveProcess: the name is unique in its thread, so a second id is refused.
SaveRow(p, status) ==
  prow' = IF prow.id \in {0, run[p].id}
          THEN [id |-> run[p].id, tracker |-> run[p].tracker, status |-> status, by |-> p] ELSE prow

\* Fault: the map loses the id, whatever run it has by now.
UnlistId(p) == live' = [live EXCEPT ![run[p].id] = 0]

\* The manager's map loses run p, unless another is there by now.
Unlist(p) == live' = [live EXCEPT ![run[p].id] = IF @ = p THEN 0 ELSE @]

\* bump, under the run's lock: whoever sleeps on the channel is woken.
Bumped(c, p) ==
  [a \in Caller |-> IF c[a].st = "asleep" /\ c[a].p = p THEN [c[a] EXCEPT !.woken = TRUE] ELSE c[a]]

Listed == {live[i] : i \in Run} \ {0}

\* byName: a live run that is running, else a tracker that the row says is open, which
\* is loaded unless it is in the map.
ByName ==
  LET on == {p \in Listed : Running(p)}
  IN IF on # {} THEN on
     ELSE IF prow.id = 0 \/ ~prow.tracker \/ prow.status # "running" THEN {0}
     ELSE IF live[prow.id] # 0 THEN {live[prow.id]} ELSE {runs + 1} \cap Run

\* loadTracker, for a run that byName found in the row only.
LoadTracker(p) ==
  IF p <= runs THEN UNCHANGED <<live, run, runs>>
  ELSE /\ runs' = p
       /\ run' = [run EXCEPT ![p] = [NoRun EXCEPT !.id = prow.id, !.tracker = TRUE, !.status = "running"]]
       /\ live' = [live EXCEPT ![prow.id] = p]

\* Where a call goes on once what it had to stop is stopped.
AfterStop(c) ==
  IF c.op = "replace" THEN [c EXCEPT !.st = "listing"]
  ELSE IF c.op = "remove" THEN [c EXCEPT !.st = "deleting"]
  ELSE IF c.rest # {} THEN LET p == CHOOSE q \in c.rest : TRUE
                           IN [c EXCEPT !.st = "found", !.p = p, !.rest = @ \ {p}]
  ELSE NoCall("finished")

-----------------------------------------------------------------------------
(* Start. *)

Begun(a, op, tracker, p) ==
  call' = [call EXCEPT ![a] = [@ EXCEPT !.op = op, !.tracker = tracker, !.p = p,
                                         !.st = IF p = 0 THEN "listing" ELSE "found"]]

\* byName returns one run. A process that is listed beside it is not stopped.
Overlooks(p) ==
  givenUp' = givenUp \cup {q \in Listed \ {p} : Running(q) /\ ~run[q].tracker}

\* Fault: Start takes no lock.
StartUnlocked(a, op, tracker) ==
  /\ At(a, "new") /\ op \in {"start", "replace"}
  /\ \E p \in ByName :
       /\ LoadTracker(p)
       /\ IF p # 0 /\ op = "start" THEN Finishes(a) /\ UNCHANGED givenUp
          ELSE Begun(a, op, tracker, p) /\ Overlooks(p)
  /\ UNCHANGED <<prow, starting, shut, removed>>

\* The name is looked up; one that runs is an error unless it is to be replaced.
StartNamed(a, op, tracker) ==
  /\ At(a, "new") /\ starting = Nobody /\ op \in {"start", "replace"}
  /\ \E p \in ByName :
       /\ LoadTracker(p)
       /\ IF p # 0 /\ op = "start" THEN Finishes(a) /\ UNCHANGED <<starting, givenUp>>
          ELSE Begun(a, op, tracker, p) /\ starting' = a /\ Overlooks(p)
  /\ UNCHANGED <<prow, shut, removed>>

\* The row's id is used again; then the manager must not be shutting down.
StartLists(a) ==
  /\ At(a, "listing") /\ runs < MaxRun
  /\ runs' = runs + 1
  /\ call' = [call EXCEPT ![a].p = runs', ![a].id = IF prow.id = 0 THEN runs' ELSE prow.id, ![a].st = "listed"]
  /\ UNCHANGED <<prow, live, run, starting, shut, givenUp, removed>>

StartSpawns(a) ==
  /\ At(a, "listed")
  /\ IF shut THEN /\ starting' = Nobody /\ Finishes(a) /\ UNCHANGED run
             ELSE /\ run' = [run EXCEPT ![call[a].p] = [NoRun EXCEPT !.id = call[a].id, !.tracker = call[a].tracker,
                                                                     !.status = "running"]]
                  /\ GoesTo(a, "spawned") /\ UNCHANGED starting
  /\ UNCHANGED <<prow, live, runs, shut, givenUp, removed>>

\* The command cannot be started: the row says so.
StartFails(a) ==
  /\ At(a, "spawned") /\ ~call[a].tracker
  /\ run' = [run EXCEPT ![call[a].p].status = "failed", ![call[a].p].pump = "over"]
  /\ SaveRow(call[a].p, "failed")
  /\ starting' = Nobody /\ Finishes(a)
  /\ UNCHANGED <<live, runs, shut, givenUp, removed>>

StartSaves(a) ==
  /\ At(a, "spawned") /\ SaveRow(call[a].p, "running") /\ GoesTo(a, "stored")
  /\ UNCHANGED <<live, run, runs, starting, shut, givenUp, removed>>

StartRegisters(a) ==
  /\ At(a, "stored")
  /\ live' = [live EXCEPT ![call[a].id] = call[a].p]
  /\ run' = [run EXCEPT ![call[a].p].pump = IF call[a].tracker THEN "none" ELSE "reading"]
  /\ starting' = Nobody /\ Finishes(a)
  /\ UNCHANGED <<prow, runs, shut, givenUp, removed>>

-----------------------------------------------------------------------------
(* stopWithin, on behalf of Start, Stop, Remove, StopThread and Shutdown. *)

\* Stop and Remove look the id up; Remove goes on if nothing of it is live.
StopById(a, op, id) ==
  /\ At(a, "new") /\ op \in {"stop", "remove"}
  /\ IF live[id] = 0 /\ op = "stop" THEN Finishes(a)
     ELSE call' = [call EXCEPT ![a] = [@ EXCEPT !.op = op, !.p = live[id], !.id = id,
                                                !.st = IF live[id] # 0 THEN "found" ELSE "deleting"]]
  /\ UNCHANGED <<prow, live, run, runs, starting, shut, givenUp, removed>>

\* StopThread and Shutdown take what is live. Shutdown stops all at once.
StopAll(a, op) ==
  /\ At(a, "new") /\ op \in {"archive", "shutdown"}
  /\ shut' = (shut \/ op = "shutdown")
  /\ call' = [call EXCEPT ![a] = AfterStop([@ EXCEPT !.op = op, !.rest = Listed])]
  /\ UNCHANGED <<prow, live, run, runs, starting, givenUp, removed>>

ByDaemon(c) == c.op \in {"remove", "archive", "shutdown"}

\* A tracker outlives the daemon: its state is taken, to be saved.
StopSavesTracker(a) ==
  /\ At(a, "found") /\ run[call[a].p].tracker /\ ByDaemon(call[a])
  /\ call' = [call EXCEPT ![a].st = "saving", ![a].status = run[call[a].p].status]
  /\ UNCHANGED <<prow, live, run, runs, starting, shut, givenUp, removed>>

\* endTracker: once.
EndsTracker(a) ==
  /\ At(a, "found") /\ run[call[a].p].tracker /\ ~ByDaemon(call[a])
  /\ LET p == call[a].p
     IN IF Running(p)
        THEN /\ run' = [run EXCEPT ![p].status = IF call[a].op = "done" THEN "done" ELSE "stopped"]
             /\ call' = Bumped([call EXCEPT ![a].st = "ending"], p)
        ELSE call' = [call EXCEPT ![a] = AfterStop(@)] /\ UNCHANGED run
  /\ UNCHANGED <<prow, live, runs, starting, shut, givenUp, removed>>

TrackerSaved(a) ==
  /\ At(a, "ending") /\ SaveRow(call[a].p, run[call[a].p].status) /\ GoesTo(a, "unlisting")
  /\ UNCHANGED <<live, run, runs, starting, shut, givenUp, removed>>

TrackerUnlisted(a) ==
  /\ At(a, "unlisting") /\ Unlist(call[a].p)
  /\ call' = [call EXCEPT ![a] = AfterStop(@)]
  /\ UNCHANGED <<prow, run, runs, starting, shut, givenUp, removed>>

\* What a process is stopped for is noted, and it is signalled.
SignalsProcess(a) ==
  /\ At(a, "found") /\ ~run[call[a].p].tracker
  /\ run' = [run EXCEPT ![call[a].p].stopping = TRUE]
  /\ GoesTo(a, "stopping")
  /\ UNCHANGED <<prow, live, runs, starting, shut, givenUp, removed>>

\* It has ended, or is given up two seconds after SIGKILL.
StopReturns(a) ==
  /\ At(a, "stopping")
  /\ givenUp' = IF Running(call[a].p) THEN givenUp \cup {call[a].p} ELSE givenUp
  /\ call' = [call EXCEPT ![a] = AfterStop(@)]
  /\ UNCHANGED <<prow, live, run, runs, starting, shut, removed>>

\* Remove deletes the row, if it is there.
RemoveDeletes(a) ==
  /\ At(a, "deleting")
  /\ prow' = IF prow.id = call[a].id THEN NoRow ELSE prow
  /\ removed' = removed \cup ({call[a].p} \ {0})
  /\ Finishes(a)
  /\ UNCHANGED <<live, run, runs, starting, shut, givenUp>>

-----------------------------------------------------------------------------
(* finish, at the end of a process's pump. *)

\* Fault: the end is noted and nobody woken.
FinishEndsQuietly(p) ==
  /\ run[p].pump = "reading"
  /\ run' = [run EXCEPT ![p].pump = "saving", ![p].status = IF run[p].stopping THEN "stopped" ELSE "exited"]
  /\ UNCHANGED <<prow, live, runs, starting, call, shut, givenUp, removed>>

FinishEnds(p) ==
  /\ run[p].pump = "reading"
  /\ run' = [run EXCEPT ![p].pump = "saving", ![p].status = IF run[p].stopping THEN "stopped" ELSE "exited"]
  /\ call' = Bumped(call, p)
  /\ UNCHANGED <<prow, live, runs, starting, shut, givenUp, removed>>

FinishSaves(p) ==
  /\ run[p].pump = "saving" /\ SaveRow(p, run[p].status)
  /\ run' = [run EXCEPT ![p].pump = "unlisting"]
  /\ UNCHANGED <<live, runs, starting, call, shut, givenUp, removed>>

FinishUnlists(p) ==
  /\ run[p].pump = "unlisting" /\ Unlist(p)
  /\ run' = [run EXCEPT ![p].pump = "over"]
  /\ UNCHANGED <<prow, runs, starting, call, shut, givenUp, removed>>

-----------------------------------------------------------------------------
(* Report and Wait. *)

ReportNamed(a, op) ==
  /\ At(a, "new") /\ op \in {"report", "done"}
  /\ \E p \in ByName :
       /\ LoadTracker(p)
       /\ IF p = 0 THEN Finishes(a)
          ELSE call' = [call EXCEPT ![a] = [@ EXCEPT !.op = op, !.p = p, !.st = "named"]]
  /\ UNCHANGED <<prow, starting, shut, givenUp, removed>>

\* Its output reaches the checkpoint.
OutputReaches(p) ==
  /\ run[p].pump = "reading" /\ ~run[p].mark
  /\ run' = [run EXCEPT ![p].mark = TRUE] /\ call' = Bumped(call, p)
  /\ UNCHANGED <<prow, live, runs, starting, shut, givenUp, removed>>

\* applyReport: the checkpoint is reached and waiters look again. Then a tracker is
\* ended or saved, both as it is then.
ReportApplies(a) ==
  /\ At(a, "named")
  /\ LET p == call[a].p
     IN /\ run' = [run EXCEPT ![p].mark = TRUE]
        /\ call' = Bumped([call EXCEPT ![a] = IF ~run[p].tracker THEN NoCall("finished")
                                              ELSE [@ EXCEPT !.st = IF call[a].op = "done" THEN "found" ELSE "applied"]], p)
  /\ UNCHANGED <<prow, live, runs, starting, shut, givenUp, removed>>

\* save: the state is taken under the run's lock, and written after it.
SaveTakes(a) ==
  /\ At(a, "applied")
  /\ call' = [call EXCEPT ![a].st = "saving", ![a].status = run[call[a].p].status]
  /\ UNCHANGED <<prow, live, run, runs, starting, shut, givenUp, removed>>

SaveWrites(a) ==
  /\ At(a, "saving") /\ SaveRow(call[a].p, call[a].status)
  /\ call' = [call EXCEPT ![a] = AfterStop(@)]
  /\ UNCHANGED <<live, run, runs, starting, shut, givenUp, removed>>

WaitBegins(a, id, until) ==
  /\ At(a, "new") /\ live[id] # 0
  /\ call' = [call EXCEPT ![a] = [@ EXCEPT !.op = "wait", !.p = live[id], !.until = until, !.st = "waiting"]]
  /\ UNCHANGED <<prow, live, run, runs, starting, shut, givenUp, removed>>

Reached(c) == IF c.until = "exit" THEN ~Running(c.p) ELSE run[c.p].mark

\* The state and the channel to sleep on are taken under one lock.
WaitLooks(a) ==
  /\ At(a, "waiting")
  /\ IF Reached(call[a]) \/ ~Running(call[a].p) THEN Finishes(a)
     ELSE call' = [call EXCEPT ![a].st = "asleep", ![a].woken = FALSE]
  /\ UNCHANGED <<prow, live, run, runs, starting, shut, givenUp, removed>>

WaitWakes(a) ==
  /\ At(a, "asleep") /\ call[a].woken /\ GoesTo(a, "waiting")
  /\ UNCHANGED <<prow, live, run, runs, starting, shut, givenUp, removed>>

WaitTimesOut(a) ==
  /\ At(a, "asleep") /\ Finishes(a)
  /\ UNCHANGED <<prow, live, run, runs, starting, shut, givenUp, removed>>
-----------------------------------------------------------------------------

ProcNext ==
  \/ \E p \in Run : FinishEnds(p) \/ FinishSaves(p) \/ FinishUnlists(p) \/ OutputReaches(p)
  \/ \E a \in Caller :
       \/ \E op \in Op, tracker \in BOOLEAN : StartNamed(a, op, tracker)
       \/ StartLists(a) \/ StartSpawns(a) \/ StartFails(a) \/ StartSaves(a) \/ StartRegisters(a)
       \/ \E op \in Op, id \in Run : StopById(a, op, id)
       \/ \E op \in Op : StopAll(a, op) \/ ReportNamed(a, op)
       \/ StopSavesTracker(a) \/ EndsTracker(a) \/ TrackerSaved(a) \/ TrackerUnlisted(a)
       \/ SignalsProcess(a) \/ StopReturns(a) \/ RemoveDeletes(a)
       \/ ReportApplies(a) \/ SaveTakes(a) \/ SaveWrites(a)
       \/ \E id \in Run, until \in {"exit", "mark"} : WaitBegins(a, id, until)
       \/ WaitLooks(a) \/ WaitWakes(a) \/ WaitTimesOut(a)

ProcSpec == ProcInit /\ [][ProcNext]_procVars

-----------------------------------------------------------------------------

ProcTypeOK ==
  /\ prow \in RowState
  /\ live \in [Run -> 0 .. MaxRun]
  /\ run \in [Run -> RunState] /\ runs \in 0 .. MaxRun
  /\ starting \in Caller \cup {Nobody}
  /\ call \in [Caller -> CallState]
  /\ shut \in BOOLEAN /\ givenUp \subseteq Run /\ removed \subseteq Run

\* A name has one process: however Start, Stop, Remove and the ends of processes
\* interleave, two of them run only if a stop gave up on one, or a Start found a
\* tracker listed beside it and replaced that: what a late save can bring back.
OneRunning ==
  \A p, q \in Run \ givenUp :
    (Running(p) /\ ~run[p].tracker /\ Running(q) /\ ~run[q].tracker) => p = q

\* A process that runs can be found by its id, to be stopped and waited for: the
\* end of the one it replaced, which is handled late, does not unlist it.
RunningIsListed ==
  \A p \in Run \ givenUp : (Running(p) /\ run[p].pump = "reading") => live[run[p].id] = p

\* So what runs of a name is one process, and it is the one that can be found.
OneListed == OneRunning /\ RunningIsListed

\* A Wait does not sleep through what it waits for: what it looked at and the channel
\* it sleeps on are of one moment.
NoMissedWake ==
  \A a \in Caller : At(a, "asleep") /\ (Reached(call[a]) \/ ~Running(call[a].p)) => call[a].woken

\* "Remove stops a process if it's running and forgets it" (manager.go:382): a process
\* whose end Remove has waited for does not write the row again. (Not meant: a process
\* that a stop gave up on, and a tracker, which another call may be saving.)
RemovedIsForgotten == prow.by \in removed \ givenUp => prow.tracker
=============================================================================
