------------------------ MODULE ProcessManagerProofs ------------------------
(***************************************************************************)
(* Theorems about the runs of one process name, for any number of callers  *)
(* and of runs.                                                            *)
(***************************************************************************)
EXTENDS ProcessManager, TLAPS

(* What every call's record and every run's record may be. *)
LEMMA CallFields ==
  ASSUME ProcTypeOK, NEW a \in Caller
  PROVE  call[a] \in CallState /\ call[a].p \in 0 .. MaxRun /\ call[a].rest \subseteq Run
  BY DEF ProcTypeOK, CallState

LEMMA NoCallType ==
  ASSUME NEW st \in {"new", "finished"}
  PROVE  NoCall(st) \in CallState
  BY RunAssumption DEF NoCall, CallState, Op, Id, Status, Run

LEMMA AfterStopType ==
  ASSUME NEW c \in CallState
  PROVE  AfterStop(c) \in CallState
<1>1. CASE c.op = "replace"
  <2>1. AfterStop(c) = [c EXCEPT !.st = "listing"]
    BY <1>1 DEF AfterStop
  <2>2. QED
    BY <2>1 DEF CallState
<1>2. CASE c.op = "remove"
  <2>1. AfterStop(c) = [c EXCEPT !.st = "deleting"]
    BY <1>2 DEF AfterStop
  <2>2. QED
    BY <2>1 DEF CallState
<1>3. CASE c.op \notin {"replace", "remove"} /\ c.rest # {}
  <2> DEFINE p == CHOOSE q \in c.rest : TRUE
  <2>1. p \in c.rest /\ c.rest \subseteq Run
    BY <1>3 DEF CallState
  <2>2. p \in 0 .. MaxRun
    BY <2>1 DEF Run
  <2>3. AfterStop(c) = [c EXCEPT !.st = "found", !.p = p, !.rest = @ \ {p}]
    BY <1>3 DEF AfterStop
  <2> HIDE DEF p
  <2>4. QED
    BY <2>1, <2>2, <2>3 DEF CallState
<1>4. CASE c.op \notin {"replace", "remove"} /\ c.rest = {}
  <2>1. AfterStop(c) = NoCall("finished")
    BY <1>4 DEF AfterStop
  <2>2. QED
    BY <2>1, NoCallType
<1>5. QED
  BY <1>1, <1>2, <1>3, <1>4

(* Waking sleepers changes nothing else of a call. *)
LEMMA BumpedType ==
  ASSUME NEW c \in [Caller -> CallState], NEW p
  PROVE  Bumped(c, p) \in [Caller -> CallState]
<1>1. \A a \in Caller : [c[a] EXCEPT !.woken = TRUE] \in CallState
  BY ZenonT(30) DEF CallState
<1>2. QED
  BY <1>1 DEF Bumped

LEMMA SaveRowType ==
  ASSUME ProcTypeOK, NEW p \in Run, NEW status \in Status, SaveRow(p, status)
  PROVE  prow' \in RowState
<1>1. run[p].id \in Id /\ run[p].tracker \in BOOLEAN /\ p \in 0 .. MaxRun
  BY DEF ProcTypeOK, RunState, Run
<1>2. QED
  BY <1>1 DEF SaveRow, ProcTypeOK, RowState

(* What byName finds is a run of the map, or the tracker it makes of the row. *)
LEMMA ByNameFinds ==
  ASSUME ProcTypeOK, NEW p \in ByName
  PROVE  /\ p \in 0 .. MaxRun
         /\ \/ p = 0 \/ p \in Listed
            \/ /\ p = runs + 1 /\ p \in Run /\ prow.id \in Run /\ live[prow.id] = 0
         /\ p = 0 => {q \in Listed : Running(q)} = {}
         /\ p # 0 /\ {q \in Listed : Running(q)} # {} => p \in Listed
<1>1. Listed \subseteq Run
  BY DEF Listed, ProcTypeOK, Run
<1>2. CASE {q \in Listed : Running(q)} # {}
  BY <1>1, <1>2 DEF ByName, Run
<1>3. CASE {q \in Listed : Running(q)} = {} /\ (prow.id = 0 \/ ~prow.tracker \/ prow.status # "running")
  <2>1. p = 0
    BY <1>3 DEF ByName
  <2>2. QED
    BY <1>3, <2>1, RunAssumption
<1>4. CASE {q \in Listed : Running(q)} = {} /\ ~(prow.id = 0 \/ ~prow.tracker \/ prow.status # "running")
  <2>1. prow.id \in Run
    BY <1>4 DEF ProcTypeOK, RowState, Id, Run
  <2>2. CASE live[prow.id] # 0
    <3>1. p = live[prow.id]
      BY <1>4, <2>2 DEF ByName
    <3>2. p \in Listed
      BY <2>1, <2>2, <3>1 DEF Listed
    <3>3. QED
      BY <1>1, <1>4, <2>2, <3>1, <3>2 DEF Run
  <2>3. CASE live[prow.id] = 0
    <3>1. p = runs + 1 /\ p \in Run
      BY <1>4, <2>3 DEF ByName
    <3>2. QED
      BY <1>4, <2>1, <2>3, <3>1 DEF Run
  <2>4. QED
    BY <2>2, <2>3
<1>5. QED
  BY <1>2, <1>3, <1>4

LEMMA LoadTrackerType ==
  ASSUME ProcTypeOK, NEW p \in ByName, LoadTracker(p)
  PROVE  live' \in [Run -> 0 .. MaxRun] /\ run' \in [Run -> RunState] /\ runs' \in 0 .. MaxRun
<1>1. CASE p <= runs
  BY <1>1 DEF LoadTracker, ProcTypeOK
<1>2. CASE ~(p <= runs)
  <2>1. Listed \subseteq Run /\ runs \in 0 .. MaxRun
    BY DEF Listed, ProcTypeOK, Run
  <2>2. p \in 0 .. MaxRun /\ p # 0
    BY <1>2, <2>1, ByNameFinds, RunAssumption
  <2>3. prow.id \in Id /\ p \in Run
    BY <2>2 DEF ProcTypeOK, RowState, Run
  <2>4. [NoRun EXCEPT !.id = prow.id, !.tracker = TRUE, !.status = "running"] \in RunState
    BY <2>3 DEF NoRun, RunState, Status
  <2>5. QED
    BY <1>2, <2>2, <2>3, <2>4 DEF LoadTracker, ProcTypeOK
<1>3. QED
  BY <1>1, <1>2

LEMMA UnlistType ==
  ASSUME ProcTypeOK, NEW p \in Run, Unlist(p)
  PROVE  /\ live' \in [Run -> 0 .. MaxRun]
         /\ \A i \in Run : live'[i] = live[i] \/ (live'[i] = 0 /\ live[i] = p)
<1>0. 0 \in 0 .. MaxRun
  BY RunAssumption
<1>1. CASE run[p].id \in Run
  <2>1. live' = [live EXCEPT ![run[p].id] = IF live[run[p].id] = p THEN 0 ELSE live[run[p].id]]
    BY DEF Unlist
  <2>2. QED
    BY <1>0, <1>1, <2>1 DEF ProcTypeOK
<1>2. CASE run[p].id \notin Run
  <2>1. live' = live
    BY <1>2 DEF Unlist, ProcTypeOK
  <2>2. QED
    BY <2>1 DEF ProcTypeOK
<1>3. QED
  BY <1>1, <1>2

-----------------------------------------------------------------------------
(***************************************************************************)
(* The inductive invariant. startMu has one holder, and it is the call that *)
(* is between looking the name up and registering its run. A run is        *)
(* numbered when it is made, is nobody else's until it is registered, and   *)
(* is registered under its own id. A process that runs is either being      *)
(* made or has a pump that reads it; and while a Start is under way the     *)
(* only one there can be is the one that it stops or makes: so the entry    *)
(* that it overwrites is no running process's.                              *)
(***************************************************************************)
Starter(a) == call[a].op \in {"start", "replace"}
Making(a) == call[a].st \in {"listed", "spawned", "stored"}
Refers(a, p) == call[a].p = p \/ p \in call[a].rest
Process(p) == Running(p) /\ ~run[p].tracker

Targets ==
  \A a \in Caller :
    /\ call[a].st \in {"found", "stopping", "ending", "unlisting", "saving", "named", "applied",
                       "waiting", "asleep", "listed", "spawned", "stored"} => call[a].p # 0
    /\ call[a].st \in {"ending", "unlisting"} => run[call[a].p].tracker
OneStarts ==
  \A a \in Caller :
    /\ Starter(a) <=> starting = a
    /\ call[a].st \in {"listing", "listed", "spawned", "stored"} => Starter(a)
    /\ call[a].op = "start" => call[a].st \in {"listing", "listed", "spawned", "stored"}
    /\ call[a].op = "replace" => call[a].st \in {"found", "stopping", "ending", "unlisting",
                                                 "listing", "listed", "spawned", "stored"}
Numbered ==
  /\ \A i \in Run : live[i] # 0 => run[live[i]].id = i /\ live[i] <= runs
  /\ \A a \in Caller, p \in Run : Refers(a, p) => p <= runs
  /\ \A p \in Run : p > runs => run[p] = NoRun
Fresh ==
  \A a \in Caller : Making(a) =>
    LET p == call[a].p
    IN /\ \A i \in Run : live[i] # p
       /\ \A b \in Caller \ {a} : ~Refers(b, p)
       /\ p \notin call[a].rest
       /\ call[a].id \in Run /\ run[p].pump = "none"
       /\ At(a, "listed") => run[p] = NoRun
       /\ ~At(a, "listed") => /\ run[p].id = call[a].id /\ Running(p)
                              /\ run[p].tracker = call[a].tracker
Pumped ==
  \A p \in Run :
    /\ run[p].pump = "reading" => Process(p) /\ run[p].id \in Run
    /\ Process(p) => \/ run[p].pump = "reading"
                     \/ \E a \in Caller : Making(a) /\ call[a].p = p
Alone ==
  \A a \in Caller, p \in Run \ givenUp :
    Starter(a) /\ Process(p) =>
      call[a].p = p /\ call[a].st \in {"found", "stopping", "spawned", "stored"}

PInv ==
  /\ ProcTypeOK /\ Targets /\ OneStarts /\ Numbered /\ Fresh /\ Pumped
  /\ Alone /\ OneRunning /\ RunningIsListed /\ NoMissedWake

-----------------------------------------------------------------------------
(* The types. *)

(* A call that goes on with another record of its type. *)
LEMMA CallBecomes ==
  ASSUME ProcTypeOK, NEW a \in Caller, NEW c \in CallState,
         call' = [call EXCEPT ![a] = c]
  PROVE  call' \in [Caller -> CallState]
  BY DEF ProcTypeOK

LEMMA TypeStart ==
  ASSUME PInv, NEW a \in Caller,
         \/ \E op \in Op, tracker \in BOOLEAN : StartNamed(a, op, tracker)
         \/ StartLists(a) \/ StartSpawns(a) \/ StartFails(a) \/ StartSaves(a) \/ StartRegisters(a)
  PROVE  ProcTypeOK'
<1> DEFINE c == call[a]
<1>0. /\ ProcTypeOK /\ c \in CallState /\ c.p \in 0 .. MaxRun /\ c.id \in Id /\ c.tracker \in BOOLEAN
      /\ At(a, "listed") \/ At(a, "spawned") \/ At(a, "stored") => c.p \in Run
  BY DEF PInv, ProcTypeOK, CallState, Targets, At, Run
<1>1. ASSUME NEW op \in Op, NEW tracker \in BOOLEAN, StartNamed(a, op, tracker)
      PROVE  ProcTypeOK'
  <2>1. PICK p \in ByName :
          /\ LoadTracker(p)
          /\ \/ Finishes(a) /\ UNCHANGED <<starting, givenUp>>
             \/ Begun(a, op, tracker, p) /\ starting' = a /\ Overlooks(p)
    BY <1>1 DEF StartNamed
  <2>2. live' \in [Run -> 0 .. MaxRun] /\ run' \in [Run -> RunState] /\ runs' \in 0 .. MaxRun
    BY <1>0, <2>1, LoadTrackerType
  <2>3. givenUp' \subseteq Run
    BY <1>0, <2>1 DEF Overlooks, Listed, ProcTypeOK, Run
  <2>4. call' \in [Caller -> CallState]
    <3>1. NoCall("finished") \in CallState
      BY NoCallType
    <3>2. p \in 0 .. MaxRun
      BY <1>0, ByNameFinds
    <3>3. [c EXCEPT !.op = op, !.tracker = tracker, !.p = p, !.st = IF p = 0 THEN "listing" ELSE "found"]
            \in CallState
      BY <1>0, <3>2 DEF CallState
    <3>4. QED
      BY <1>0, <2>1, <3>1, <3>3 DEF Finishes, Begun, ProcTypeOK
  <2>5. QED
    BY <1>0, <1>1, <2>1, <2>2, <2>3, <2>4 DEF StartNamed, ProcTypeOK
<1>2. CASE StartLists(a)
  <2>1. runs' \in 0 .. MaxRun
    BY <1>0, <1>2, RunAssumption DEF StartLists, ProcTypeOK
  <2>4. (IF prow.id = 0 THEN runs' ELSE prow.id) \in Id
    BY <1>0, <2>1 DEF ProcTypeOK, RowState, Id
  <2>2. [c EXCEPT !.p = runs', !.id = IF prow.id = 0 THEN runs' ELSE prow.id, !.st = "listed"] \in CallState
    BY <1>0, <2>1, <2>4 DEF CallState
  <2>3. call' \in [Caller -> CallState]
    BY <1>0, <1>2, <2>2 DEF StartLists, ProcTypeOK
  <2>5. QED
    BY <1>0, <1>2, <2>1, <2>3 DEF StartLists, ProcTypeOK
<1>3. CASE StartSpawns(a)
  <2>1. CASE shut
    <3>1. call' \in [Caller -> CallState]
      BY <1>0, <1>3, <2>1, NoCallType, CallBecomes DEF StartSpawns, Finishes
    <3>2. QED
      BY <1>0, <1>3, <2>1, <3>1 DEF StartSpawns, ProcTypeOK
  <2>2. CASE ~shut
    <3>1. [NoRun EXCEPT !.id = c.id, !.tracker = c.tracker, !.status = "running"] \in RunState
      BY <1>0 DEF NoRun, RunState, Status
    <3>2. [c EXCEPT !.st = "spawned"] \in CallState
      BY <1>0 DEF CallState
    <3>3. /\ run' = [run EXCEPT ![c.p] = [NoRun EXCEPT !.id = c.id, !.tracker = c.tracker, !.status = "running"]]
          /\ call' = [call EXCEPT ![a] = [c EXCEPT !.st = "spawned"]]
      BY <1>0, <1>3, <2>2 DEF StartSpawns, GoesTo, ProcTypeOK
    <3>4. run' \in [Run -> RunState] /\ call' \in [Caller -> CallState]
      BY <1>0, <3>1, <3>2, <3>3 DEF ProcTypeOK
    <3>5. QED
      BY <1>0, <1>3, <2>2, <3>4 DEF StartSpawns, ProcTypeOK
  <2>3. QED
    BY <2>1, <2>2
<1>4. CASE StartFails(a)
  <2>1. c.p \in Run /\ prow' \in RowState
    BY <1>0, <1>4, SaveRowType DEF StartFails, Status
  <2>2. call' \in [Caller -> CallState]
    BY <1>0, <1>4, NoCallType, CallBecomes DEF StartFails, Finishes
  <2>3. [run[c.p] EXCEPT !.status = "failed", !.pump = "over"] \in RunState
    <3>1. run[c.p] \in RunState
      BY <1>0, <2>1 DEF ProcTypeOK
    <3>2. QED
      BY <3>1 DEF RunState, Status
  <2>4. run' = [run EXCEPT ![c.p] = [run[c.p] EXCEPT !.status = "failed", !.pump = "over"]]
    BY <1>0, <1>4, <2>1 DEF StartFails, ProcTypeOK
  <2>5. QED
    BY <1>0, <1>4, <2>1, <2>2, <2>3, <2>4 DEF StartFails, ProcTypeOK
<1>5. CASE StartSaves(a)
  <2>1. c.p \in Run /\ prow' \in RowState
    BY <1>0, <1>5, SaveRowType DEF StartSaves, Status
  <2>2. [c EXCEPT !.st = "stored"] \in CallState
    BY <1>0 DEF CallState
  <2>3. QED
    BY <1>0, <1>5, <2>1, <2>2 DEF StartSaves, GoesTo, ProcTypeOK
<1>6. CASE StartRegisters(a)
  <2>1. c.p \in Run
    BY <1>0, <1>6 DEF StartRegisters
  <2>2. call' \in [Caller -> CallState]
    BY <1>0, <1>6, NoCallType, CallBecomes DEF StartRegisters, Finishes
  <2>3. [run[c.p] EXCEPT !.pump = IF c.tracker THEN "none" ELSE "reading"] \in RunState
    BY <1>0, <2>1 DEF ProcTypeOK, RunState
  <2>4. run' = [run EXCEPT ![c.p] = [run[c.p] EXCEPT !.pump = IF c.tracker THEN "none" ELSE "reading"]]
    BY <1>0, <1>6, <2>1 DEF StartRegisters, ProcTypeOK
  <2>5. live' \in [Run -> 0 .. MaxRun]
    BY <1>0, <1>6 DEF StartRegisters, ProcTypeOK
  <2>6. QED
    BY <1>0, <1>6, <2>1, <2>2, <2>3, <2>4, <2>5 DEF StartRegisters, ProcTypeOK
<1>7. QED
  BY <1>1, <1>2, <1>3, <1>4, <1>5, <1>6

(* The calls that change nothing but a record, and the rows and lists that *)
(* some of them write.                                                      *)
LEMMA TypeStop ==
  ASSUME PInv, NEW a \in Caller,
         \/ \E op \in Op, id \in Run : StopById(a, op, id)
         \/ \E op \in Op : StopAll(a, op)
         \/ StopSavesTracker(a) \/ EndsTracker(a) \/ TrackerSaved(a) \/ TrackerUnlisted(a)
         \/ SignalsProcess(a) \/ StopReturns(a) \/ RemoveDeletes(a)
  PROVE  ProcTypeOK'
<1> DEFINE c == call[a]
<1>0. /\ ProcTypeOK /\ c \in CallState /\ c.p \in 0 .. MaxRun /\ c.id \in Id
      /\ \A st \in {"found", "ending", "unlisting", "stopping"} : At(a, st) => c.p \in Run
      /\ NoCall("finished") \in CallState /\ AfterStop(c) \in CallState
  BY NoCallType, AfterStopType DEF PInv, ProcTypeOK, CallState, Targets, At, Run
<1>1. ASSUME NEW op \in Op, NEW id \in Run, StopById(a, op, id)
      PROVE  ProcTypeOK'
  <2>1. live[id] \in 0 .. MaxRun /\ id \in Id
    BY <1>0 DEF ProcTypeOK, Run, Id
  <2>2. [c EXCEPT !.op = op, !.p = live[id], !.id = id,
                  !.st = IF live[id] # 0 THEN "found" ELSE "deleting"] \in CallState
    BY <1>0, <2>1 DEF CallState
  <2>3. call' \in [Caller -> CallState]
    BY <1>0, <1>1, <2>2 DEF StopById, Finishes, ProcTypeOK
  <2>4. QED
    BY <1>0, <1>1, <2>3 DEF StopById, ProcTypeOK
<1>2. ASSUME NEW op \in Op, StopAll(a, op)
      PROVE  ProcTypeOK'
  <2>1. Listed \subseteq Run
    BY <1>0 DEF Listed, ProcTypeOK, Run
  <2>2. [c EXCEPT !.op = op, !.rest = Listed] \in CallState
    BY <1>0, <2>1 DEF CallState
  <2>3. AfterStop([c EXCEPT !.op = op, !.rest = Listed]) \in CallState
    BY <2>2, AfterStopType
  <2>4. call' = [call EXCEPT ![a] = AfterStop([c EXCEPT !.op = op, !.rest = Listed])]
    BY <1>0, <1>2 DEF StopAll, ProcTypeOK
  <2>5. call' \in [Caller -> CallState]
    BY <1>0, <2>3, <2>4, CallBecomes
  <2>6. QED
    BY <1>0, <1>2, <2>5 DEF StopAll, ProcTypeOK
<1>3. CASE StopSavesTracker(a)
  <2>1. run[c.p].status \in Status
    BY <1>0, <1>3 DEF StopSavesTracker, ProcTypeOK, RunState
  <2>2. [c EXCEPT !.st = "saving", !.status = run[c.p].status] \in CallState
    BY <1>0, <2>1 DEF CallState
  <2>3. QED
    BY <1>0, <1>3, <2>2 DEF StopSavesTracker, ProcTypeOK
<1>4. CASE EndsTracker(a)
  <2>1. CASE Running(c.p)
    <3>1. [run[c.p] EXCEPT !.status = IF c.op = "done" THEN "done" ELSE "stopped"] \in RunState
      <4>1. run[c.p] \in RunState
        BY <1>0, <1>4 DEF EndsTracker, ProcTypeOK
      <4>2. QED
        BY <4>1 DEF RunState, Status
    <3>2. run' \in [Run -> RunState]
      BY <1>0, <1>4, <2>1, <3>1 DEF EndsTracker, ProcTypeOK
    <3>3. [c EXCEPT !.st = "ending"] \in CallState
      BY <1>0 DEF CallState
    <3>4. [call EXCEPT ![a].st = "ending"] \in [Caller -> CallState]
      BY <1>0, <3>3 DEF ProcTypeOK
    <3>5. call' = Bumped([call EXCEPT ![a].st = "ending"], c.p)
      BY <1>4, <2>1 DEF EndsTracker
    <3> DEFINE ending == [call EXCEPT ![a].st = "ending"]
    <3>6. ending \in [Caller -> CallState] /\ call' = Bumped(ending, c.p)
      BY <3>4, <3>5
    <3> HIDE DEF ending
    <3>7. call' \in [Caller -> CallState]
      BY <3>6, BumpedType
    <3>8. QED
      BY <1>0, <1>4, <3>2, <3>7 DEF EndsTracker, ProcTypeOK
  <2>2. CASE ~Running(c.p)
    BY <1>0, <1>4, <2>2 DEF EndsTracker, ProcTypeOK
  <2>3. QED
    BY <2>1, <2>2
<1>5. CASE TrackerSaved(a)
  <2>1. run[c.p].status \in Status /\ c.p \in Run
    BY <1>0, <1>5 DEF TrackerSaved, ProcTypeOK, RunState
  <2>2. prow' \in RowState
    BY <1>0, <1>5, <2>1, SaveRowType DEF TrackerSaved
  <2>3. [c EXCEPT !.st = "unlisting"] \in CallState
    BY <1>0 DEF CallState
  <2>4. QED
    BY <1>0, <1>5, <2>2, <2>3 DEF TrackerSaved, GoesTo, ProcTypeOK
<1>6. CASE TrackerUnlisted(a)
  <2>1. live' \in [Run -> 0 .. MaxRun]
    BY <1>0, <1>6, UnlistType DEF TrackerUnlisted
  <2>2. QED
    BY <1>0, <1>6, <2>1 DEF TrackerUnlisted, ProcTypeOK
<1>7. CASE SignalsProcess(a)
  <2>1. [c EXCEPT !.st = "stopping"] \in CallState
    BY <1>0 DEF CallState
  <2>2. [run[c.p] EXCEPT !.stopping = TRUE] \in RunState
    <3>1. run[c.p] \in RunState
      BY <1>0, <1>7 DEF SignalsProcess, ProcTypeOK
    <3>2. QED
      BY <3>1 DEF RunState
  <2>3. QED
    BY <1>0, <1>7, <2>1, <2>2 DEF SignalsProcess, GoesTo, ProcTypeOK
<1>8. CASE StopReturns(a)
  BY <1>0, <1>8 DEF StopReturns, ProcTypeOK
<1>9. CASE RemoveDeletes(a)
  <2>1. NoRow \in RowState
    BY RunAssumption DEF NoRow, RowState, Id, Status
  <2>2. removed' \subseteq Run
    <3>1. c.p = 0 \/ c.p \in Run
      BY <1>0 DEF Run
    <3>2. removed' = removed \cup ({c.p} \ {0}) /\ removed \subseteq Run
      BY <1>0, <1>9 DEF RemoveDeletes, ProcTypeOK
    <3>3. QED
      BY <3>1, <3>2
  <2>3. QED
    BY <1>0, <1>9, <2>1, <2>2 DEF RemoveDeletes, Finishes, ProcTypeOK
<1>10. QED
  BY <1>1, <1>2, <1>3, <1>4, <1>5, <1>6, <1>7, <1>8, <1>9

LEMMA TypeReport ==
  ASSUME PInv, NEW a \in Caller,
         \/ \E op \in Op : ReportNamed(a, op)
         \/ ReportApplies(a) \/ SaveTakes(a) \/ SaveWrites(a)
         \/ \E id \in Run, until \in {"exit", "mark"} : WaitBegins(a, id, until)
         \/ WaitLooks(a) \/ WaitWakes(a) \/ WaitTimesOut(a)
  PROVE  ProcTypeOK'
<1> DEFINE c == call[a]
<1>0. /\ ProcTypeOK /\ c \in CallState /\ c.p \in 0 .. MaxRun /\ c.status \in Status
      /\ \A st \in {"named", "applied", "saving"} : At(a, st) => c.p \in Run
      /\ NoCall("finished") \in CallState /\ AfterStop(c) \in CallState
  BY NoCallType, AfterStopType DEF PInv, ProcTypeOK, CallState, Targets, At, Run
<1>1. ASSUME NEW op \in Op, ReportNamed(a, op)
      PROVE  ProcTypeOK'
  <2>1. PICK p \in ByName :
          /\ LoadTracker(p)
          /\ \/ Finishes(a)
             \/ call' = [call EXCEPT ![a] = [@ EXCEPT !.op = op, !.p = p, !.st = "named"]]
    BY <1>1 DEF ReportNamed
  <2>2. live' \in [Run -> 0 .. MaxRun] /\ run' \in [Run -> RunState] /\ runs' \in 0 .. MaxRun
    BY <1>0, <2>1, LoadTrackerType
  <2>3. p \in 0 .. MaxRun
    BY <1>0, ByNameFinds
  <2>4. [c EXCEPT !.op = op, !.p = p, !.st = "named"] \in CallState
    BY <1>0, <2>3 DEF CallState
  <2>5. call' \in [Caller -> CallState]
    BY <1>0, <2>1, <2>4 DEF Finishes, ProcTypeOK
  <2>6. QED
    BY <1>0, <1>1, <2>2, <2>5 DEF ReportNamed, ProcTypeOK
<1>2. CASE ReportApplies(a)
  <2>1. [run[c.p] EXCEPT !.mark = TRUE] \in RunState
    <3>1. run[c.p] \in RunState
      BY <1>0, <1>2 DEF ReportApplies, ProcTypeOK
    <3>2. QED
      BY <3>1 DEF RunState
  <2>2. [c EXCEPT !.st = IF c.op = "done" THEN "found" ELSE "applied"] \in CallState
    BY <1>0 DEF CallState
  <2>3. [call EXCEPT ![a] = IF ~run[c.p].tracker THEN NoCall("finished")
                            ELSE [@ EXCEPT !.st = IF call[a].op = "done" THEN "found" ELSE "applied"]]
          \in [Caller -> CallState]
    BY <1>0, <2>2 DEF ProcTypeOK
  <2>4. call' \in [Caller -> CallState]
    BY <1>2, <2>3, BumpedType DEF ReportApplies
  <2>5. QED
    BY <1>0, <1>2, <2>1, <2>4 DEF ReportApplies, ProcTypeOK
<1>3. CASE SaveTakes(a)
  <2>1. run[c.p].status \in Status
    BY <1>0, <1>3 DEF SaveTakes, ProcTypeOK, RunState
  <2>2. [c EXCEPT !.st = "saving", !.status = run[c.p].status] \in CallState
    BY <1>0, <2>1 DEF CallState
  <2>3. QED
    BY <1>0, <1>3, <2>2 DEF SaveTakes, ProcTypeOK
<1>4. CASE SaveWrites(a)
  <2>1. prow' \in RowState
    BY <1>0, <1>4, SaveRowType DEF SaveWrites
  <2>2. QED
    BY <1>0, <1>4, <2>1 DEF SaveWrites, ProcTypeOK
<1>5. ASSUME NEW id \in Run, NEW until \in {"exit", "mark"}, WaitBegins(a, id, until)
      PROVE  ProcTypeOK'
  <2>1. live[id] \in 0 .. MaxRun
    BY <1>0 DEF ProcTypeOK
  <2>2. [c EXCEPT !.op = "wait", !.p = live[id], !.until = until, !.st = "waiting"] \in CallState
    BY <1>0, <2>1 DEF CallState, Op
  <2>3. QED
    BY <1>0, <1>5, <2>2 DEF WaitBegins, ProcTypeOK
<1>6. CASE WaitLooks(a) \/ WaitWakes(a) \/ WaitTimesOut(a)
  <2>1. /\ [c EXCEPT !.st = "asleep", !.woken = FALSE] \in CallState
        /\ [c EXCEPT !.st = "waiting"] \in CallState
    BY <1>0 DEF CallState
  <2>2. call' \in [Caller -> CallState]
    BY <1>0, <1>6, <2>1 DEF WaitLooks, WaitWakes, WaitTimesOut, Finishes, GoesTo, ProcTypeOK
  <2>3. QED
    BY <1>0, <1>6, <2>2 DEF WaitLooks, WaitWakes, WaitTimesOut, ProcTypeOK
<1>7. QED
  BY <1>1, <1>2, <1>3, <1>4, <1>5, <1>6

LEMMA TypePump ==
  ASSUME PInv, NEW p \in Run, FinishEnds(p) \/ FinishSaves(p) \/ FinishUnlists(p) \/ OutputReaches(p)
  PROVE  ProcTypeOK'
<1>0. ProcTypeOK /\ run[p] \in RunState /\ run[p].status \in Status /\ Bumped(call, p) \in [Caller -> CallState]
  BY BumpedType DEF PInv, ProcTypeOK, RunState
<1>1. /\ [run[p] EXCEPT !.pump = "saving", !.status = IF run[p].stopping THEN "stopped" ELSE "exited"] \in RunState
      /\ [run[p] EXCEPT !.pump = "unlisting"] \in RunState
      /\ [run[p] EXCEPT !.pump = "over"] \in RunState
      /\ [run[p] EXCEPT !.mark = TRUE] \in RunState
  BY <1>0 DEF RunState, Status
<1>2. CASE FinishEnds(p) \/ OutputReaches(p)
  BY <1>0, <1>1, <1>2 DEF FinishEnds, OutputReaches, ProcTypeOK
<1>3. CASE FinishSaves(p)
  <2>1. prow' \in RowState
    BY <1>0, <1>3, SaveRowType DEF FinishSaves
  <2>2. QED
    BY <1>0, <1>1, <1>3, <2>1 DEF FinishSaves, ProcTypeOK
<1>4. CASE FinishUnlists(p)
  <2>1. live' \in [Run -> 0 .. MaxRun]
    BY <1>0, <1>4, UnlistType DEF FinishUnlists
  <2>2. QED
    BY <1>0, <1>1, <1>4, <2>1 DEF FinishUnlists, ProcTypeOK
<1>5. QED
  BY <1>2, <1>3, <1>4

LEMMA TypeStep == PInv /\ [ProcNext]_procVars => ProcTypeOK'
<1>1. PInv /\ UNCHANGED procVars => ProcTypeOK'
  BY DEF PInv, ProcTypeOK, procVars
<1>2. PInv /\ ProcNext => ProcTypeOK'
  <2> SUFFICES ASSUME PInv, ProcNext PROVE ProcTypeOK'
    OBVIOUS
  <2>1. CASE \E p \in Run : FinishEnds(p) \/ FinishSaves(p) \/ FinishUnlists(p) \/ OutputReaches(p)
    BY <2>1, TypePump
  <2>2. CASE ~ \E p \in Run : FinishEnds(p) \/ FinishSaves(p) \/ FinishUnlists(p) \/ OutputReaches(p)
    BY <2>2, TypeStart, TypeStop, TypeReport, Zenon DEF ProcNext
  <2>3. QED
    BY <2>1, <2>2
<1>3. QED
  BY <1>1, <1>2

-----------------------------------------------------------------------------
(***************************************************************************)
(* What a step that makes no process leaves alone, whoever takes it: a      *)
(* caller a, or a pump, for which a is Nobody.                              *)
(***************************************************************************)

(* The other callers: they may be woken, and are when what they sleep on changes. *)
Elsewhere(a) ==
  \A b \in Caller \ {a} :
    /\ call'[b].op = call[b].op /\ call'[b].p = call[b].p /\ call'[b].id = call[b].id
    /\ call'[b].tracker = call[b].tracker /\ call'[b].until = call[b].until
    /\ call'[b].rest = call[b].rest /\ call'[b].st = call[b].st
    /\ call[b].woken => call'[b].woken
    /\ starting' = b <=> starting = b

Woken(a, p) == \A b \in Caller \ {a} : At(b, "asleep") /\ call[b].p = p => call'[b].woken

(* A run that was there: it is not made anew, and runs on only as it was. *)
Kept(a, p) ==
  /\ p <= runs /\ \A b \in Caller \ {a} : Making(b) => call[b].p # p
  /\ run'[p].id = run[p].id /\ run'[p].tracker = run[p].tracker
  /\ Process(p)' => Process(p) /\ run'[p].pump = run[p].pump
  /\ run'[p].pump = "reading" => Process(p)' /\ run[p].pump = "reading"
  /\ (run'[p].status = run[p].status /\ run'[p].mark = run[p].mark) \/ Woken(a, p)

(* The tracker that byName makes of the row. *)
Loaded(p) ==
  /\ p = runs + 1 /\ runs' = p
  /\ run'[p].tracker /\ run'[p].pump = "none"

RunsKept(a) ==
  /\ runs' \in {runs, runs + 1}
  /\ \A p \in Run : run'[p] = run[p] \/ Kept(a, p) \/ Loaded(p)
  /\ \A i \in Run :
       \/ live'[i] = live[i]
       \/ live'[i] = 0 /\ (live[i] # 0 => run[live[i]].pump # "reading")
       \/ live[i] = 0 /\ live'[i] \in Run /\ Loaded(live'[i]) /\ run'[live'[i]].id = i
  /\ givenUp \subseteq givenUp'

(* The caller's own call. *)
Own(a) ==
  a \in Caller =>
    /\ ~Making(a)'
    /\ At(a, "asleep")' => ~Reached(call[a])' /\ Running(call[a].p)'
    /\ call'[a].st = "listing" => Starter(a)'
    /\ call'[a].op = "start" => call'[a].st = "listing"
    /\ call'[a].op = "replace" => call'[a].st \in {"found", "stopping", "ending", "unlisting", "listing"}
    /\ Starter(a)' <=> starting' = a
    /\ call'[a].st \in {"found", "stopping", "ending", "unlisting", "saving", "named", "applied",
                       "waiting", "asleep"} => call'[a].p # 0
    /\ call'[a].st \in {"ending", "unlisting"} => run'[call'[a].p].tracker
    /\ \A p \in Run : Refers(a, p)' => Refers(a, p) \/ p \in Listed \/ Loaded(p)
    /\ \A p \in Run : Making(a) /\ call[a].p = p => ~Process(p)'
    /\ \A p \in Run \ givenUp' :
         Starter(a)' /\ Process(p)' => call'[a].p = p /\ call'[a].st \in {"found", "stopping"}

Quiet(a) == Elsewhere(a) /\ RunsKept(a) /\ Own(a)

LEMMA QuietTargets ==
  ASSUME PInv, ProcTypeOK', NEW a, Quiet(a)
  PROVE  Targets'
<1> SUFFICES ASSUME NEW b \in Caller
    PROVE  /\ call'[b].st \in {"found", "stopping", "ending", "unlisting", "saving", "named", "applied",
                               "waiting", "asleep", "listed", "spawned", "stored"} => call'[b].p # 0
           /\ call'[b].st \in {"ending", "unlisting"} => run'[call'[b].p].tracker
  BY DEF Targets
<1>1. CASE b = a
  BY <1>1 DEF Quiet, Own, Making, At
<1>2. CASE b # a
  <2>1. call'[b].st = call[b].st /\ call'[b].p = call[b].p
    BY <1>2 DEF Quiet, Elsewhere
  <2>2. call[b].st \in {"ending", "unlisting"} => call[b].p \in Run /\ call[b].p <= runs
    BY DEF PInv, Targets, ProcTypeOK, CallState, Run, Numbered, Refers
  <2>3. call[b].st \in {"ending", "unlisting"} => run'[call[b].p].tracker
    BY <2>2 DEF PInv, Targets, ProcTypeOK, Quiet, RunsKept, Kept, Loaded
  <2>4. QED
    BY <2>1, <2>3 DEF PInv, Targets
<1>3. QED
  BY <1>1, <1>2

LEMMA QuietStarts ==
  ASSUME PInv, NEW a, Quiet(a)
  PROVE  OneStarts'
<1> SUFFICES ASSUME NEW b \in Caller
    PROVE  /\ Starter(b)' <=> starting' = b
           /\ call'[b].st \in {"listing", "listed", "spawned", "stored"} => Starter(b)'
           /\ call'[b].op = "start" => call'[b].st \in {"listing", "listed", "spawned", "stored"}
           /\ call'[b].op = "replace" => call'[b].st \in {"found", "stopping", "ending", "unlisting",
                                                          "listing", "listed", "spawned", "stored"}
  BY DEF OneStarts
<1>1. CASE b = a
  BY <1>1 DEF Quiet, Own, Making
<1>2. CASE b # a
  BY <1>2 DEF Quiet, Elsewhere, PInv, OneStarts, Starter
<1>3. QED
  BY <1>1, <1>2

LEMMA QuietNumbered ==
  ASSUME PInv, ProcTypeOK', NEW a, Quiet(a)
  PROVE  Numbered'
<1>0. runs \in 0 .. MaxRun /\ runs' \in 0 .. MaxRun /\ runs <= runs'
  BY DEF PInv, ProcTypeOK, Quiet, RunsKept
<1>1. ASSUME NEW i \in Run, live'[i] # 0
      PROVE  run'[live'[i]].id = i /\ live'[i] <= runs'
  <2>1. CASE live'[i] = live[i]
    <3>1. live[i] \in Run /\ run[live[i]].id = i /\ live[i] <= runs
      BY <1>1, <2>1 DEF PInv, Numbered, ProcTypeOK, Run
    <3>2. run'[live[i]].id = run[live[i]].id
      BY <1>0, <3>1 DEF Quiet, RunsKept, Kept, Loaded
    <3>3. QED
      BY <1>0, <2>1, <3>1, <3>2, RunAssumption DEF Run
  <2>2. CASE live'[i] \in Run /\ Loaded(live'[i]) /\ run'[live'[i]].id = i
    BY <1>0, <2>2 DEF Loaded
  <2>3. QED
    BY <1>1, <2>1, <2>2 DEF Quiet, RunsKept
<1>2. ASSUME NEW b \in Caller, NEW p \in Run, Refers(b, p)'
      PROVE  p <= runs'
  <2>1. CASE b = a
    <3>1. p \in Listed => p <= runs
      BY DEF Listed, PInv, Numbered, ProcTypeOK, Run
    <3>2. Refers(a, p) => p <= runs
      BY <2>1 DEF PInv, Numbered
    <3>3. QED
      BY <1>0, <1>2, <2>1, <3>1, <3>2 DEF Quiet, Own, Loaded, Run
  <2>2. CASE b # a
    <3>1. Refers(b, p)
      BY <1>2, <2>2 DEF Quiet, Elsewhere, Refers
    <3>2. QED
      BY <1>0, <3>1 DEF PInv, Numbered, Run
  <2>3. QED
    BY <2>1, <2>2
<1>3. ASSUME NEW p \in Run, p > runs'
      PROVE  run'[p] = NoRun
  BY <1>0, <1>3 DEF Quiet, RunsKept, Kept, Loaded, PInv, Numbered, Run
<1>4. QED
  BY <1>1, <1>2, <1>3 DEF Numbered

LEMMA QuietFresh ==
  ASSUME PInv, ProcTypeOK', NEW a, Quiet(a)
  PROVE  Fresh'
<1> SUFFICES ASSUME NEW b \in Caller, Making(b)',
                    NEW p, p = call'[b].p
             PROVE  /\ \A i \in Run : live'[i] # p
                    /\ \A d \in Caller \ {b} : ~Refers(d, p)'
                    /\ p \notin call'[b].rest
                    /\ call'[b].id \in Run /\ run'[p].pump = "none"
                    /\ call'[b].st = "listed" => run'[p] = NoRun
                    /\ call'[b].st # "listed" => /\ run'[p].id = call'[b].id /\ Running(p)'
                                                /\ run'[p].tracker = call'[b].tracker
  BY DEF Fresh, At, Refers
<1>1. b # a /\ Making(b) /\ call[b].p = p /\ call'[b].rest = call[b].rest
      /\ call'[b].id = call[b].id /\ call'[b].tracker = call[b].tracker /\ call'[b].st = call[b].st
  BY DEF Quiet, Own, Elsewhere, Making
<1>2. p \in Run /\ p <= runs
  BY <1>1 DEF PInv, Targets, Making, Numbered, Refers, ProcTypeOK, CallState, Run
<1>3. ~Kept(a, p) /\ ~Loaded(p)
  BY <1>1, <1>2, RunAssumption DEF Kept, Loaded, PInv, ProcTypeOK, Run
<1>4. run'[p] = run[p]
  BY <1>2, <1>3 DEF Quiet, RunsKept
<1>5. /\ \A i \in Run : live[i] # p
      /\ \A d \in Caller \ {b} : ~Refers(d, p)
      /\ p \notin call[b].rest
      /\ call[b].id \in Run /\ run[p].pump = "none"
      /\ call[b].st = "listed" => run[p] = NoRun
      /\ call[b].st # "listed" => /\ run[p].id = call[b].id /\ Running(p)
                                 /\ run[p].tracker = call[b].tracker
  BY <1>1 DEF PInv, Fresh, At
<1>6. \A i \in Run : live'[i] # p
  <2>1. p # 0
    BY <1>2 DEF Run
  <2>2. QED
    BY <1>3, <1>5, <2>1 DEF Quiet, RunsKept
<1>7. ASSUME NEW d \in Caller \ {b}
      PROVE  ~Refers(d, p)'
  <2>1. CASE d = a
    <3>1. p \notin Listed
      BY <1>5 DEF Listed
    <3>2. QED
      BY <1>2, <1>3, <1>5, <2>1, <3>1 DEF Quiet, Own, Refers
  <2>2. CASE d # a
    BY <1>5, <2>2 DEF Quiet, Elsewhere, Refers
  <2>3. QED
    BY <2>1, <2>2
<1>8. QED
  BY <1>1, <1>4, <1>5, <1>6, <1>7 DEF Running

LEMMA QuietPumped ==
  ASSUME PInv, ProcTypeOK', NEW a, Quiet(a)
  PROVE  Pumped'
<1> SUFFICES ASSUME NEW p \in Run
    PROVE  /\ run'[p].pump = "reading" => Process(p)' /\ run'[p].id \in Run
           /\ Process(p)' => \/ run'[p].pump = "reading"
                            \/ \E b \in Caller : Making(b)' /\ call'[b].p = p
  BY DEF Pumped
<1>1. run'[p] = run[p] \/ Kept(a, p) \/ Loaded(p)
  BY DEF Quiet, RunsKept
<1>2. run'[p].pump = "reading" => Process(p)' /\ run'[p].id \in Run
  BY <1>1 DEF Kept, Loaded, PInv, Pumped, Process, Running
<1>3. ASSUME Process(p)'
      PROVE  \/ run'[p].pump = "reading"
             \/ \E b \in Caller : Making(b)' /\ call'[b].p = p
  <2>1. Process(p) /\ run'[p].pump = run[p].pump
    BY <1>1, <1>3 DEF Kept, Loaded, Process, Running
  <2>2. CASE \E b \in Caller : Making(b) /\ call[b].p = p
    <3>1. PICK b \in Caller : Making(b) /\ call[b].p = p
      BY <2>2
    <3>2. b # a
      BY <1>3, <3>1 DEF Quiet, Own
    <3>3. Making(b)' /\ call'[b].p = p
      BY <3>1, <3>2 DEF Quiet, Elsewhere, Making
    <3>4. QED
      BY <3>3
  <2>3. CASE run[p].pump = "reading"
    BY <2>1, <2>3
  <2>4. QED
    BY <2>1, <2>2, <2>3 DEF PInv, Pumped
<1>4. QED
  BY <1>2, <1>3

(* No step of this kind makes a process: those there are were there. *)
LEMMA QuietMakesNone ==
  ASSUME PInv, NEW a, Quiet(a)
  PROVE  \A p \in Run : Process(p)' => Process(p) /\ run'[p].pump = run[p].pump /\ run'[p].id = run[p].id
<1> TAKE p \in Run
<1>1. run'[p] = run[p] \/ Kept(a, p) \/ Loaded(p)
  BY DEF Quiet, RunsKept
<1>2. QED
  BY <1>1 DEF Kept, Loaded, Process, Running

LEMMA QuietAlone ==
  ASSUME PInv, ProcTypeOK', NEW a, Quiet(a)
  PROVE  Alone' /\ OneRunning' /\ RunningIsListed'
<1>1. \A p \in Run : Process(p)' => Process(p) /\ run'[p].pump = run[p].pump /\ run'[p].id = run[p].id
  BY QuietMakesNone
<1>2. givenUp \subseteq givenUp'
  BY DEF Quiet, RunsKept
<1>3. ASSUME NEW b \in Caller, NEW p \in Run \ givenUp', Starter(b)', Process(p)'
      PROVE  call'[b].p = p /\ call'[b].st \in {"found", "stopping", "spawned", "stored"}
  <2>1. CASE b = a
    BY <1>3, <2>1 DEF Quiet, Own
  <2>2. CASE b # a
    <3>1. Starter(b) /\ Process(p) /\ p \in Run \ givenUp
      BY <1>1, <1>2, <1>3, <2>2 DEF Quiet, Elsewhere, Starter
    <3>2. QED
      BY <2>2, <3>1 DEF PInv, Alone, Quiet, Elsewhere
  <2>3. QED
    BY <2>1, <2>2
<1>4. OneRunning'
  <2> SUFFICES ASSUME NEW p \in Run \ givenUp', NEW q \in Run \ givenUp', Process(p)', Process(q)'
               PROVE  p = q
    BY DEF OneRunning, Process
  <2>1. Process(p) /\ Process(q) /\ p \in Run \ givenUp /\ q \in Run \ givenUp
    BY <1>1, <1>2
  <2>2. QED
    BY <2>1 DEF PInv, OneRunning, Process
<1>5. RunningIsListed'
  <2> SUFFICES ASSUME NEW p \in Run \ givenUp', Running(p)', run'[p].pump = "reading"
               PROVE  live'[run'[p].id] = p
    BY DEF RunningIsListed
  <2>1. Process(p)'
    BY QuietPumped DEF Pumped
  <2>2. Process(p) /\ run[p].pump = "reading" /\ run'[p].id = run[p].id
    BY <1>1, <2>1
  <2>3. live[run[p].id] = p
    BY <1>2, <2>2 DEF PInv, RunningIsListed, Process
  <2>4. p # 0 /\ run[p].id \in Run
    BY <2>2 DEF Run, PInv, Pumped
  <2>5. QED
    BY <2>2, <2>3, <2>4 DEF Quiet, RunsKept
<1>6. QED
  BY <1>3, <1>4, <1>5 DEF Alone

LEMMA QuietWake ==
  ASSUME PInv, NEW a, Quiet(a)
  PROVE  NoMissedWake'
<1> SUFFICES ASSUME NEW b \in Caller, At(b, "asleep")', Reached(call[b])' \/ ~Running(call[b].p)'
             PROVE  call'[b].woken
  BY DEF NoMissedWake
<1>1. /\ b # a /\ At(b, "asleep") /\ call'[b].p = call[b].p /\ call'[b].until = call[b].until
      /\ call[b].woken => call'[b].woken
  BY DEF Quiet, Own, Elsewhere, At
<1>2. PICK p : p = call[b].p
  OBVIOUS
<1>3. p \in Run /\ p <= runs
  BY <1>1, <1>2 DEF PInv, Targets, At, Numbered, Refers, ProcTypeOK, CallState, Run
<1>4. run'[p] = run[p] \/ Kept(a, p)
  BY <1>3, RunAssumption DEF Quiet, RunsKept, Loaded, PInv, ProcTypeOK, Run
<1>5. CASE run'[p].status = run[p].status /\ run'[p].mark = run[p].mark
  <2>1. Reached(call[b]) \/ ~Running(call[b].p)
    BY <1>1, <1>2, <1>5 DEF Reached, Running
  <2>2. call[b].woken
    BY <1>1, <2>1 DEF PInv, NoMissedWake
  <2>3. QED
    BY <1>1, <2>2
<1>6. CASE Woken(a, p)
  BY <1>1, <1>2, <1>6 DEF Woken
<1>7. QED
  BY <1>4, <1>5, <1>6 DEF Kept

LEMMA QuietStep ==
  ASSUME PInv, ProcTypeOK', NEW a, Quiet(a)
  PROVE  PInv'
  BY QuietTargets, QuietStarts, QuietNumbered, QuietFresh, QuietPumped, QuietAlone, QuietWake DEF PInv

-----------------------------------------------------------------------------
(* The steps that are quiet. *)

LEMMA RunsStay ==
  ASSUME UNCHANGED <<live, run, runs>>, givenUp \subseteq givenUp', NEW a
  PROVE  RunsKept(a)
  BY DEF RunsKept

LEMMA OthersStay ==
  ASSUME PInv, NEW a \in Caller, NEW c, call' = [call EXCEPT ![a] = c],
         \A b \in Caller \ {a} : starting' = b <=> starting = b
  PROVE  Elsewhere(a) /\ call'[a] = c
  BY DEF Elsewhere, PInv, ProcTypeOK

LEMMA OthersWake ==
  ASSUME PInv, NEW a, NEW calls \in [Caller -> CallState], NEW p, call' = Bumped(calls, p),
         \A b \in Caller \ {a} : calls[b] = call[b], starting' = starting
  PROVE  /\ Elsewhere(a) /\ Woken(a, p)
         /\ a \in Caller => /\ call'[a].st = calls[a].st /\ call'[a].p = calls[a].p
                            /\ call'[a].op = calls[a].op /\ call'[a].rest = calls[a].rest
<1>1. ASSUME NEW b \in Caller
      PROVE  /\ call'[b] = IF calls[b].st = "asleep" /\ calls[b].p = p
                           THEN [calls[b] EXCEPT !.woken = TRUE] ELSE calls[b]
             /\ calls[b] \in CallState
  BY DEF Bumped
<1>2. ASSUME NEW b \in Caller
      PROVE  /\ call'[b].op = calls[b].op /\ call'[b].p = calls[b].p /\ call'[b].id = calls[b].id
             /\ call'[b].tracker = calls[b].tracker /\ call'[b].until = calls[b].until
             /\ call'[b].rest = calls[b].rest /\ call'[b].st = calls[b].st
             /\ calls[b].woken => call'[b].woken
             /\ calls[b].st = "asleep" /\ calls[b].p = p => call'[b].woken
  <2>1. CASE calls[b].st = "asleep" /\ calls[b].p = p
    <3>1. call'[b] = [calls[b] EXCEPT !.woken = TRUE]
      BY <1>1, <2>1
    <3>2. QED
      BY <1>1, <3>1 DEF CallState
  <2>2. CASE ~(calls[b].st = "asleep" /\ calls[b].p = p)
    <3>1. call'[b] = calls[b]
      BY <1>1, <2>2
    <3>2. QED
      BY <2>2, <3>1
  <2>3. QED
    BY <2>1, <2>2
<1>3. Elsewhere(a)
  BY <1>2 DEF Elsewhere
<1>4. Woken(a, p)
  BY <1>2 DEF Woken, At
<1>5. QED
  BY <1>2, <1>3, <1>4

LEMMA AfterStopGoes ==
  ASSUME NEW c \in CallState, NEW d, d = AfterStop(c)
  PROVE  /\ c.op = "replace" => d.op = "replace" /\ d.st = "listing"
         /\ c.op # "replace" => d.st \in {"deleting", "found", "finished"} /\ d.op \in {c.op, "none"}
         /\ d.st = "found" => d.p # 0
         /\ d.p \in {0, c.p} \cup c.rest /\ d.rest \subseteq c.rest
<1>1. CASE c.op = "replace"
  <2>1. d = [c EXCEPT !.st = "listing"]
    BY <1>1 DEF AfterStop
  <2>2. QED
    BY <1>1, <2>1 DEF CallState
<1>2. CASE c.op = "remove"
  <2>1. d = [c EXCEPT !.st = "deleting"]
    BY <1>2 DEF AfterStop
  <2>2. QED
    BY <1>2, <2>1 DEF CallState
<1>3. CASE c.op \notin {"replace", "remove"} /\ c.rest # {}
  <2> DEFINE p == CHOOSE q \in c.rest : TRUE
  <2>1. p \in c.rest /\ p # 0
    BY <1>3 DEF CallState, Run
  <2>2. d = [c EXCEPT !.st = "found", !.p = p, !.rest = @ \ {p}]
    BY <1>3 DEF AfterStop
  <2> HIDE DEF p
  <2>3. d.st = "found" /\ d.p = p /\ d.rest = c.rest \ {p} /\ d.op = c.op
    BY <2>2 DEF CallState
  <2>4. QED
    BY <1>3, <2>1, <2>3
<1>4. CASE c.op \notin {"replace", "remove"} /\ c.rest = {}
  <2>1. d = NoCall("finished")
    BY <1>4 DEF AfterStop
  <2>2. QED
    BY <1>4, <2>1 DEF NoCall
<1>5. QED
  BY <1>1, <1>2, <1>3, <1>4

(* A call that is over. *)
LEMMA OwnFinishes ==
  ASSUME PInv, NEW a \in Caller, call'[a] = NoCall("finished"), starting' # a,
         \A p \in Run : Making(a) /\ call[a].p = p => ~Process(p)'
  PROVE  Own(a)
<1>1. /\ call'[a].st = "finished" /\ call'[a].op = "none" /\ call'[a].p = 0 /\ call'[a].rest = {}
  BY DEF NoCall
<1>2. ~Making(a)' /\ ~Starter(a)'
  BY <1>1 DEF Making, Starter
<1>3. \A p \in Run : ~Refers(a, p)'
  BY <1>1 DEF Refers, Run
<1>4. QED
  BY <1>1, <1>2, <1>3 DEF Own, At

(* A call that has stopped a run. *)
LEMMA OwnGoesOn ==
  ASSUME PInv, NEW a \in Caller, NEW c \in CallState, call'[a] = AfterStop(c), starting' = starting,
         Starter(a) <=> c.op = "replace", c.op # "start", ~Making(a),
         \A p \in Run : c.p = p \/ p \in c.rest => Refers(a, p) \/ p \in Listed,
         c.op = "replace" => \A p \in Run \ givenUp' : ~Process(p)'
  PROVE  Own(a)
<1>1. /\ c.op = "replace" => call'[a].op = "replace" /\ call'[a].st = "listing"
      /\ c.op # "replace" => /\ call'[a].st \in {"deleting", "found", "finished"}
                             /\ call'[a].op \in {c.op, "none"}
      /\ call'[a].st = "found" => call'[a].p # 0
      /\ call'[a].p \in {0, c.p} \cup c.rest /\ call'[a].rest \subseteq c.rest
  BY AfterStopGoes
<1>2. ~Making(a)' /\ call'[a].st # "asleep" /\ call'[a].op # "start" /\ (Starter(a)' <=> c.op = "replace")
  BY <1>1 DEF Making, Starter
<1>3. \A p \in Run : Refers(a, p)' => Refers(a, p) \/ p \in Listed
  BY <1>1 DEF Refers, Run
<1>4. Starter(a)' <=> starting' = a
  BY <1>2 DEF PInv, OneStarts
<1>5. QED
  BY <1>1, <1>2, <1>3, <1>4 DEF Own, At

(* A call that is no Start. *)
LEMMA OwnOther ==
  ASSUME PInv, NEW a \in Caller, ~Starter(a), starting' = starting,
         call'[a].op \notin {"start", "replace"},
         call'[a].st \in {"found", "stopping", "ending", "unlisting", "saving", "named", "applied",
                          "waiting", "asleep", "deleting"},
         call'[a].st # "deleting" => call'[a].p # 0,
         call'[a].st \in {"ending", "unlisting"} => run'[call'[a].p].tracker,
         call'[a].st = "asleep" => ~Reached(call[a])' /\ Running(call[a].p)',
         \A p \in Run : Refers(a, p)' => Refers(a, p) \/ p \in Listed \/ Loaded(p)
  PROVE  Own(a)
<1>1. ~Starter(a)' /\ ~Making(a)' /\ starting' # a /\ ~Making(a)
  BY DEF PInv, OneStarts, Starter, Making
<1>2. QED
  BY <1>1 DEF Own, At

LEMMA RunsBut ==
  ASSUME NEW a, NEW p \in Run, Kept(a, p), \A q \in Run \ {p} : run'[q] = run[q],
         \A i \in Run : live'[i] = live[i] \/ (live'[i] = 0 /\ live[i] = p),
         run[p].pump = "reading" => live' = live,
         runs' = runs, givenUp \subseteq givenUp'
  PROVE  RunsKept(a)
  BY DEF RunsKept

(* A run that somebody is not making, and that was made. *)
LEMMA RefersMade ==
  ASSUME PInv, NEW a \in Caller, ~Making(a), NEW p \in Run, Refers(a, p)
  PROVE  p <= runs /\ \A b \in Caller : Making(b) => call[b].p # p
  BY DEF PInv, Numbered, Fresh

LEMMA PumpMade ==
  ASSUME PInv, NEW p \in Run, run[p].pump # "none"
  PROVE  /\ p <= runs /\ \A b \in Caller : Making(b) => call[b].p # p
         /\ run[p].pump # "reading" => ~Process(p)
         /\ run[p].pump = "reading" => Process(p)
<1>1. p <= runs
  <2>1. p > runs => run[p].pump = "none"
    BY DEF PInv, Numbered, NoRun
  <2>2. QED
    BY <2>1 DEF PInv, ProcTypeOK, Run
<1>2. \A b \in Caller : Making(b) => call[b].p # p
  BY DEF PInv, Fresh
<1>3. QED
  BY <1>1, <1>2 DEF PInv, Pumped

LEMMA QuietPump ==
  ASSUME PInv, NEW p \in Run, FinishEnds(p) \/ FinishSaves(p) \/ FinishUnlists(p) \/ OutputReaches(p)
  PROVE  Quiet(Nobody)
<1>0. /\ Nobody \notin Caller /\ run[p] \in RunState /\ ProcTypeOK
      /\ p <= runs /\ \A b \in Caller : Making(b) => call[b].p # p
      /\ run[p].pump # "reading" => ~Process(p)
      /\ run[p].pump = "reading" => Process(p)
  BY PumpMade, RunAssumption DEF PInv, ProcTypeOK, FinishEnds, FinishSaves, FinishUnlists, OutputReaches
<1>1. Own(Nobody)
  BY <1>0 DEF Own
<1>2. CASE FinishEnds(p) \/ OutputReaches(p)
  <2>1. Elsewhere(Nobody) /\ Woken(Nobody, p)
    <3>1. call \in [Caller -> CallState] /\ call' = Bumped(call, p) /\ starting' = starting
      BY <1>0, <1>2 DEF FinishEnds, OutputReaches, ProcTypeOK
    <3>2. QED
      BY <3>1, OthersWake
  <2>2. /\ run'[p].id = run[p].id /\ run'[p].tracker = run[p].tracker
        /\ \/ run'[p].status \in {"stopped", "exited"} /\ run'[p].pump = "saving"
           \/ run'[p].status = run[p].status /\ run'[p].pump = run[p].pump /\ run[p].pump = "reading"
        /\ \A q \in Run \ {p} : run'[q] = run[q]
    BY <1>0, <1>2 DEF FinishEnds, OutputReaches, ProcTypeOK, RunState
  <2>3. Kept(Nobody, p)
    BY <1>0, <2>1, <2>2 DEF Kept, Process, Running
  <2>4. RunsKept(Nobody)
    BY <1>2, <2>2, <2>3, RunsBut DEF FinishEnds, OutputReaches
  <2>5. QED
    BY <1>1, <2>1, <2>4 DEF Quiet
<1>3. CASE FinishSaves(p) \/ FinishUnlists(p)
  <2>1. Elsewhere(Nobody)
    BY <1>0, <1>3 DEF Elsewhere, FinishSaves, FinishUnlists
  <2>2. /\ run'[p].id = run[p].id /\ run'[p].tracker = run[p].tracker
        /\ run'[p].status = run[p].status /\ run'[p].mark = run[p].mark
        /\ run'[p].pump \in {"unlisting", "over"}
        /\ \A q \in Run \ {p} : run'[q] = run[q]
    BY <1>0, <1>3 DEF FinishSaves, FinishUnlists, ProcTypeOK, RunState
  <2>3. run[p].pump # "reading"
    BY <1>3 DEF FinishSaves, FinishUnlists
  <2>4. Kept(Nobody, p)
    BY <1>0, <2>2, <2>3 DEF Kept, Process, Running
  <2>5. \A i \in Run : live'[i] = live[i] \/ (live'[i] = 0 /\ live[i] = p)
    BY <1>0, <1>3, UnlistType DEF FinishSaves, FinishUnlists
  <2>6. RunsKept(Nobody)
    BY <1>3, <2>2, <2>3, <2>4, <2>5, RunsBut DEF FinishSaves, FinishUnlists
  <2>7. QED
    BY <1>1, <2>1, <2>6 DEF Quiet
<1>4. QED
  BY <1>2, <1>3

LEMMA ListedMade ==
  ASSUME PInv, NEW p \in Listed
  PROVE  p \in Run /\ p <= runs
  BY DEF Listed, PInv, Numbered, ProcTypeOK, Run

LEMMA QuietStop ==
  ASSUME PInv, NEW a \in Caller,
         \/ \E op \in Op, id \in Run : StopById(a, op, id)
         \/ \E op \in Op : StopAll(a, op)
         \/ StopSavesTracker(a) \/ SaveTakes(a) \/ SaveWrites(a)
         \/ \E id \in Run, until \in {"exit", "mark"} : WaitBegins(a, id, until)
         \/ WaitLooks(a) \/ WaitWakes(a) \/ WaitTimesOut(a) \/ RemoveDeletes(a)
  PROVE  Quiet(a)
<1> DEFINE c == call[a]
<1>0. /\ ProcTypeOK /\ c \in CallState /\ a # Nobody
      /\ UNCHANGED <<live, run, runs, givenUp, starting>> /\ ~Making(a)
      /\ (Starter(a) => c.st \in {"found", "stopping", "ending", "unlisting",
                                   "listing", "listed", "spawned", "stored"})
      /\ (Starter(a) <=> starting = a)
  BY RunAssumption DEF PInv, ProcTypeOK, OneStarts, Starter, Making, At, StopById, StopAll, StopSavesTracker, SaveTakes,
        SaveWrites, WaitBegins, WaitLooks, WaitWakes, WaitTimesOut, RemoveDeletes
<1>1. RunsKept(a)
  BY <1>0, RunsStay
<1>2. SUFFICES Elsewhere(a) /\ Own(a)
  BY <1>1 DEF Quiet
<1>3. \A d : call' = [call EXCEPT ![a] = d] => Elsewhere(a) /\ call'[a] = d
  BY <1>0, OthersStay
<1>4. ASSUME Finishes(a), ~Starter(a)
      PROVE  Elsewhere(a) /\ Own(a)
  <2>1. Elsewhere(a) /\ call'[a] = NoCall("finished")
    BY <1>3, <1>4 DEF Finishes
  <2>2. QED
    BY <1>0, <1>4, <2>1, OwnFinishes
<1>5. ASSUME NEW op \in Op, NEW id \in Run, StopById(a, op, id)
      PROVE  Elsewhere(a) /\ Own(a)
  <2>0. ~Starter(a)
    BY <1>0, <1>5 DEF StopById, At
  <2>1. CASE Finishes(a)
    BY <1>4, <2>0, <2>1
  <2>2. CASE ~Finishes(a)
    <3> DEFINE d == [c EXCEPT !.op = op, !.p = live[id], !.id = id,
                              !.st = IF live[id] # 0 THEN "found" ELSE "deleting"]
    <3>1. call' = [call EXCEPT ![a] = d]
      BY <1>5, <2>2 DEF StopById
    <3>2. Elsewhere(a) /\ call'[a] = d
      BY <1>3, <3>1
    <3>3. /\ d.op = op /\ d.p = live[id] /\ d.st = (IF live[id] # 0 THEN "found" ELSE "deleting")
          /\ d.rest = c.rest
      BY <1>0 DEF CallState
    <3>4. op \notin {"start", "replace"}
      BY <1>5 DEF StopById
    <3>5. \A p \in Run : p = live[id] => p \in Listed
      BY DEF Listed, Run
    <3> HIDE DEF d
    <3>6. Own(a)
      BY <1>0, <2>0, <3>2, <3>3, <3>4, <3>5, OwnOther DEF Refers
    <3>7. QED
      BY <3>2, <3>6
  <2>3. QED
    BY <2>1, <2>2
<1>6. ASSUME NEW op \in Op, StopAll(a, op)
      PROVE  Elsewhere(a) /\ Own(a)
  <2>0. ~Starter(a) /\ op \notin {"start", "replace"}
    BY <1>0, <1>6 DEF StopAll, At
  <2> DEFINE d == [c EXCEPT !.op = op, !.rest = Listed]
  <2>1. Listed \subseteq Run
    BY <1>0 DEF Listed, ProcTypeOK, Run
  <2>2. d \in CallState /\ d.op = op /\ d.rest = Listed /\ d.p = c.p
    BY <1>0, <2>1 DEF CallState
  <2>3. call' = [call EXCEPT ![a] = AfterStop(d)]
    BY <1>0, <1>6 DEF StopAll, ProcTypeOK
  <2> HIDE DEF d
  <2>4. Elsewhere(a) /\ call'[a] = AfterStop(d)
    BY <1>3, <2>3
  <2>5. \A p \in Run : d.p = p \/ p \in d.rest => Refers(a, p) \/ p \in Listed
    BY <2>2 DEF Refers
  <2>6. Own(a)
    BY <1>0, <2>0, <2>2, <2>4, <2>5, OwnGoesOn
  <2>7. QED
    BY <2>4, <2>6
<1>7. CASE StopSavesTracker(a) \/ SaveTakes(a)
  <2> DEFINE d == [c EXCEPT !.st = "saving", !.status = run[c.p].status]
  <2>1. Elsewhere(a) /\ call'[a] = d
    BY <1>0, <1>3, <1>7 DEF StopSavesTracker, SaveTakes, ProcTypeOK
  <2>2. d.st = "saving" /\ d.op = c.op /\ d.p = c.p /\ d.rest = c.rest
    BY <1>0 DEF CallState
  <2>3. ~Starter(a) /\ c.p # 0
    BY <1>0, <1>7 DEF StopSavesTracker, SaveTakes, ByDaemon, Starter, At, PInv, Targets
  <2> HIDE DEF d
  <2>4. Own(a)
    BY <1>0, <2>1, <2>2, <2>3, OwnOther DEF Refers, Starter
  <2>5. QED
    BY <2>1, <2>4
<1>8. CASE SaveWrites(a)
  <2>1. call' = [call EXCEPT ![a] = AfterStop(c)]
    BY <1>0, <1>8 DEF SaveWrites, ProcTypeOK
  <2>2. Elsewhere(a) /\ call'[a] = AfterStop(c)
    BY <1>3, <2>1
  <2>3. ~Starter(a)
    BY <1>0, <1>8 DEF SaveWrites, At
  <2>4. \A p \in Run : c.p = p \/ p \in c.rest => Refers(a, p) \/ p \in Listed
    BY DEF Refers
  <2>5. Own(a)
    BY <1>0, <2>2, <2>3, <2>4, OwnGoesOn DEF Starter
  <2>6. QED
    BY <2>2, <2>5
<1>9. ASSUME NEW id \in Run, NEW until \in {"exit", "mark"}, WaitBegins(a, id, until)
      PROVE  Elsewhere(a) /\ Own(a)
  <2> DEFINE d == [c EXCEPT !.op = "wait", !.p = live[id], !.until = until, !.st = "waiting"]
  <2>1. Elsewhere(a) /\ call'[a] = d
    BY <1>0, <1>3, <1>9 DEF WaitBegins, ProcTypeOK
  <2>2. d.st = "waiting" /\ d.op = "wait" /\ d.p = live[id] /\ d.rest = c.rest
    BY <1>0 DEF CallState
  <2>3. ~Starter(a) /\ live[id] # 0
    BY <1>0, <1>9 DEF WaitBegins, At
  <2>4. \A p \in Run : p = live[id] => p \in Listed
    BY DEF Listed, Run
  <2> HIDE DEF d
  <2>5. Own(a)
    BY <1>0, <2>1, <2>2, <2>3, <2>4, OwnOther DEF Refers
  <2>6. QED
    BY <2>1, <2>5
<1>10. CASE WaitLooks(a) \/ WaitWakes(a) \/ WaitTimesOut(a) \/ RemoveDeletes(a)
  <2>0. ~Starter(a)
    BY <1>0, <1>10 DEF WaitLooks, WaitWakes, WaitTimesOut, RemoveDeletes, At
  <2>1. CASE Finishes(a)
    BY <1>4, <2>0, <2>1
  <2>2. CASE WaitLooks(a) /\ ~Finishes(a)
    <3> DEFINE d == [c EXCEPT !.st = "asleep", !.woken = FALSE]
    <3>1. Elsewhere(a) /\ call'[a] = d
      BY <1>0, <1>3, <2>2 DEF WaitLooks, ProcTypeOK
    <3>2. d.st = "asleep" /\ d.op = c.op /\ d.p = c.p /\ d.rest = c.rest /\ d.until = c.until
      BY <1>0 DEF CallState
    <3>3. ~Reached(c) /\ Running(c.p) /\ c.p # 0
      BY <2>2 DEF WaitLooks, At, PInv, Targets
    <3> HIDE DEF d
    <3>4. ~Reached(call[a])' /\ Running(call[a].p)'
      BY <1>0, <3>1, <3>2, <3>3 DEF Reached, Running
    <3>5. Own(a)
      BY <1>0, <2>0, <3>1, <3>2, <3>3, <3>4, OwnOther DEF Refers, Starter
    <3>6. QED
      BY <3>1, <3>5
  <2>3. CASE WaitWakes(a)
    <3> DEFINE d == [c EXCEPT !.st = "waiting"]
    <3>1. Elsewhere(a) /\ call'[a] = d
      BY <1>0, <1>3, <2>3 DEF WaitWakes, GoesTo, ProcTypeOK
    <3>2. d.st = "waiting" /\ d.op = c.op /\ d.p = c.p /\ d.rest = c.rest
      BY <1>0 DEF CallState
    <3>3. c.p # 0
      BY <2>3 DEF WaitWakes, At, PInv, Targets
    <3> HIDE DEF d
    <3>4. Own(a)
      BY <1>0, <2>0, <3>1, <3>2, <3>3, OwnOther DEF Refers, Starter
    <3>5. QED
      BY <3>1, <3>4
  <2>4. QED
    BY <1>10, <2>1, <2>2, <2>3 DEF WaitTimesOut, RemoveDeletes
<1>11. QED
  BY <1>5, <1>6, <1>7, <1>8, <1>9, <1>10

LEMMA QuietEnds ==
  ASSUME PInv, NEW a \in Caller, NEW p, p = call[a].p,
         \/ EndsTracker(a) \/ TrackerSaved(a) \/ TrackerUnlisted(a)
         \/ SignalsProcess(a) \/ StopReturns(a) \/ ReportApplies(a)
  PROVE  Quiet(a)
<1> DEFINE c == call[a]
<1>0. /\ ProcTypeOK /\ c \in CallState /\ a # Nobody /\ runs' = runs /\ starting' = starting
      /\ ~Making(a) /\ p \in Run /\ givenUp \subseteq givenUp'
      /\ (Starter(a) <=> starting = a) /\ c.op # "start"
      /\ c.op \in {"start", "replace"} <=> Starter(a)
  BY RunAssumption DEF PInv, ProcTypeOK, CallState, Run, OneStarts, Targets, Starter, Making, At, EndsTracker, TrackerSaved,
        TrackerUnlisted, SignalsProcess, StopReturns, ReportApplies
<1>1. p <= runs /\ (\A b \in Caller : Making(b) => call[b].p # p)
  BY <1>0, RefersMade DEF Refers
<1>2. run[p] \in RunState /\ (run[p].tracker => ~Process(p) /\ run[p].pump # "reading")
  BY <1>0 DEF PInv, ProcTypeOK, Pumped, Process
<1>3. \A d : call' = [call EXCEPT ![a] = d] => Elsewhere(a) /\ call'[a] = d
  BY <1>0, OthersStay
<1>4. \A q \in Run : c.p = q \/ q \in c.rest => Refers(a, q) \/ q \in Listed
  BY DEF Refers
(* While a run is being replaced, it is the only process. *)
<1>5. \A q \in Run \ givenUp : Starter(a) /\ Process(q) => q = p
  BY DEF PInv, Alone
<1>6. CASE EndsTracker(a) /\ Running(p)
  <2> DEFINE calls == [call EXCEPT ![a].st = "ending"]
  <2>1. calls \in [Caller -> CallState]
    <3>1. [c EXCEPT !.st = "ending"] \in CallState
      BY <1>0 DEF CallState
    <3>2. QED
      BY <1>0, <3>1 DEF ProcTypeOK
  <2>2. call' = Bumped(calls, p) /\ \A b \in Caller \ {a} : calls[b] = call[b]
    BY <1>0, <1>6 DEF EndsTracker, ProcTypeOK
  <2>3. /\ calls[a].st = "ending" /\ calls[a].p = p /\ calls[a].op = c.op /\ calls[a].rest = c.rest
    BY <1>0 DEF ProcTypeOK, CallState
  <2> HIDE DEF calls
  <2>4. /\ Elsewhere(a) /\ Woken(a, p)
        /\ call'[a].st = "ending" /\ call'[a].p = p /\ call'[a].op = c.op /\ call'[a].rest = c.rest
    BY <1>0, <2>1, <2>2, <2>3, OthersWake
  <2>5. /\ run'[p].id = run[p].id /\ run'[p].tracker = run[p].tracker /\ run[p].tracker
        /\ run'[p].pump = run[p].pump /\ run'[p].status \in {"done", "stopped"}
        /\ \A q \in Run \ {p} : run'[q] = run[q]
    <3>1. run' = [run EXCEPT ![p].status = IF c.op = "done" THEN "done" ELSE "stopped"] /\ run[p].tracker
      BY <1>6 DEF EndsTracker
    <3>2. QED
      BY <1>0, <1>2, <3>1 DEF ProcTypeOK, RunState
  <2>6. ~Process(p)' /\ UNCHANGED <<live, givenUp>>
    BY <1>6, <2>5 DEF Process, Running, EndsTracker
  <2>7. Kept(a, p)
    BY <1>1, <1>2, <2>4, <2>5, <2>6 DEF Kept
  <2>8. RunsKept(a)
    BY <1>0, <2>5, <2>6, <2>7, RunsBut
  <2>9. \A q \in Run \ givenUp' : Starter(a)' => ~Process(q)'
    <3>1. \A q \in Run \ {p} : Process(q)' => Process(q)
      BY <2>5 DEF Process, Running
    <3>2. QED
      BY <1>5, <2>4, <2>6, <3>1 DEF Starter
  <2>10. Own(a)
    BY <1>0, <2>4, <2>5, <2>9 DEF Own, Making, At, Starter, Refers, Run
  <2>11. QED
    BY <2>4, <2>8, <2>10 DEF Quiet
<1>7. CASE StopReturns(a) \/ TrackerUnlisted(a) \/ (EndsTracker(a) /\ ~Running(p))
  <2>1. call' = [call EXCEPT ![a] = AfterStop(c)] /\ run' = run
    BY <1>0, <1>7 DEF StopReturns, TrackerUnlisted, EndsTracker, ProcTypeOK
  <2>2. Elsewhere(a) /\ call'[a] = AfterStop(c)
    BY <1>3, <2>1
  <2>3. Starter(a) => \A q \in Run \ givenUp' : ~Process(q)'
    <3>1. TrackerUnlisted(a) => ~Process(p)
      BY <1>2 DEF TrackerUnlisted, PInv, Targets, At
    <3>2. Process(p) => p \in givenUp'
      BY <1>7, <3>1 DEF StopReturns, Process
    <3>3. QED
      BY <1>0, <1>5, <2>1, <3>2 DEF Process, Running
  <2>4. Own(a)
    BY <1>0, <1>4, <2>2, <2>3, OwnGoesOn DEF Starter
  <2>5. RunsKept(a)
    <3>1. CASE TrackerUnlisted(a)
      <4>1. \A i \in Run : live'[i] = live[i] \/ (live'[i] = 0 /\ live[i] = p)
        BY <1>0, <3>1, UnlistType DEF TrackerUnlisted
      <4>2. run[p].pump # "reading"
        BY <1>2, <3>1 DEF TrackerUnlisted, PInv, Targets, At
      <4>3. QED
        BY <1>0, <2>1, <4>1, <4>2 DEF RunsKept
    <3>2. CASE ~TrackerUnlisted(a)
      BY <1>0, <1>7, <2>1, <3>2, RunsStay DEF StopReturns, EndsTracker
    <3>3. QED
      BY <3>1, <3>2
  <2>6. QED
    BY <2>2, <2>4, <2>5 DEF Quiet
<1>8. CASE TrackerSaved(a)
  <2> DEFINE d == [c EXCEPT !.st = "unlisting"]
  <2>1. Elsewhere(a) /\ call'[a] = d
    BY <1>0, <1>3, <1>8 DEF TrackerSaved, GoesTo, ProcTypeOK
  <2>2. d.st = "unlisting" /\ d.op = c.op /\ d.p = c.p /\ d.rest = c.rest
    BY <1>0 DEF CallState
  <2>3. run[p].tracker /\ UNCHANGED <<live, run, givenUp>>
    BY <1>8 DEF TrackerSaved, PInv, Targets, At
  <2> HIDE DEF d
  <2>4. \A q \in Run \ givenUp' : Starter(a) => ~Process(q)'
    BY <1>2, <1>5, <2>3 DEF Process, Running
  <2>5. Own(a)
    BY <1>0, <2>1, <2>2, <2>3, <2>4 DEF Own, Making, At, Starter, Refers, Run
  <2>6. QED
    BY <1>0, <2>1, <2>3, <2>5, RunsStay DEF Quiet
<1>9. CASE SignalsProcess(a)
  <2> DEFINE d == [c EXCEPT !.st = "stopping"]
  <2>1. Elsewhere(a) /\ call'[a] = d
    BY <1>0, <1>3, <1>9 DEF SignalsProcess, GoesTo, ProcTypeOK
  <2>2. d.st = "stopping" /\ d.op = c.op /\ d.p = c.p /\ d.rest = c.rest
    BY <1>0 DEF CallState
  <2> HIDE DEF d
  <2>3. /\ run'[p].id = run[p].id /\ run'[p].tracker = run[p].tracker /\ run'[p].pump = run[p].pump
        /\ run'[p].status = run[p].status /\ run'[p].mark = run[p].mark
        /\ \A q \in Run \ {p} : run'[q] = run[q]
    BY <1>0, <1>2, <1>9 DEF SignalsProcess, ProcTypeOK, RunState
  <2>4. UNCHANGED <<live, givenUp>> /\ \A q \in Run : Process(q)' <=> Process(q)
    BY <1>9, <2>3 DEF SignalsProcess, Process, Running
  <2>5. Kept(a, p)
    <3>1. run[p].pump = "reading" => Process(p)
      BY <1>0 DEF PInv, Pumped
    <3>2. QED
      BY <1>0, <1>1, <2>3, <2>4, <3>1 DEF Kept
  <2>6. RunsKept(a)
    BY <1>0, <2>3, <2>4, <2>5, RunsBut
  <2>7. Own(a)
    BY <1>0, <1>5, <2>1, <2>2, <2>4 DEF Own, Making, At, Starter, Refers, Run
  <2>8. QED
    BY <2>1, <2>6, <2>7 DEF Quiet
<1>10. CASE ReportApplies(a)
  <2> DEFINE st == IF c.op = "done" THEN "found" ELSE "applied"
             d == IF ~run[p].tracker THEN NoCall("finished") ELSE [c EXCEPT !.st = st]
             calls == [call EXCEPT ![a] = d]
  <2>0. ~Starter(a)
    BY <1>10 DEF ReportApplies, At, PInv, OneStarts, Starter
  <2>1. d \in CallState
    BY <1>0, NoCallType DEF CallState
  <2>2. call' = Bumped(calls, p)
    BY <1>0, <1>10 DEF ReportApplies, ProcTypeOK
  <2>3. \/ d.st \in {"found", "applied"} /\ d.p = p /\ d.op = c.op /\ d.rest = c.rest
        \/ d.st = "finished" /\ d.p = 0 /\ d.op = "none" /\ d.rest = {}
    BY <1>0 DEF CallState, NoCall
  <2> HIDE DEF d
  <2>4. calls \in [Caller -> CallState] /\ calls[a] = d /\ \A b \in Caller \ {a} : calls[b] = call[b]
    BY <1>0, <2>1 DEF ProcTypeOK
  <2> HIDE DEF calls
  <2>5. /\ Elsewhere(a) /\ Woken(a, p) /\ call'[a].st = d.st /\ call'[a].p = d.p
        /\ call'[a].op = d.op /\ call'[a].rest = d.rest
    BY <1>0, <2>1, <2>2, <2>4, OthersWake
  <2>6. /\ run'[p].id = run[p].id /\ run'[p].tracker = run[p].tracker /\ run'[p].pump = run[p].pump
        /\ run'[p].status = run[p].status
        /\ \A q \in Run \ {p} : run'[q] = run[q]
    BY <1>0, <1>2, <1>10 DEF ReportApplies, ProcTypeOK, RunState
  <2>7. UNCHANGED <<live, givenUp>> /\ \A q \in Run : Process(q)' <=> Process(q)
    BY <1>10, <2>6 DEF ReportApplies, Process, Running
  <2>8. Kept(a, p)
    <3>1. run[p].pump = "reading" => Process(p)
      BY <1>0 DEF PInv, Pumped
    <3>2. QED
      BY <1>0, <1>1, <2>5, <2>6, <2>7, <3>1 DEF Kept
  <2>9. RunsKept(a)
    BY <1>0, <2>6, <2>7, <2>8, RunsBut
  <2>10. Own(a)
    BY <1>0, <2>0, <2>3, <2>5 DEF Own, Making, At, Starter, Refers, Run
  <2>11. QED
    BY <2>5, <2>9, <2>10 DEF Quiet
<1>11. QED
  BY <1>6, <1>7, <1>8, <1>9, <1>10

(* What byName finds, loaded if it has to be. *)
LEMMA NamedRuns ==
  ASSUME PInv, NEW a, NEW p \in ByName, LoadTracker(p), givenUp \subseteq givenUp'
  PROVE  /\ RunsKept(a) /\ (p \in Run => p \in Listed \/ Loaded(p)) /\ p \in 0 .. MaxRun
         /\ \A q \in Run : Process(q)' => Process(q)
<1>1. /\ p \in 0 .. MaxRun /\ ProcTypeOK /\ runs \in 0 .. MaxRun
      /\ \/ p = 0 \/ p \in Listed
         \/ p = runs + 1 /\ p \in Run /\ prow.id \in Run /\ live[prow.id] = 0
  BY ByNameFinds DEF PInv, ProcTypeOK
<1>2. CASE p <= runs
  <2>1. UNCHANGED <<live, run, runs>>
    BY <1>2 DEF LoadTracker
  <2>2. p \in Run => p \in Listed
    BY <1>1, <1>2 DEF Run
  <2>3. QED
    BY <1>1, <2>1, <2>2, RunsStay DEF Process, Running
<1>3. CASE ~(p <= runs)
  <2>1. p = runs + 1 /\ p \in Run /\ prow.id \in Run /\ live[prow.id] = 0
    BY <1>1, <1>3, ListedMade, RunAssumption
  <2>2. /\ runs' = p
        /\ run' = [run EXCEPT ![p] = [NoRun EXCEPT !.id = prow.id, !.tracker = TRUE, !.status = "running"]]
        /\ live' = [live EXCEPT ![prow.id] = p]
    BY <1>3 DEF LoadTracker
  <2>3. /\ run'[p].id = prow.id /\ run'[p].tracker /\ run'[p].pump = "none"
        /\ \A q \in Run \ {p} : run'[q] = run[q]
    BY <1>1, <2>1, <2>2 DEF ProcTypeOK, NoRun
  <2>4. Loaded(p)
    BY <2>1, <2>2, <2>3 DEF Loaded
  <2>5. RunsKept(a)
    BY <1>1, <2>1, <2>2, <2>3, <2>4 DEF RunsKept, ProcTypeOK
  <2>6. QED
    BY <1>1, <2>3, <2>4, <2>5 DEF Process, Running
<1>4. QED
  BY <1>2, <1>3

LEMMA QuietNamed ==
  ASSUME PInv, NEW a \in Caller,
         \/ \E op \in Op, tracker \in BOOLEAN : StartNamed(a, op, tracker)
         \/ \E op \in Op : ReportNamed(a, op)
  PROVE  Quiet(a)
<1> DEFINE c == call[a]
<1>0. /\ ProcTypeOK /\ c \in CallState /\ a # Nobody /\ ~Starter(a) /\ ~Making(a) /\ starting # a
  BY RunAssumption DEF PInv, ProcTypeOK, StartNamed, ReportNamed, At, OneStarts, Starter, Making
<1>1. ASSUME NEW op \in Op, ReportNamed(a, op)
      PROVE  Quiet(a)
  <2>1. PICK p \in ByName :
          /\ LoadTracker(p)
          /\ IF p = 0 THEN Finishes(a)
             ELSE call' = [call EXCEPT ![a] = [c EXCEPT !.op = op, !.p = p, !.st = "named"]]
    BY <1>0, <1>1 DEF ReportNamed, ProcTypeOK
  <2>2. UNCHANGED <<starting, givenUp>> /\ op \notin {"start", "replace"}
    BY <1>1 DEF ReportNamed
  <2>3. RunsKept(a) /\ (p \in Run => p \in Listed \/ Loaded(p))
    BY <2>1, <2>2, NamedRuns
  <2>4. CASE p = 0
    <3>1. Elsewhere(a) /\ call'[a] = NoCall("finished")
      BY <1>0, <2>1, <2>2, <2>4, OthersStay DEF Finishes
    <3>2. QED
      BY <1>0, <2>2, <2>3, <3>1, OwnFinishes DEF Quiet
  <2>5. CASE p # 0
    <3> DEFINE d == [c EXCEPT !.op = op, !.p = p, !.st = "named"]
    <3>1. Elsewhere(a) /\ call'[a] = d
      BY <2>1, <2>2, <2>5, OthersStay
    <3>2. d.st = "named" /\ d.op = op /\ d.p = p /\ d.rest = c.rest
      BY <1>0 DEF CallState
    <3> HIDE DEF d
    <3>3. Own(a)
      BY <1>0, <2>2, <2>3, <2>5, <3>1, <3>2, OwnOther DEF Refers
    <3>4. QED
      BY <2>3, <3>1, <3>3 DEF Quiet
  <2>6. QED
    BY <2>4, <2>5
<1>2. ASSUME NEW op \in Op, NEW tracker \in BOOLEAN, StartNamed(a, op, tracker)
      PROVE  Quiet(a)
  <2>1. PICK p \in ByName :
          /\ LoadTracker(p)
          /\ \/ Finishes(a) /\ UNCHANGED <<starting, givenUp>>
             \/ /\ Begun(a, op, tracker, p) /\ starting' = a /\ Overlooks(p)
                /\ p # 0 => op = "replace"
    BY <1>2 DEF StartNamed
  <2>2. starting = Nobody /\ op \in {"start", "replace"} /\ givenUp \subseteq givenUp'
    BY <1>2, <2>1 DEF StartNamed, Overlooks
  <2>3. /\ RunsKept(a) /\ (p \in Run => p \in Listed \/ Loaded(p))
        /\ \A q \in Run : Process(q)' => Process(q)
    BY <2>1, <2>2, NamedRuns
  <2>4. CASE Finishes(a) /\ UNCHANGED <<starting, givenUp>>
    <3>1. Elsewhere(a) /\ call'[a] = NoCall("finished")
      BY <2>4, OthersStay DEF Finishes
    <3>2. QED
      BY <1>0, <2>3, <2>4, <3>1, OwnFinishes DEF Quiet
  <2>5. CASE Begun(a, op, tracker, p) /\ starting' = a /\ Overlooks(p) /\ (p # 0 => op = "replace")
    <3> DEFINE d == [c EXCEPT !.op = op, !.tracker = tracker, !.p = p, !.st = IF p = 0 THEN "listing" ELSE "found"]
    <3>1. \A b \in Caller \ {a} : starting' = b <=> starting = b
      BY <2>2, <2>5, RunAssumption
    <3>2. call' = [call EXCEPT ![a] = d]
      BY <1>0, <2>5 DEF Begun, ProcTypeOK
    <3>3. Elsewhere(a) /\ call'[a] = d
      BY <3>1, <3>2, OthersStay
    <3>4. d.st = (IF p = 0 THEN "listing" ELSE "found") /\ d.op = op /\ d.p = p /\ d.rest = c.rest
      BY <1>0 DEF CallState
    <3> HIDE DEF d
    (* Every process there is has been registered, as no Start is under way. *)
    <3>5. ASSUME NEW q \in Run \ givenUp', Process(q)'
          PROVE  q = p /\ p # 0
      <4>1. Process(q) /\ q \in Run \ givenUp /\ q # 0
        BY <2>2, <2>3, <3>5 DEF Run
      <4>2. ~ \E b \in Caller : Making(b)
        BY <2>2, RunAssumption DEF PInv, OneStarts, Making
      <4>3. run[q].pump = "reading" /\ run[q].id \in Run
        BY <4>1, <4>2 DEF PInv, Pumped
      <4>4. q \in Listed
        BY <4>1, <4>3 DEF PInv, RunningIsListed, Process, Listed
      <4>5. q \in Listed \ {p} => q \in givenUp'
        BY <2>5, <4>1 DEF Overlooks, Process
      <4>6. QED
        BY <3>5, <4>1, <4>4, <4>5
    <3>6. Own(a)
      BY <1>0, <2>2, <2>3, <2>5, <3>3, <3>4, <3>5 DEF Own, Making, At, Starter, Refers
    <3>7. QED
      BY <2>3, <3>3, <3>6 DEF Quiet
  <2>6. QED
    BY <2>1, <2>4, <2>5
<1>3. QED
  BY <1>1, <1>2

(* A Start that ends before its run is registered. *)
LEMMA QuietFails ==
  ASSUME PInv, NEW a \in Caller, NEW p, p = call[a].p, StartFails(a) \/ (StartSpawns(a) /\ shut)
  PROVE  Quiet(a)
<1>1. /\ Making(a) /\ ProcTypeOK /\ p \in Run /\ p <= runs /\ a # Nobody
      /\ starting = a /\ starting' = Nobody /\ Finishes(a) /\ UNCHANGED <<live, runs, givenUp>>
  BY RunAssumption DEF PInv, ProcTypeOK, CallState, Run, Targets, OneStarts, Numbered, Refers, Making, At, StartFails, StartSpawns
<1>2. /\ \A b \in Caller \ {a} : ~Refers(b, p)
      /\ run[p].pump = "none" /\ (At(a, "listed") => run[p] = NoRun)
  BY <1>1 DEF PInv, Fresh
<1>3. Elsewhere(a) /\ call'[a] = NoCall("finished")
  BY <1>1, OthersStay, RunAssumption DEF Finishes
<1>4. RunsKept(a) /\ ~Process(p)'
  <2>1. CASE StartFails(a)
    <3>1. /\ run'[p].id = run[p].id /\ run'[p].tracker = run[p].tracker
          /\ run'[p].status = "failed" /\ run'[p].pump = "over"
          /\ \A q \in Run \ {p} : run'[q] = run[q]
      BY <1>1, <2>1 DEF StartFails, ProcTypeOK, RunState
    <3>2. Woken(a, p)
      BY <1>2 DEF Woken, Refers
    <3>3. Kept(a, p) /\ ~Process(p)'
      BY <1>1, <1>2, <3>1, <3>2 DEF Kept, Process, Running, Refers
    <3>4. QED
      BY <1>1, <3>1, <3>3, RunsBut
  <2>2. CASE StartSpawns(a) /\ shut
    <3>1. run' = run /\ run[p] = NoRun
      BY <1>2, <2>2 DEF StartSpawns
    <3>2. QED
      BY <1>1, <3>1, RunsStay DEF Process, Running, NoRun
  <2>3. QED
    BY <2>1, <2>2
<1>5. Own(a)
  BY <1>1, <1>3, <1>4, OwnFinishes
<1>6. QED
  BY <1>3, <1>4, <1>5 DEF Quiet

-----------------------------------------------------------------------------
(***************************************************************************)
(* The steps in which a Start makes its run. Nobody else is making one.     *)
(***************************************************************************)

(* What holds at each of them, a being the call and d what it becomes. *)
LEMMA StartsAlone ==
  ASSUME PInv, NEW a \in Caller, call[a].st \in {"listing", "listed", "spawned", "stored"}
  PROVE  /\ starting = a /\ Starter(a) /\ a # Nobody /\ ProcTypeOK /\ call[a] \in CallState
         /\ \A b \in Caller \ {a} : ~Starter(b) /\ ~Making(b)
  BY RunAssumption DEF PInv, OneStarts, Making, ProcTypeOK

LEMMA OthersTargets ==
  ASSUME PInv, NEW a \in Caller, \A b \in Caller \ {a} : call'[b] = call[b],
         \A q \in Run : q <= runs => run'[q].tracker = run[q].tracker,
         call'[a].st \in {"listed", "spawned", "stored"} => call'[a].p # 0,
         call'[a].st \in {"listed", "spawned", "stored", "finished"}
  PROVE  Targets'
<1> SUFFICES ASSUME NEW b \in Caller
    PROVE  /\ call'[b].st \in {"found", "stopping", "ending", "unlisting", "saving", "named", "applied",
                               "waiting", "asleep", "listed", "spawned", "stored"} => call'[b].p # 0
           /\ call'[b].st \in {"ending", "unlisting"} => run'[call'[b].p].tracker
  BY DEF Targets
<1>1. call[b].st \in {"ending", "unlisting"} => call[b].p \in Run /\ call[b].p <= runs
  BY DEF PInv, Targets, ProcTypeOK, CallState, Run, Numbered, Refers
<1>2. QED
  BY <1>1 DEF PInv, Targets

LEMMA StepLists ==
  ASSUME PInv, ProcTypeOK', NEW a \in Caller, StartLists(a)
  PROVE  PInv'
<1> DEFINE c == call[a]
<1>0. /\ starting = a /\ Starter(a) /\ a # Nobody /\ ProcTypeOK /\ c \in CallState /\ c.st = "listing"
      /\ \A b \in Caller \ {a} : ~Starter(b) /\ ~Making(b)
  BY StartsAlone DEF StartLists, At
<1>1. /\ runs' = runs + 1 /\ runs \in 0 .. MaxRun /\ runs' \in Run
      /\ UNCHANGED <<prow, live, run, starting, givenUp>>
  BY <1>0, RunAssumption DEF StartLists, ProcTypeOK, Run
<1>2. PICK p : p = runs'
  OBVIOUS
<1>3. /\ call'[a].p = p /\ call'[a].st = "listed" /\ call'[a].op = c.op /\ call'[a].rest = c.rest
      /\ call'[a].id \in Run
      /\ \A b \in Caller \ {a} : call'[b] = call[b]
  <2>1. (IF prow.id = 0 THEN runs' ELSE prow.id) \in Run
    BY <1>0, <1>1 DEF ProcTypeOK, RowState, Id, Run
  <2>2. QED
    BY <1>0, <1>1, <1>2, <2>1 DEF StartLists, ProcTypeOK, CallState
<1>4. p \in Run /\ p = runs + 1 /\ p # 0
  BY <1>1, <1>2 DEF Run
<1>5. /\ \A b \in Caller, q \in Run : Refers(b, q) => q # p /\ q <= runs
      /\ \A i \in Run : live[i] # p
      /\ run[p] = NoRun /\ run[p].pump = "none"
  <2>1. run[p] = NoRun
    BY <1>1, <1>4 DEF PInv, Numbered, Run
  <2>2. \A b \in Caller, q \in Run : Refers(b, q) => q # p /\ q <= runs
    BY <1>1, <1>4 DEF PInv, Numbered, Run
  <2>3. \A i \in Run : live[i] # p
    BY <1>1, <1>4 DEF PInv, Numbered, ProcTypeOK, Run
  <2>4. QED
    BY <2>1, <2>2, <2>3 DEF NoRun
(* Its own record: nothing is made while the name is not known to be free. *)
<1>6. \A q \in Run \ givenUp : ~Process(q)
  BY <1>0 DEF PInv, Alone
<1>7. Targets'
  BY <1>1, <1>3, <1>4, OthersTargets
<1>8. OneStarts'
  BY <1>0, <1>1, <1>3 DEF PInv, OneStarts, Starter
<1>9. Numbered'
  <2>1. \A i \in Run : live[i] # 0 => run[live[i]].id = i /\ live[i] <= runs /\ live[i] \in Run
    BY DEF PInv, Numbered, ProcTypeOK, Run
  <2>2. \A b \in Caller, q \in Run : Refers(b, q)' => q <= runs'
    BY <1>1, <1>2, <1>3, <1>4, <1>5 DEF Refers, Run
  <2>3. \A q \in Run : q > runs' => run'[q] = NoRun
    BY <1>1 DEF PInv, Numbered, Run
  <2>4. QED
    BY <1>1, <2>1, <2>2, <2>3 DEF Numbered, Run
<1>10. Fresh'
  <2> SUFFICES ASSUME NEW b \in Caller, Making(b)'
               PROVE  /\ b = a /\ \A i \in Run : live'[i] # p
                      /\ \A d \in Caller \ {a} : ~Refers(d, p)'
                      /\ p \notin call'[a].rest /\ call'[a].id \in Run
                      /\ run'[p].pump = "none" /\ run'[p] = NoRun
    BY <1>3 DEF Fresh, At, Refers
  <2>1. b = a
    BY <1>0, <1>3 DEF Making
  <2>2. QED
    BY <1>1, <1>3, <1>4, <1>5, <2>1 DEF Refers
<1>11. Pumped'
  BY <1>0, <1>1, <1>3 DEF PInv, Pumped, Process, Running, Making
<1>12. Alone' /\ OneRunning' /\ RunningIsListed'
  BY <1>1, <1>6 DEF PInv, Alone, OneRunning, RunningIsListed, Process, Running
<1>13. NoMissedWake'
  BY <1>1, <1>3 DEF PInv, NoMissedWake, At, Reached, Running
<1>14. QED
  BY <1>7, <1>8, <1>9, <1>10, <1>11, <1>12, <1>13 DEF PInv

LEMMA StepSpawns ==
  ASSUME PInv, ProcTypeOK', NEW a \in Caller, StartSpawns(a), ~shut, NEW p, p = call[a].p
  PROVE  PInv'
<1> DEFINE c == call[a]
<1>0. /\ starting = a /\ Starter(a) /\ a # Nobody /\ ProcTypeOK /\ c \in CallState /\ c.st = "listed"
      /\ \A b \in Caller \ {a} : ~Starter(b) /\ ~Making(b)
  BY StartsAlone DEF StartSpawns, At
<1>1. /\ UNCHANGED <<live, runs, starting, givenUp>> /\ p \in Run
      /\ run' = [run EXCEPT ![p] = [NoRun EXCEPT !.id = c.id, !.tracker = c.tracker, !.status = "running"]]
      /\ call' = [call EXCEPT ![a].st = "spawned"]
  BY <1>0 DEF StartSpawns, GoesTo, ProcTypeOK, CallState, Run, PInv, Targets
<1>2. /\ run'[p].id = c.id /\ run'[p].tracker = c.tracker /\ run'[p].status = "running"
      /\ run'[p].pump = "none"
      /\ \A q \in Run \ {p} : run'[q] = run[q]
  BY <1>0, <1>1 DEF ProcTypeOK, NoRun
<1>3. /\ call'[a].p = p /\ call'[a].st = "spawned" /\ call'[a].op = c.op /\ call'[a].rest = c.rest
      /\ call'[a].id = c.id /\ call'[a].tracker = c.tracker
      /\ \A b \in Caller \ {a} : call'[b] = call[b]
  BY <1>0, <1>1 DEF ProcTypeOK, CallState
<1>4. /\ \A i \in Run : live[i] # p
      /\ \A b \in Caller \ {a} : ~Refers(b, p)
      /\ p \notin c.rest /\ c.id \in Run /\ run[p] = NoRun /\ p <= runs /\ p # 0
  BY <1>0, <1>1 DEF PInv, Fresh, Making, At, Numbered, Refers, Run
<1>5. \A q \in Run \ givenUp : ~Process(q)
  BY <1>0 DEF PInv, Alone
<1>6. Targets'
  <2>1. \A q \in Run : q <= runs /\ q # p => run'[q].tracker = run[q].tracker
    BY <1>2
  <2>2. \A b \in Caller : call[b].st \in {"ending", "unlisting"} => call[b].p \in Run \ {p}
    BY <1>0, <1>4 DEF PInv, Targets, ProcTypeOK, CallState, Run, Refers
  <2>3. QED
    BY <1>1, <1>2, <1>3, <1>4, <2>2 DEF PInv, Targets
<1>7. OneStarts'
  BY <1>0, <1>1, <1>3 DEF PInv, OneStarts, Starter
<1>8. Numbered'
  <2>1. \A i \in Run : live[i] # 0 => run'[live[i]].id = i /\ live[i] <= runs
    BY <1>2, <1>4, SMTT(20) DEF PInv, Numbered, ProcTypeOK, Run
  <2>2. \A b \in Caller, q \in Run : Refers(b, q)' => q <= runs
    BY <1>3, <1>4 DEF PInv, Numbered, Refers
  <2>3. \A q \in Run : q > runs => run'[q] = NoRun
    BY <1>1, <1>2, <1>4 DEF PInv, Numbered, ProcTypeOK, Run
  <2>4. QED
    BY <1>1, <2>1, <2>2, <2>3 DEF Numbered
<1>9. Fresh'
  <2> SUFFICES ASSUME NEW b \in Caller, Making(b)'
               PROVE  /\ b = a /\ \A i \in Run : live'[i] # p
                      /\ \A d \in Caller \ {a} : ~Refers(d, p)'
                      /\ p \notin call'[a].rest /\ call'[a].id \in Run
                      /\ run'[p].pump = "none" /\ Running(p)'
                      /\ run'[p].id = call'[a].id /\ run'[p].tracker = call'[a].tracker
    BY <1>3 DEF Fresh, At, Refers
  <2>1. b = a
    BY <1>0, <1>3 DEF Making
  <2>2. QED
    BY <1>1, <1>2, <1>3, <1>4, <2>1 DEF Refers, Running
<1>10. Pumped'
  <2> SUFFICES ASSUME NEW q \in Run
               PROVE  /\ run'[q].pump = "reading" => Process(q)' /\ run'[q].id \in Run
                      /\ Process(q)' => \/ run'[q].pump = "reading"
                                       \/ \E b \in Caller : Making(b)' /\ call'[b].p = q
    BY DEF Pumped
  <2>1. CASE q = p
    BY <1>2, <1>3, <2>1 DEF Making
  <2>2. CASE q # p
    <3>1. ~ \E b \in Caller : Making(b) /\ call[b].p = q
      BY <1>0, <2>2
    <3>2. QED
      BY <1>2, <2>2, <3>1 DEF PInv, Pumped, Process, Running
  <2>3. QED
    BY <2>1, <2>2
<1>11. \A q \in Run \ givenUp : Process(q)' => q = p
  BY <1>2, <1>5 DEF Process, Running
<1>12. Alone' /\ OneRunning'
  BY <1>0, <1>1, <1>3, <1>11 DEF Alone, OneRunning, Starter, Process
<1>13. RunningIsListed'
  <2>1. \A q \in Run \ givenUp : run'[q].pump = "reading" => q # p
    BY <1>2
  <2>2. QED
    BY <1>1, <1>2, <2>1 DEF PInv, RunningIsListed, Running
<1>14. NoMissedWake'
  <2> SUFFICES ASSUME NEW b \in Caller, At(b, "asleep")', Reached(call[b])' \/ ~Running(call[b].p)'
               PROVE  call'[b].woken
    BY DEF NoMissedWake
  <2>1. b # a /\ call'[b] = call[b]
    BY <1>3 DEF At
  <2>2. call[b].p \in Run \ {p}
    BY <1>0, <1>4, <2>1 DEF At, PInv, Targets, ProcTypeOK, CallState, Run, Refers
  <2>3. run'[call[b].p] = run[call[b].p]
    BY <1>2, <2>2
  <2>4. QED
    BY <2>1, <2>3 DEF PInv, NoMissedWake, At, Reached, Running
<1>15. QED
  BY <1>6, <1>7, <1>8, <1>9, <1>10, <1>12, <1>13, <1>14 DEF PInv

LEMMA StepSaves ==
  ASSUME PInv, ProcTypeOK', NEW a \in Caller, StartSaves(a), NEW p, p = call[a].p
  PROVE  PInv'
<1> DEFINE c == call[a]
<1>0. /\ starting = a /\ Starter(a) /\ a # Nobody /\ ProcTypeOK /\ c \in CallState /\ c.st = "spawned"
      /\ \A b \in Caller \ {a} : ~Starter(b) /\ ~Making(b)
  BY StartsAlone DEF StartSaves, At
<1>1. UNCHANGED <<live, run, runs, starting, givenUp>> /\ call' = [call EXCEPT ![a].st = "stored"]
  BY DEF StartSaves, GoesTo
<1>2. /\ call'[a].p = p /\ call'[a].st = "stored" /\ call'[a].op = c.op /\ call'[a].rest = c.rest
      /\ call'[a].id = c.id /\ call'[a].tracker = c.tracker
      /\ \A b \in Caller \ {a} : call'[b] = call[b]
  BY <1>0, <1>1 DEF ProcTypeOK, CallState
<1>3. \A b \in Caller :
        /\ Making(b)' <=> Making(b)
        /\ Starter(b)' <=> Starter(b)
        /\ call'[b].p = call[b].p /\ call'[b].id = call[b].id /\ call'[b].rest = call[b].rest
        /\ call'[b].tracker = call[b].tracker
  BY <1>0, <1>2 DEF Making, Starter
<1>4. Targets'
  BY <1>0, <1>1, <1>2 DEF PInv, Targets
<1>5. OneStarts'
  BY <1>0, <1>1, <1>2, <1>3 DEF PInv, OneStarts, Starter
<1>6. Numbered'
  <2>1. \A b \in Caller, q \in Run : Refers(b, q)' <=> Refers(b, q)
    BY <1>3 DEF Refers
  <2>2. QED
    BY <1>1, <2>1 DEF PInv, Numbered
<1>7. Fresh'
  <2>1. /\ \A i \in Run : live[i] # p
        /\ \A b \in Caller \ {a} : ~Refers(b, p)
        /\ p \notin c.rest /\ c.id \in Run /\ run[p].pump = "none"
        /\ run[p].id = c.id /\ Running(p) /\ run[p].tracker = c.tracker
    BY <1>0 DEF PInv, Fresh, Making, At
  <2> SUFFICES ASSUME NEW b \in Caller, Making(b)'
               PROVE  /\ b = a /\ \A i \in Run : live'[i] # p
                      /\ \A d \in Caller \ {a} : ~Refers(d, p)'
                      /\ p \notin call'[a].rest /\ call'[a].id \in Run
                      /\ run'[p].pump = "none" /\ Running(p)'
                      /\ run'[p].id = call'[a].id /\ run'[p].tracker = call'[a].tracker
    BY <1>2 DEF Fresh, At, Refers
  <2>2. b = a
    BY <1>0, <1>3
  <2>3. QED
    BY <1>1, <1>2, <2>1, <2>2 DEF Refers, Running
<1>8. Pumped'
  BY <1>1, <1>3 DEF PInv, Pumped, Process, Running
<1>9. Alone'
  BY <1>0, <1>1, <1>2 DEF PInv, Alone, Starter, Process, Running
<1>10. OneRunning' /\ RunningIsListed'
  BY <1>1 DEF PInv, OneRunning, RunningIsListed, Running
<1>11. NoMissedWake'
  BY <1>1, <1>2 DEF PInv, NoMissedWake, At, Reached, Running
<1>12. QED
  BY <1>4, <1>5, <1>6, <1>7, <1>8, <1>9, <1>10, <1>11 DEF PInv

LEMMA StepRegisters ==
  ASSUME PInv, ProcTypeOK', NEW a \in Caller, StartRegisters(a), NEW p, p = call[a].p
  PROVE  PInv'
<1> DEFINE c == call[a]
<1>0. /\ starting = a /\ Starter(a) /\ a # Nobody /\ ProcTypeOK /\ c \in CallState /\ c.st = "stored"
      /\ \A b \in Caller \ {a} : ~Starter(b) /\ ~Making(b)
  BY StartsAlone DEF StartRegisters, At
<1>1. /\ UNCHANGED <<runs, givenUp>> /\ starting' = Nobody /\ p \in Run
      /\ live' = [live EXCEPT ![c.id] = p]
      /\ run' = [run EXCEPT ![p].pump = IF c.tracker THEN "none" ELSE "reading"]
      /\ call' = [call EXCEPT ![a] = NoCall("finished")]
  BY <1>0 DEF StartRegisters, Finishes, ProcTypeOK, CallState, Run, PInv, Targets
<1>2. /\ \A i \in Run : live[i] # p
      /\ \A b \in Caller \ {a} : ~Refers(b, p)
      /\ p \notin c.rest /\ c.id \in Run /\ run[p].pump = "none"
      /\ run[p].id = c.id /\ Running(p) /\ run[p].tracker = c.tracker
      /\ p <= runs /\ p # 0
  BY <1>0, <1>1 DEF PInv, Fresh, Making, At, Numbered, Refers, Run
<1>3. /\ run'[p].id = c.id /\ run'[p].tracker = c.tracker /\ run'[p].status = "running"
      /\ run'[p].pump = (IF c.tracker THEN "none" ELSE "reading") /\ run'[p].mark = run[p].mark
      /\ \A q \in Run \ {p} : run'[q] = run[q]
  BY <1>0, <1>1, <1>2 DEF ProcTypeOK, RunState, Running
<1>4. /\ call'[a].p = 0 /\ call'[a].st = "finished" /\ call'[a].op = "none" /\ call'[a].rest = {}
      /\ \A b \in Caller \ {a} : call'[b] = call[b]
  BY <1>0, <1>1 DEF ProcTypeOK, NoCall
<1>5. live'[c.id] = p /\ \A i \in Run \ {c.id} : live'[i] = live[i]
  BY <1>0, <1>1, <1>2 DEF ProcTypeOK
<1>6. \A b \in Caller : ~Starter(b)' /\ ~Making(b)'
  BY <1>0, <1>4 DEF Starter, Making
<1>7. Targets'
  <2>1. \A q \in Run : run'[q].tracker = run[q].tracker
    BY <1>2, <1>3
  <2>2. QED
    BY <1>4, <2>1, OthersTargets
<1>8. OneStarts'
  BY <1>0, <1>1, <1>4, <1>6, RunAssumption DEF PInv, OneStarts, Starter
<1>9. Numbered'
  <2>1. \A i \in Run : live'[i] # 0 => run'[live'[i]].id = i /\ live'[i] <= runs
    BY <1>2, <1>3, <1>5, SMTT(20) DEF PInv, Numbered, ProcTypeOK, Run
  <2>2. \A b \in Caller, q \in Run : Refers(b, q)' => q <= runs
    BY <1>4 DEF PInv, Numbered, Refers, Run
  <2>3. \A q \in Run : q > runs => run'[q] = NoRun
    BY <1>1, <1>2, <1>3 DEF PInv, Numbered, ProcTypeOK, Run
  <2>4. QED
    BY <1>1, <2>1, <2>2, <2>3 DEF Numbered
<1>10. Fresh'
  BY <1>6 DEF Fresh
<1>11. \A q \in Run : Process(q)' <=> Process(q)
  BY <1>2, <1>3 DEF Process, Running
<1>12. Pumped'
  <2> SUFFICES ASSUME NEW q \in Run
               PROVE  /\ run'[q].pump = "reading" => Process(q)' /\ run'[q].id \in Run
                      /\ Process(q)' => run'[q].pump = "reading"
    BY DEF Pumped
  <2>1. CASE q = p
    BY <1>2, <1>3, <2>1 DEF Process, Running
  <2>2. CASE q # p
    <3>1. ~ \E b \in Caller : Making(b) /\ call[b].p = q
      BY <1>0, <2>2
    <3>2. QED
      BY <1>3, <1>11, <2>2, <3>1 DEF PInv, Pumped
  <2>3. QED
    BY <2>1, <2>2
<1>13. Alone' /\ OneRunning'
  BY <1>1, <1>6, <1>11 DEF PInv, Alone, OneRunning, Process
(* The entry it overwrites is nobody's that runs: what runs is its own. *)
<1>14. RunningIsListed'
  <2> SUFFICES ASSUME NEW q \in Run \ givenUp, Running(q)', run'[q].pump = "reading"
               PROVE  live'[run'[q].id] = q
    BY <1>1 DEF RunningIsListed
  <2>1. Process(q)
    BY <1>11, <1>12 DEF Pumped
  <2>2. q = p
    BY <1>0, <2>1 DEF PInv, Alone
  <2>3. QED
    BY <1>3, <1>5, <2>2
<1>15. NoMissedWake'
  <2> SUFFICES ASSUME NEW b \in Caller, At(b, "asleep")', Reached(call[b])' \/ ~Running(call[b].p)'
               PROVE  call'[b].woken
    BY DEF NoMissedWake
  <2>1. b # a /\ call'[b] = call[b]
    BY <1>4 DEF At
  <2>2. call[b].p \in Run \ {p}
    BY <1>0, <1>2, <2>1 DEF At, PInv, Targets, ProcTypeOK, CallState, Run, Refers
  <2>3. run'[call[b].p] = run[call[b].p]
    BY <1>3, <2>2
  <2>4. QED
    BY <2>1, <2>3 DEF PInv, NoMissedWake, At, Reached, Running
<1>16. QED
  BY <1>7, <1>8, <1>9, <1>10, <1>12, <1>13, <1>14, <1>15 DEF PInv

-----------------------------------------------------------------------------

LEMMA ProcInitInv == ProcInit => PInv
<1> SUFFICES ASSUME ProcInit PROVE PInv
  OBVIOUS
<1>1. /\ live = [i \in Run |-> 0] /\ run = [p \in Run |-> NoRun] /\ starting = Nobody
      /\ call = [a \in Caller |-> NoCall("new")] /\ givenUp = {} /\ runs \in {0, 1}
  BY DEF ProcInit
<1>2. /\ \A a \in Caller : /\ call[a].op = "none" /\ call[a].p = 0 /\ call[a].st = "new"
                            /\ call[a].rest = {} /\ ~Starter(a) /\ ~Making(a)
      /\ \A p \in Run : run[p] = NoRun /\ run[p].status = "none" /\ run[p].pump = "none"
  BY <1>1 DEF NoCall, NoRun, Starter, Making
<1>3. ProcTypeOK
  <2>1. NoRow \in RowState /\ NoRun \in RunState /\ NoCall("new") \in CallState
    BY RunAssumption, NoCallType DEF NoRow, RowState, NoRun, RunState, Id, Status
  <2>2. [id |-> 1, tracker |-> TRUE, status |-> "running", by |-> 1] \in RowState
    BY RunAssumption DEF RowState, Id, Status
  <2>3. prow \in RowState
    BY <2>1, <2>2 DEF ProcInit
  <2>4. runs \in 0 .. MaxRun /\ 0 \in 0 .. MaxRun
    BY <1>1, RunAssumption
  <2>5. QED
    BY <1>1, <2>1, <2>3, <2>4 DEF ProcInit, ProcTypeOK
<1>4. Targets /\ OneStarts
  BY <1>1, <1>2, RunAssumption DEF Targets, OneStarts, Starter
<1>5. Numbered /\ Fresh /\ Pumped
  BY <1>1, <1>2 DEF Numbered, Fresh, Pumped, Process, Running, Refers, Run
<1>6. Alone /\ OneRunning /\ RunningIsListed /\ NoMissedWake
  BY <1>1, <1>2 DEF Alone, OneRunning, RunningIsListed, NoMissedWake, Running, At
<1>7. QED
  BY <1>3, <1>4, <1>5, <1>6 DEF PInv

LEMMA ProcStepInv == PInv /\ [ProcNext]_procVars => PInv'
<1> SUFFICES ASSUME PInv, [ProcNext]_procVars PROVE PInv'
  OBVIOUS
<1>0. ProcTypeOK'
  BY TypeStep
<1>1. CASE UNCHANGED procVars
  <2>1. UNCHANGED <<live, run, runs, starting, call, givenUp>>
    BY <1>1 DEF procVars
  <2>2. RunsKept(Nobody) /\ Elsewhere(Nobody) /\ Own(Nobody)
    BY <2>1, RunsStay, RunAssumption DEF Elsewhere, Own
  <2>3. QED
    BY <1>0, <2>2, QuietStep DEF Quiet
<1>2. ASSUME NEW p \in Run, FinishEnds(p) \/ FinishSaves(p) \/ FinishUnlists(p) \/ OutputReaches(p)
      PROVE  PInv'
  BY <1>0, <1>2, QuietPump, QuietStep
<1>3. ASSUME NEW a \in Caller,
             \/ \E op \in Op, id \in Run : StopById(a, op, id)
             \/ \E op \in Op : StopAll(a, op)
             \/ StopSavesTracker(a) \/ SaveTakes(a) \/ SaveWrites(a)
             \/ \E id \in Run, until \in {"exit", "mark"} : WaitBegins(a, id, until)
             \/ WaitLooks(a) \/ WaitWakes(a) \/ WaitTimesOut(a) \/ RemoveDeletes(a)
      PROVE  PInv'
  <2>1. Quiet(a)
    BY <1>3, QuietStop
  <2>2. QED
    BY <1>0, <2>1, QuietStep
<1>4. ASSUME NEW a \in Caller,
             \/ EndsTracker(a) \/ TrackerSaved(a) \/ TrackerUnlisted(a)
             \/ SignalsProcess(a) \/ StopReturns(a) \/ ReportApplies(a)
      PROVE  PInv'
  <2>1. PICK p : p = call[a].p
    OBVIOUS
  <2>2. Quiet(a)
    BY <1>4, <2>1, QuietEnds
  <2>3. QED
    BY <1>0, <2>2, QuietStep
<1>5. ASSUME NEW a \in Caller,
             \/ \E op \in Op, tracker \in BOOLEAN : StartNamed(a, op, tracker)
             \/ \E op \in Op : ReportNamed(a, op)
      PROVE  PInv'
  <2>1. Quiet(a)
    BY <1>5, QuietNamed
  <2>2. QED
    BY <1>0, <2>1, QuietStep
<1>6. ASSUME NEW a \in Caller,
             StartLists(a) \/ StartSpawns(a) \/ StartFails(a) \/ StartSaves(a) \/ StartRegisters(a)
      PROVE  PInv'
  <2>1. PICK p : p = call[a].p
    OBVIOUS
  <2>2. CASE StartFails(a) \/ (StartSpawns(a) /\ shut)
    <3>1. Quiet(a)
      BY <2>1, <2>2, QuietFails
    <3>2. QED
      BY <1>0, <3>1, QuietStep
  <2>3. CASE StartLists(a)
    BY <1>0, <2>3, StepLists
  <2>4. CASE StartSpawns(a) /\ ~shut
    BY <1>0, <2>1, <2>4, StepSpawns
  <2>5. CASE StartSaves(a)
    BY <1>0, <2>1, <2>5, StepSaves
  <2>6. CASE StartRegisters(a)
    BY <1>0, <2>1, <2>6, StepRegisters
  <2>7. QED
    BY <1>6, <2>2, <2>3, <2>4, <2>5, <2>6
<1>7. QED
  BY <1>1, <1>2, <1>3, <1>4, <1>5, <1>6, Zenon DEF ProcNext

(***************************************************************************)
(* startMu, the locks of the map and of each run, and the database keep     *)
(* every call's picture of the runs true enough for what follows.           *)
(***************************************************************************)
THEOREM ProcInvariant == ProcSpec => []PInv
<1>1. QED
  BY ProcInitInv, ProcStepInv, PTL DEF ProcSpec

(* What runs of a name is one process, and it can be found by its id, however many *)
(* goroutines start, replace, stop and remove it: but for one that a stop gave up  *)
(* on, and one that a Start found beside the tracker that it replaced.             *)
THEOREM ProcOneListed == ProcSpec => []OneListed
<1>1. PInv => OneListed
  BY DEF PInv, OneListed
<1>2. QED
  BY <1>1, ProcInvariant, PTL

(* A Wait never sleeps through the end, or the checkpoint, that it waits for. *)
THEOREM ProcNoMissedWake == ProcSpec => []NoMissedWake
<1>1. PInv => NoMissedWake
  BY DEF PInv
<1>2. QED
  BY <1>1, ProcInvariant, PTL
=============================================================================
