------------------------- MODULE AgentManagerProofs -------------------------
(***************************************************************************)
(* Theorems about the daemon's threads as they are held by others: the     *)
(* session map of AgentManager, for any number of requests, sessions and   *)
(* lives of the daemon, and a tab's copy of a thread's log (AgentThread),  *)
(* for any bounds on events, restarts and connections that close.          *)
(***************************************************************************)
EXTENDS AgentManager, AgentThread, FiniteSetTheorems, SequenceTheorems, TLAPS

(* A session that has not been made is in nobody's hands, and Shutdown has *)
(* taken something only while the daemon stops.                            *)
Unborn ==
  /\ \A s \in SessionId : s > made => sess[s] = NoSession
  /\ entry <= made /\ stopping <= made
  /\ \A q \in Request : request[q].st = "stops" => request[q].s <= made
  /\ daemon # "stopping" => stopping = 0

(* A mark pays for a continuation: what has been continued, is about to be *)
(* and is still marked was marked.                                         *)
MarkPays ==
  /\ continued + (IF resume.st \in {"cleared", "found"} THEN 1 ELSE 0)
       + (IF row.mark THEN 1 ELSE 0) <= marked
  /\ resume.st = "listed" /\ row.there => row.mark

MapInv == MapTypeOK /\ Unborn /\ SessionsAreStopped /\ MarkPays

(* Every step keeps the types. *)
LEMMA MapTypeStep == MapTypeOK /\ [MapNext]_mapVars => MapTypeOK'
<1> SUFFICES ASSUME MapTypeOK, [MapNext]_mapVars PROVE MapTypeOK'
  OBVIOUS
<1> USE SessionAssumption DEF MapTypeOK, SessionId
<1>1. ASSUME NEW s \in 0..MaxSession, Found(s)
      PROVE  entry' \in 0..MaxSession /\ made' \in 0..MaxSession /\ sess' \in [SessionId -> SessionType]
  <2>1. CASE UNCHANGED <<entry, sess, made>>
    BY <2>1
  <2>2. CASE made < MaxSession /\ s = made + 1 /\ made' = s /\ entry' = s /\ sess' = [sess EXCEPT ![s] = NewSession]
    <3>1. NewSession \in SessionType
      BY DEF NewSession, SessionType
    <3>2. QED
      BY <2>2, <3>1
  <2>3. QED
    BY <1>1, <2>1, <2>2 DEF Found
<1>2. ASSUME NEW q \in Request, Prompt(q) PROVE MapTypeOK'
  BY <1>1, <1>2 DEF Prompt, Idle, RequestType
<1>3. ASSUME NEW s \in SessionId
      PROVE  /\ [sess EXCEPT ![s].claude = TRUE, ![s].turn = TRUE] \in [SessionId -> SessionType]
             /\ [sess EXCEPT ![s].asked = TRUE] \in [SessionId -> SessionType]
  BY <1>3, ZenonT(30) DEF SessionType
<1>4. ASSUME NEW s PROVE s \notin SessionId => [sess EXCEPT ![s].claude = TRUE, ![s].turn = TRUE] = sess
                          /\ [sess EXCEPT ![s].asked = TRUE] = sess
  OBVIOUS
<1>5. ASSUME NEW q \in Request, RunPrompt(q) PROVE MapTypeOK'
  <2>1. sess' \in [SessionId -> SessionType]
    BY <1>3, <1>4, <1>5 DEF RunPrompt
  <2>2. request' \in [Request -> RequestType]
    BY <1>5 DEF RunPrompt, Idle, RequestType
  <2>3. QED
    BY <1>5, <2>1, <2>2 DEF RunPrompt
<1>6. ASSUME NEW q \in Request, Archive(q) PROVE MapTypeOK'
  BY <1>6 DEF Archive, RequestType
<1>7. ASSUME NEW q \in Request, Delete(q) PROVE MapTypeOK'
  BY <1>7 DEF Delete, RequestType
<1>8. ASSUME NEW q \in Request, Kill(q) PROVE MapTypeOK'
  BY <1>8 DEF Kill, Idle, RequestType
<1>9. ASSUME NEW q \in Request, Stop(q) PROVE MapTypeOK'
  <2>1. sess' \in [SessionId -> SessionType]
    <3>1. sess' = sess \/ sess' = [sess EXCEPT ![request[q].s].asked = TRUE]
      BY <1>9 DEF Stop
    <3>2. CASE request[q].s \in SessionId
      BY <1>3, <3>1, <3>2
    <3>3. CASE request[q].s \notin SessionId
      BY <1>4, <3>1, <3>3
    <3>4. QED
      BY <3>2, <3>3
  <2>2. request' \in [Request -> RequestType]
    <3>1. request' = [request EXCEPT ![q] = Idle] \/ request' = [request EXCEPT ![q].st = "waits"]
      BY <1>9 DEF Stop
    <3>2. [request EXCEPT ![q] = Idle] \in [Request -> RequestType]
      BY DEF Idle, RequestType
    <3>3. [request EXCEPT ![q].st = "waits"] \in [Request -> RequestType]
      BY DEF RequestType
    <3>4. QED
      BY <3>1, <3>2, <3>3
  <2>3. QED
    BY <1>9, <2>1, <2>2 DEF Stop
<1>10. ASSUME NEW s \in SessionId, SessionStep(s) PROVE MapTypeOK'
  <2>1. sess' \in [SessionId -> SessionType]
    <3>1. \/ sess' = [sess EXCEPT ![s].turn = FALSE]
          \/ sess' = [sess EXCEPT ![s].claude = FALSE, ![s].turn = FALSE]
          \/ sess' = [sess EXCEPT ![s] = Ended(sess[s])]
      BY <1>10 DEF SessionStep
    <3>2. [sess EXCEPT ![s].turn = FALSE] \in [SessionId -> SessionType]
      BY DEF SessionType
    <3>3. [sess EXCEPT ![s].claude = FALSE, ![s].turn = FALSE] \in [SessionId -> SessionType]
      BY ZenonT(30) DEF SessionType
    <3>4. [sess EXCEPT ![s] = Ended(sess[s])] \in [SessionId -> SessionType]
      BY DEF SessionType, Ended
    <3>5. QED
      BY <3>1, <3>2, <3>3, <3>4
  <2>2. QED
    BY <1>10, <2>1 DEF SessionStep
<1>11. CASE UpdateDaemon
  BY <1>11 DEF UpdateDaemon
<1>12. CASE MarkTurn
  <2>1. row' \in [there : BOOLEAN, mark : BOOLEAN] /\ marked' \in Nat /\ marking' \in 0..MaxSession
    <3>1. marking' = 0 /\ ((row' = row /\ marked' = marked) \/ (row' = [row EXCEPT !.mark = TRUE] /\ marked' = marked + 1))
      BY <1>12 DEF MarkTurn
    <3>2. [row EXCEPT !.mark = TRUE] \in [there : BOOLEAN, mark : BOOLEAN]
      OBVIOUS
    <3>3. CASE row' = row /\ marked' = marked
      BY <3>1, <3>3
    <3>4. CASE row' = [row EXCEPT !.mark = TRUE] /\ marked' = marked + 1
      BY <3>1, <3>2, <3>4
    <3>5. QED
      BY <3>1, <3>3, <3>4
  <2>2. QED
    BY <1>12, <2>1 DEF MarkTurn
<1>13. CASE Shutdown
  BY <1>13 DEF Shutdown
<1>14. CASE StopTaken
  BY <1>3, <1>4, <1>14 DEF StopTaken
<1>15. CASE DaemonEnds
  <2>1. sess' \in [SessionId -> SessionType]
    BY <1>15 DEF DaemonEnds, NoSession, SessionType
  <2>2. request' \in [Request -> RequestType] /\ resume' \in ResumeType
    BY <1>15 DEF DaemonEnds, Idle, NotResuming, RequestType, ResumeType
  <2>3. QED
    BY <1>15, <2>1, <2>2 DEF DaemonEnds
<1>16. CASE DaemonStarts
  BY <1>16 DEF DaemonStarts, ResumeType
<1>17. CASE ListMarked
  BY <1>17 DEF ListMarked, NotResuming, ResumeType
<1>18. CASE ClearMark
  <2>1. row' \in [there : BOOLEAN, mark : BOOLEAN]
    <3>1. row' = row \/ row' = [row EXCEPT !.mark = FALSE]
      BY <1>18 DEF ClearMark
    <3>2. QED
      BY <3>1
  <2>2. resume' \in ResumeType
    BY <1>18 DEF ClearMark, NotResuming, ResumeType
  <2>3. QED
    BY <1>18, <2>1, <2>2 DEF ClearMark
<1>19. CASE FindMarked
  BY <1>1, <1>19 DEF FindMarked, NotResuming, ResumeType
<1>20. CASE Continue
  <2>1. sess' \in [SessionId -> SessionType] /\ continued' \in Nat
    <3>1. \/ sess' = sess /\ continued' = continued
          \/ /\ sess' = [sess EXCEPT ![resume.s].claude = TRUE, ![resume.s].turn = TRUE]
             /\ continued' = continued + 1
      BY <1>20 DEF Continue
    <3>2. continued' \in Nat
      BY <3>1
    <3>3. CASE resume.s \in SessionId
      BY <1>3, <3>1, <3>2, <3>3
    <3>4. CASE resume.s \notin SessionId
      BY <1>4, <3>1, <3>2, <3>4
    <3>5. QED
      BY <3>3, <3>4
  <2>2. resume' \in ResumeType
    BY <1>20 DEF Continue, NotResuming, ResumeType
  <2>3. QED
    BY <1>20, <2>1, <2>2 DEF Continue
<1>21. CASE UNCHANGED mapVars
  BY <1>21 DEF mapVars
<1>22. QED
  BY <1>2, <1>5, <1>6, <1>7, <1>8, <1>9, <1>10, <1>11, <1>12, <1>13, <1>14, <1>15, <1>16, <1>17, <1>18, <1>19,
     <1>20, <1>21 DEF MapNext

(* The map and the goroutines that stop sessions. *)
Stopped == Unborn /\ NoneForgotten /\ StoppedOnce /\ DeletedIsForgotten

(* What a session or a command does with claude stops nobody. *)
LEMMA QuietSession ==
  ASSUME MapTypeOK, Stopped, MapTypeOK',
         UNCHANGED <<row, entry, made, daemon, stopping>>,
         \A q \in Request : request'[q].st \in {"stops", "kills"} \/ request[q].st \in {"stops", "kills"}
                              => request'[q] = request[q],
         \A s \in SessionId : /\ sess'[s].asked = sess[s].asked
                              /\ Alive(s)' => Alive(s)
                              /\ sess[s] = NoSession => sess'[s] = NoSession
  PROVE  Stopped'
<1> USE DEF MapTypeOK, Stopped
<1>1. \A q \in Request, s \in SessionId : InHands(q, s)' <=> InHands(q, s)
  BY DEF InHands
<1>2. Unborn'
  BY SessionAssumption DEF Unborn, SessionId
<1>3. NoneForgotten'
  BY <1>1 DEF NoneForgotten
<1>4. StoppedOnce'
  BY <1>1 DEF StoppedOnce
<1>5. DeletedIsForgotten'
  BY DEF DeletedIsForgotten
<1>6. QED
  BY <1>2, <1>3, <1>4, <1>5

LEMMA FoundStep ==
  ASSUME MapTypeOK, Stopped, NEW s \in 0..MaxSession, Found(s),
         UNCHANGED <<row, daemon, stopping>>,
         \A q \in Request : request'[q].st \in {"stops", "kills"} \/ request[q].st \in {"stops", "kills"}
                              => request'[q] = request[q]
  PROVE  Stopped'
<1> USE SessionAssumption DEF MapTypeOK, Stopped, SessionId
<1>1. \A q \in Request, t \in SessionId : InHands(q, t)' <=> InHands(q, t)
  BY DEF InHands
<1>2. CASE UNCHANGED <<entry, sess, made>>
  BY <1>1, <1>2 DEF Unborn, NoneForgotten, StoppedOnce, DeletedIsForgotten, Alive
<1>3. CASE /\ entry = 0 /\ row.there /\ made < MaxSession
           /\ s = made + 1 /\ made' = s /\ entry' = s
           /\ sess' = [sess EXCEPT ![s] = NewSession]
  <2>1. s \in SessionId /\ sess[s] = NoSession /\ s # stopping /\ \A q \in Request : ~InHands(q, s)
    BY <1>3 DEF Unborn, InHands
  <2>2. Unborn'
    <3>1. \A t \in SessionId : t > made' => sess'[t] = NoSession
      BY <1>3 DEF Unborn
    <3>2. \A q \in Request : request'[q].st = "stops" => request'[q].s <= made'
      BY <1>3 DEF Unborn, RequestType
    <3>3. QED
      BY <1>3, <3>1, <3>2 DEF Unborn
  <2>3. NoneForgotten'
    BY <1>1, <1>3, <2>1 DEF NoneForgotten, Alive
  <2>4. StoppedOnce'
    BY <1>1, <1>3, <2>1 DEF StoppedOnce, NewSession, NoSession
  <2>5. DeletedIsForgotten'
    BY <1>3 DEF DeletedIsForgotten
  <2>6. QED
    BY <2>2, <2>3, <2>4, <2>5
<1>4. QED
  BY <1>2, <1>3 DEF Found

LEMMA StoppedStep == MapTypeOK /\ MapTypeOK' /\ Stopped /\ [MapNext]_mapVars => Stopped'
<1> SUFFICES ASSUME MapTypeOK, MapTypeOK', Stopped, [MapNext]_mapVars PROVE Stopped'
  OBVIOUS
<1>1. ASSUME NEW q \in Request, Prompt(q) PROVE Stopped'
  BY <1>1, FoundStep DEF Prompt, Idle, MapTypeOK
<1>2. ASSUME NEW q \in Request, RunPrompt(q) PROVE Stopped'
  <2>1. request[q].s \in 0..MaxSession /\ request'[q] = Idle
    BY <1>2 DEF RunPrompt, MapTypeOK, RequestType
  <2>2. \A s \in SessionId : /\ sess'[s].asked = sess[s].asked
                             /\ Alive(s)' => Alive(s)
                             /\ sess[s] = NoSession => sess'[s] = NoSession
    <3>1. \/ sess' = sess
          \/ /\ sess' = [sess EXCEPT ![request[q].s].claude = TRUE, ![request[q].s].turn = TRUE]
             /\ sess[request[q].s].st = "runs"
      BY <1>2 DEF RunPrompt
    <3>2. QED
      BY <2>1, <3>1 DEF MapTypeOK, SessionType, Alive, NoSession
  <2>3. \A r \in Request : request'[r].st \in {"stops", "kills"} \/ request[r].st \in {"stops", "kills"}
                              => request'[r] = request[r]
    BY <1>2 DEF RunPrompt, MapTypeOK, Idle
  <2>4. QED
    BY <1>2, <2>2, <2>3, QuietSession DEF RunPrompt
<1>3. ASSUME NEW q \in Request, Archive(q) \/ Delete(q) PROVE Stopped'
  <2>1. \A r \in Request, s \in SessionId : InHands(r, s)' <=> InHands(r, s)
    BY <1>3 DEF Archive, Delete, InHands, Idle, MapTypeOK
  <2>2. DeletedIsForgotten'
    BY <1>3 DEF Archive, Delete, DeletedIsForgotten, MapTypeOK
  <2>3. Unborn'
    BY <1>3 DEF Archive, Delete, Unborn, Stopped, Idle, MapTypeOK
  <2>4. NoneForgotten' /\ StoppedOnce'
    BY <1>3, <2>1 DEF Archive, Delete, Stopped, NoneForgotten, StoppedOnce, Alive
  <2>5. QED
    BY <2>2, <2>3, <2>4 DEF Stopped
<1>4. ASSUME NEW q \in Request, Kill(q) PROVE Stopped'
  <2> USE <1>4 DEF Kill, MapTypeOK, Stopped
  <2>1. \A r \in Request, s \in SessionId :
          InHands(r, s)' <=> (InHands(r, s) \/ (r = q /\ s = entry))
    BY DEF InHands, Idle, SessionId
  <2>2. \A s \in SessionId : ~InHands(q, s)
    BY DEF InHands
  <2>3. Unborn'
    BY DEF Unborn, Idle
  <2>4. NoneForgotten'
    BY <2>1 DEF NoneForgotten, Alive
  <2>5. StoppedOnce'
    BY <2>1, <2>2 DEF StoppedOnce, SessionId
  <2>6. DeletedIsForgotten'
    BY DEF DeletedIsForgotten
  <2>7. QED
    BY <2>3, <2>4, <2>5, <2>6
<1>5. ASSUME NEW q \in Request, Stop(q) PROVE Stopped'
  <2>1. CASE request[q].st = "stops"
    <3> DEFINE t == request[q].s
    <3> USE <1>5, <2>1 DEF Stop, MapTypeOK, Stopped
    <3>1. \A r \in Request, s \in SessionId : InHands(r, s)' <=> (InHands(r, s) /\ r # q)
      BY DEF InHands, RequestType
    <3>2. sess' = [sess EXCEPT ![t].asked = TRUE] /\ UNCHANGED <<row, entry, made, stopping, daemon>>
      OBVIOUS
    <3>3. \A s \in SessionId : InHands(q, s) <=> s = t
      BY DEF InHands, SessionId
    <3>4. Unborn'
      <4>1. t <= made /\ t \in Nat
        BY DEF Unborn, RequestType
      <4>2. \A s \in SessionId : s > made => sess'[s] = NoSession
        BY <3>2, <4>1 DEF Unborn, SessionId
      <4>3. \A r \in Request : request'[r].st = "stops" => request'[r].s <= made
        BY <3>2 DEF Unborn, RequestType
      <4>4. QED
        BY <3>2, <4>2, <4>3 DEF Unborn
    <3>5. NoneForgotten'
      BY <3>1, <3>2, <3>3 DEF NoneForgotten, Alive
    <3>6. StoppedOnce'
      BY <3>1, <3>2, <3>3 DEF StoppedOnce
    <3>7. DeletedIsForgotten'
      BY <3>2 DEF DeletedIsForgotten
    <3>8. QED
      BY <3>4, <3>5, <3>6, <3>7
  <2>2. CASE request[q].st = "waits"
    <3>1. \A r \in Request : request'[r].st \in {"stops", "kills"} \/ request[r].st \in {"stops", "kills"}
                              => request'[r] = request[r]
      BY <1>5, <2>2 DEF Stop, Idle, MapTypeOK
    <3>2. QED
      BY <1>5, <2>2, <3>1, QuietSession DEF Stop, Alive
  <2>3. QED
    BY <1>5, <2>1, <2>2 DEF Stop
<1>6. ASSUME NEW s \in SessionId, SessionStep(s) PROVE Stopped'
  <2>1. \A t \in SessionId : /\ sess'[t].asked = sess[t].asked
                             /\ Alive(t)' => Alive(t)
                             /\ sess[t] = NoSession => sess'[t] = NoSession
    <3>1. \/ sess' = [sess EXCEPT ![s].turn = FALSE]
          \/ sess' = [sess EXCEPT ![s].claude = FALSE, ![s].turn = FALSE]
          \/ sess' = [sess EXCEPT ![s] = Ended(sess[s])]
      BY <1>6 DEF SessionStep
    <3>2. sess[s].st = "runs"
      BY <1>6 DEF SessionStep
    <3>3. QED
      BY <3>1, <3>2 DEF Ended, Alive, NoSession, MapTypeOK, SessionType
  <2>2. QED
    BY <1>6, <2>1, QuietSession DEF SessionStep
<1>7. CASE UpdateDaemon
  BY <1>7 DEF UpdateDaemon, Stopped, Unborn, NoneForgotten, StoppedOnce, DeletedIsForgotten, Alive, InHands
<1>8. CASE MarkTurn
  BY <1>8 DEF MarkTurn, Stopped, Unborn, NoneForgotten, StoppedOnce, DeletedIsForgotten, Alive, InHands, MapTypeOK
<1>9. CASE Shutdown
  BY <1>9 DEF Shutdown, Stopped, Unborn, NoneForgotten, StoppedOnce, DeletedIsForgotten, Alive, InHands,
     MapTypeOK, SessionId
<1>10. CASE StopTaken
  BY <1>10 DEF StopTaken, Stopped, Unborn, NoneForgotten, StoppedOnce, DeletedIsForgotten, Alive, InHands,
     MapTypeOK, SessionId
<1>11. CASE DaemonEnds
  <2> USE SessionAssumption DEF Stopped, MapTypeOK, SessionId
  <2>1. \A r \in Request, s \in SessionId : ~InHands(r, s)'
    BY <1>11 DEF DaemonEnds, InHands, Idle
  <2>2. \A s \in SessionId : ~Alive(s)'
    BY <1>11 DEF DaemonEnds, Alive, NoSession
  <2>3. Unborn'
    BY <1>11 DEF DaemonEnds, Unborn, Idle
  <2>4. entry' = 0
    BY <1>11 DEF DaemonEnds
  <2>5. QED
    BY <2>1, <2>2, <2>3, <2>4 DEF NoneForgotten, StoppedOnce, DeletedIsForgotten
<1>12. CASE DaemonStarts \/ ListMarked \/ ClearMark
  BY <1>12 DEF DaemonStarts, ListMarked, ClearMark, Stopped, Unborn, NoneForgotten, StoppedOnce,
     DeletedIsForgotten, Alive, InHands, MapTypeOK
<1>13. CASE FindMarked
  BY <1>13, FoundStep DEF FindMarked
<1>14. CASE Continue
  <2>1. \A t \in SessionId : /\ sess'[t].asked = sess[t].asked
                             /\ Alive(t)' => Alive(t)
                             /\ sess[t] = NoSession => sess'[t] = NoSession
    <3>1. \/ sess' = sess
          \/ /\ sess' = [sess EXCEPT ![resume.s].claude = TRUE, ![resume.s].turn = TRUE]
             /\ sess[resume.s].st = "runs"
      BY <1>14 DEF Continue
    <3>2. QED
      BY <3>1 DEF MapTypeOK, SessionType, Alive, NoSession
  <2>2. QED
    BY <1>14, <2>1, QuietSession DEF Continue
<1>15. CASE UNCHANGED mapVars
  BY <1>15 DEF mapVars, Stopped, Unborn, NoneForgotten, StoppedOnce, DeletedIsForgotten, Alive, InHands
<1>16. QED
  BY <1>1, <1>2, <1>3, <1>4, <1>5, <1>6, <1>7, <1>8, <1>9, <1>10, <1>11, <1>12, <1>13, <1>14, <1>15 DEF MapNext

(* Marks and continuations. *)
LEMMA MarkStep == MapTypeOK /\ MarkPays /\ [MapNext]_mapVars => MarkPays'
<1> SUFFICES ASSUME MapTypeOK, MarkPays, [MapNext]_mapVars PROVE MarkPays'
  OBVIOUS
<1> USE DEF MapTypeOK, MarkPays, NotResuming
<1>1. ASSUME NEW q \in Request, Prompt(q) \/ RunPrompt(q) \/ Archive(q) \/ Kill(q) \/ Stop(q) PROVE MarkPays'
  BY <1>1 DEF Prompt, RunPrompt, Archive, Kill, Stop
<1>2. ASSUME NEW q \in Request, Delete(q) PROVE MarkPays'
  BY <1>2 DEF Delete
<1>3. ASSUME NEW s \in SessionId, SessionStep(s) PROVE MarkPays'
  BY <1>3 DEF SessionStep
<1>4. CASE UpdateDaemon \/ MarkTurn \/ Shutdown \/ StopTaken
  BY <1>4 DEF UpdateDaemon, MarkTurn, Shutdown, StopTaken
<1>5. CASE DaemonEnds \/ DaemonStarts
  BY <1>5 DEF DaemonEnds, DaemonStarts
<1>6. CASE ListMarked \/ ClearMark
  BY <1>6 DEF ListMarked, ClearMark
<1>7. CASE FindMarked \/ Continue
  BY <1>7 DEF FindMarked, Continue
<1>8. CASE UNCHANGED mapVars
  BY <1>8 DEF mapVars
<1>9. QED
  BY <1>1, <1>2, <1>3, <1>4, <1>5, <1>6, <1>7, <1>8 DEF MapNext

THEOREM MapInvariant == MapSpec => []MapInv
<1>1. MapInit => MapInv
  <2> SUFFICES ASSUME MapInit PROVE MapInv
    OBVIOUS
  <2> USE SessionAssumption DEF MapInit, SessionId
  <2>1. MapTypeOK
    <3>1. sess \in [SessionId -> SessionType]
      BY DEF NoSession, SessionType
    <3>2. request \in [Request -> RequestType] /\ resume \in ResumeType
      BY DEF Idle, RequestType, NotResuming, ResumeType
    <3>3. row \in [there : BOOLEAN, mark : BOOLEAN] /\ lives \in 0..MaxLife
      OBVIOUS
    <3>4. QED
      BY <3>1, <3>2, <3>3 DEF MapTypeOK
  <2>2. Unborn /\ MarkPays
    BY DEF Unborn, MarkPays, Idle, NotResuming
  <2>3. SessionsAreStopped
    BY DEF SessionsAreStopped, NoneForgotten, StoppedOnce, DeletedIsForgotten, Alive, InHands, NoSession, Idle
  <2>4. QED
    BY <2>1, <2>2, <2>3 DEF MapInv
<1>2. MapInv /\ [MapNext]_mapVars => MapInv'
  BY MapTypeStep, StoppedStep, MarkStep DEF MapInv, Stopped, SessionsAreStopped
<1>3. QED
  BY <1>1, <1>2, PTL DEF MapSpec

(* A deleted thread has no session left that is not being stopped, and no  *)
(* session is stopped twice.                                               *)
THEOREM MapSessionsAreStopped == MapSpec => []SessionsAreStopped
<1>1. MapInv => SessionsAreStopped
  BY DEF MapInv
<1>2. QED
  BY <1>1, MapInvariant, PTL

(* A turn is continued at most once for each update that interrupted it,   *)
(* through any number of restarts and crashes.                             *)
THEOREM MapContinuedOnce == MapSpec => []ContinuedOnce
<1>1. MapInv => ContinuedOnce
  BY DEF MapInv, MapTypeOK, MarkPays, ContinuedOnce
<1>2. QED
  BY <1>1, MapInvariant, PTL
-----------------------------------------------------------------------------
(* A tab's copy of a thread's log. First what the sequences are that are made *)
(* of a set's numbers.                                                        *)

LEMMA InOrderIs ==
  ASSUME NEW S \in SUBSET Nat, IsFiniteSet(S), NEW s, s = InOrder(S)
  PROVE  /\ s \in [1 .. Cardinality(S) -> S] /\ Cardinality(S) \in Nat
         /\ \A k, l \in 1 .. Cardinality(S) : k < l => s[k] < s[l]
         /\ \A x \in S : \E k \in 1 .. Cardinality(S) : s[k] = x
<1> DEFINE n == Cardinality(S)
           Under(x) == {m \in S : m < x}
           Rank(x) == Cardinality(Under(x))
<1>0. n \in Nat
  BY FS_CardinalityType
<1>1. ASSUME NEW x \in S PROVE IsFiniteSet(Under(x)) /\ Rank(x) \in Nat /\ Rank(x) < n
  <2>1. Under(x) \in SUBSET S /\ x \in S /\ x \notin Under(x)
    OBVIOUS
  <2> HIDE DEF Under
  <2>2. IsFiniteSet(Under(x)) /\ Cardinality(Under(x)) <= n /\ (n = Cardinality(Under(x)) => S = Under(x))
    BY <2>1, FS_Subset
  <2>3. Rank(x) \in Nat
    BY <2>2, FS_CardinalityType
  <2>4. QED
    BY <1>0, <2>1, <2>2, <2>3
<1>2. ASSUME NEW x \in S, NEW y \in S, x < y PROVE Rank(x) < Rank(y)
  <2>0. x \in Nat /\ y \in Nat /\ \A m \in S : m \in Nat
    OBVIOUS
  <2>1. Under(x) \in SUBSET Under(y) /\ x \in Under(y) /\ x \notin Under(x)
    <3>1. \A m \in S : m < x => m < y
      BY <1>2, <2>0
    <3>2. ~(x < x)
      BY <2>0
    <3>3. QED
      BY <1>2, <3>1, <3>2
  <2>2. IsFiniteSet(Under(y)) /\ Rank(x) \in Nat /\ Rank(y) \in Nat
    BY <1>1
  <2> HIDE DEF Under
  <2>3. Rank(x) <= Rank(y) /\ (Rank(y) = Rank(x) => Under(y) = Under(x))
    BY <2>1, <2>2, FS_Subset
  <2>4. QED
    BY <2>1, <2>2, <2>3
<1>3. s = [k \in 1 .. n |-> CHOOSE x \in S : Rank(x) = k - 1]
  BY DEF InOrder
<1> HIDE DEF n, Rank, Under
<1>4. \A x, y \in S : x # y => Rank(x) # Rank(y)
  <2>1. ASSUME NEW x \in S, NEW y \in S, x # y PROVE Rank(x) # Rank(y)
    <3>1. x \in Nat /\ y \in Nat /\ Rank(x) \in Nat /\ Rank(y) \in Nat
      BY <1>1
    <3>2. x < y \/ y < x
      BY <2>1, <3>1
    <3>3. QED
      BY <1>2, <3>1, <3>2
  <2>2. QED
    BY <2>1
<1>5. ASSUME NEW k \in 1 .. n PROVE \E x \in S : Rank(x) = k - 1
  <2> DEFINE f == [x \in S |-> Rank(x) + 1]
  <2>1. \A x \in S : Rank(x) + 1 \in 1 .. n
    BY <1>0, <1>1
  <2>2. \A x, y \in S : Rank(x) + 1 = Rank(y) + 1 => x = y
    <3>1. \A x \in S : Rank(x) \in Nat
      BY <1>1
    <3>2. QED
      BY <1>4, <3>1
  <2>3. f \in [S -> 1 .. n] /\ \A x, y \in S : f[x] = f[y] => x = y
    BY <2>1, <2>2
  <2> HIDE DEF f
  <2>4. f \in Injection(S, 1 .. n)
    BY <2>3 DEF Injection, IsInjective
  <2>5. IsFiniteSet(1 .. n) /\ Cardinality(1 .. n) = n
    BY <1>0, FS_Interval
  <2>6. f \in Surjection(S, 1 .. n)
    BY <2>4, <2>5, FS_Injection DEF n
  <2>7. PICK x \in S : f[x] = k
    BY <2>6 DEF Surjection
  <2>8. Rank(x) + 1 = k /\ Rank(x) \in Nat
    BY <1>1, <2>7 DEF f
  <2>9. QED
    BY <2>8
<1>6. \A k \in 1 .. n : s[k] \in S /\ Rank(s[k]) = k - 1
  BY <1>3, <1>5
<1>7. \A k, l \in 1 .. n : k < l => s[k] < s[l]
  <2>1. ASSUME NEW k \in 1 .. n, NEW l \in 1 .. n, k < l PROVE s[k] < s[l]
    <3>0. k \in Int /\ l \in Int /\ s[k] \in S /\ s[l] \in S /\ Rank(s[k]) = k - 1 /\ Rank(s[l]) = l - 1
      BY <1>0, <1>6
    <3>1. s[k] \in Nat /\ s[l] \in Nat /\ Rank(s[k]) < Rank(s[l])
      <4>1. k - 1 < l - 1
        BY <2>1, <3>0
      <4>2. QED
        BY <3>0, <4>1
    <3>2. s[l] < s[k] => Rank(s[l]) < Rank(s[k])
      BY <1>2, <3>0
    <3>3. Rank(s[k]) \in Nat /\ Rank(s[l]) \in Nat
      BY <1>1, <3>0
    <3>4. CASE s[k] = s[l]
      BY <3>1, <3>3, <3>4
    <3>5. QED
      BY <3>1, <3>2, <3>3, <3>4
  <2>2. QED
    BY <2>1
<1>8. \A x \in S : \E k \in 1 .. n : s[k] = x
  <2>1. ASSUME NEW x \in S PROVE \E k \in 1 .. n : s[k] = x
    <3>1. Rank(x) \in Nat /\ Rank(x) < n
      BY <1>1
    <3>2. Rank(x) + 1 \in 1 .. n /\ (Rank(x) + 1) - 1 = Rank(x)
      BY <1>0, <3>1
    <3>3. s[Rank(x) + 1] \in S /\ Rank(s[Rank(x) + 1]) = Rank(x)
      BY <1>6, <3>2
    <3>4. QED
      BY <1>4, <3>2, <3>3
  <2>2. QED
    BY <2>1
<1>9. s \in [1 .. n -> S]
  BY <1>3, <1>6
<1>10. QED
  BY <1>0, <1>7, <1>8, <1>9 DEF n

\* w is the places keep of es: no more, in their order, and no less.
IsPlacesOf(w, keep, es) ==
  /\ \A k \in DOMAIN w : \E i \in keep : w[k] = es[i]
  /\ \A k, l \in DOMAIN w : k < l => \E i, j \in keep : i < j /\ w[k] = es[i] /\ w[l] = es[j]
  /\ \A i \in keep : \E k \in DOMAIN w : w[k] = es[i]

LEMMA WhereIs ==
  ASSUME NEW T, NEW es \in Seq(T), NEW keep \in SUBSET (DOMAIN es)
  PROVE  Where(es, keep) \in Seq(T) /\ IsPlacesOf(Where(es, keep), keep, es)
<1>w. PICK w : w = Where(es, keep)
  OBVIOUS
<1> DEFINE n == Cardinality(keep)
           s == InOrder(keep)
<1>1. keep \in SUBSET Nat /\ IsFiniteSet(keep)
  <2>1. keep \in SUBSET (1 .. Len(es)) /\ Len(es) \in Nat
    OBVIOUS
  <2>2. IsFiniteSet(1 .. Len(es))
    BY <2>1, FS_Interval
  <2>3. IsFiniteSet(keep)
    BY <2>1, <2>2, FS_Subset
  <2>4. QED
    BY <2>1, <2>3
<1>2. /\ s \in [1 .. n -> keep] /\ n \in Nat
      /\ \A k, l \in 1 .. n : k < l => s[k] < s[l]
      /\ \A x \in keep : \E k \in 1 .. n : s[k] = x
  BY <1>1, InOrderIs
<1>3. w = [k \in 1 .. n |-> es[s[k]]]
  BY <1>w DEF Where
<1> HIDE DEF n, s
<1>4. \A i \in keep : es[i] \in T
  OBVIOUS
<1>5. \A k \in 1 .. n : s[k] \in keep /\ w[k] = es[s[k]]
  BY <1>2, <1>3
<1>6. w \in [1 .. n -> T]
  BY <1>3, <1>4, <1>5
<1>7. DOMAIN w = 1 .. n /\ w \in Seq(T)
  BY <1>2, <1>6
<1>8. \A k, l \in DOMAIN w : k < l => \E i, j \in keep : i < j /\ w[k] = es[i] /\ w[l] = es[j]
  <2>1. ASSUME NEW k \in 1 .. n, NEW l \in 1 .. n, k < l
        PROVE  \E i, j \in keep : i < j /\ w[k] = es[i] /\ w[l] = es[j]
    <3>1. s[k] \in keep /\ s[l] \in keep /\ s[k] < s[l] /\ w[k] = es[s[k]] /\ w[l] = es[s[l]]
      BY <1>2, <1>5, <2>1
    <3>2. QED
      BY <3>1
  <2>2. QED
    BY <1>7, <2>1
<1>9. \A i \in keep : \E k \in DOMAIN w : w[k] = es[i]
  BY <1>2, <1>5, <1>7
<1>10. \A k \in DOMAIN w : \E i \in keep : w[k] = es[i]
  BY <1>5, <1>7
<1>11. QED
  BY <1>w, <1>7, <1>8, <1>9, <1>10 DEF IsPlacesOf

\* p is the end of S, in order: all of it, or not less than one event.
IsEndOf(p, S) ==
  /\ p \in Seq(S)
  /\ \A k, l \in DOMAIN p : k < l => p[k].seq < p[l].seq
  /\ \A k \in DOMAIN p, d \in S : d.seq >= p[k].seq => \E l \in DOMAIN p : p[l] = d
  /\ ~(Len(p) < Cardinality(S)) => \A d \in S : \E l \in DOMAIN p : p[l] = d
  /\ S # {} => p # <<>>

LEMMA NewestIs ==
  ASSUME NEW S \in SUBSET LoggedEvent, \A d, e \in S : d.seq = e.seq => d = e,
         NEW limit \in Nat \ {0}
  PROVE  IsEndOf(Newest(S, limit), S)
<1>p. PICK p : p = Newest(S, limit)
  OBVIOUS
<1> DEFINE After(e) == {f \in S : f.seq > e.seq}
           newest == {e \in S : Cardinality(After(e)) < limit}
           Q(R) == {e.seq : e \in R}
           s == InOrder(Q(newest))
           n == Cardinality(Q(newest))
<1>0. Seqno = 1 .. MaxEvents /\ MaxEvents \in Nat /\ IsFiniteSet(Seqno)
  BY PageAssumption, FS_Interval DEF Seqno
<1>1. \A e \in S : e.seq \in Seqno /\ e.seq \in Nat
  BY <1>0 DEF LoggedEvent
<1>2. /\ IsFiniteSet(S) /\ IsFiniteSet(Q(S)) /\ Cardinality(Q(S)) <= Cardinality(S)
  <2> DEFINE f == [e \in S |-> e.seq]
  <2>1. f \in [S -> Seqno] /\ (\A d, e \in S : f[d] = f[e] => d = e) /\ f \in [S -> Q(S)]
        /\ \A x \in Q(S) : \E e \in S : f[e] = x
    BY <1>1
  <2> HIDE DEF f
  <2>2. f \in Injection(S, Seqno)
    BY <2>1 DEF Injection, IsInjective
  <2>3. IsFiniteSet(S)
    BY <1>0, <2>2, FS_Injection
  <2>4. f \in Surjection(S, Q(S))
    BY <2>1 DEF Surjection
  <2> HIDE DEF Q
  <2>5. QED
    BY <2>3, <2>4, FS_Surjection
<1>3. newest \subseteq S /\ \A R \in SUBSET S : Q(R) \subseteq Q(S) /\ Q(R) \in SUBSET Nat
  BY <1>1
<1>4. ASSUME NEW d \in S, NEW e \in newest, d.seq >= e.seq PROVE d \in newest
  <2>1. After(d) \in SUBSET After(e) /\ After(e) \in SUBSET S
    BY <1>1, <1>3, <1>4
  <2>2. Cardinality(After(e)) < limit
    OBVIOUS
  <2> HIDE DEF After
  <2>3. IsFiniteSet(After(e)) /\ IsFiniteSet(After(d)) /\ Cardinality(After(d)) <= Cardinality(After(e))
    BY <1>2, <2>1, FS_Subset
  <2>4. Cardinality(After(d)) \in Nat /\ Cardinality(After(e)) \in Nat
    BY <2>3, FS_CardinalityType
  <2>5. Cardinality(After(d)) < limit
    BY <2>2, <2>3, <2>4
  <2>6. QED
    BY <2>5
<1>a. S # {} => newest # {}
  <2>1. SUFFICES ASSUME S # {} PROVE newest # {}
    OBVIOUS
  <2> DEFINE c == Cardinality(Q(S))
  <2>2. PICK t : t = InOrder(Q(S))
    OBVIOUS
  <2>3. Q(S) \in SUBSET Nat /\ IsFiniteSet(Q(S)) /\ Q(S) # {}
    BY <1>2, <1>3, <2>1
  <2> HIDE DEF Q
  <2>4. /\ t \in [1 .. c -> Q(S)] /\ c \in Nat
        /\ \A k, l \in 1 .. c : k < l => t[k] < t[l]
        /\ \A x \in Q(S) : \E k \in 1 .. c : t[k] = x
    BY <2>2, <2>3, InOrderIs, SMTT(30)
  <2> HIDE DEF c
  <2>5. c \in 1 .. c /\ t[c] \in Q(S)
    BY <2>3, <2>4
  <2>6. \A x \in Q(S) : ~(x > t[c])
    <3>1. ASSUME NEW x \in Q(S), x > t[c] PROVE FALSE
      <4>1. PICK k \in 1 .. c : t[k] = x
        BY <2>4
      <4>2. k < c \/ k = c
        BY <2>4
      <4>3. x \in Nat /\ t[c] \in Nat
        BY <2>3, <2>5
      <4>4. QED
        BY <2>4, <2>5, <3>1, <4>1, <4>2, <4>3
    <3>2. QED
      BY <3>1
  <2>7. PICK e \in S : e.seq = t[c]
    BY <2>5 DEF Q
  <2>8. \A f \in S : f.seq \in Q(S)
    BY DEF Q
  <2>9. After(e) = {}
    BY <2>6, <2>7, <2>8
  <2>10. Cardinality({}) = 0
    BY FS_EmptySet
  <2>11. Cardinality(After(e)) < limit
    <3>1. Cardinality(After(e)) = 0
      BY <2>9, <2>10
    <3> HIDE DEF After
    <3>2. QED
      BY <3>1
  <2>12. QED
    BY <2>11
<1>5. p = [k \in DOMAIN s |-> CHOOSE e \in newest : e.seq = s[k]]
  BY <1>p DEF Newest
<1> HIDE DEF newest, After
<1>6. IsFiniteSet(Q(newest)) /\ Q(newest) \in SUBSET Nat
  <2> HIDE DEF Q
  <2>1. QED
    BY <1>2, <1>3, FS_Subset
<1>7. /\ s \in [1 .. n -> Q(newest)] /\ n \in Nat
      /\ \A k, l \in 1 .. n : k < l => s[k] < s[l]
      /\ \A x \in Q(newest) : \E k \in 1 .. n : s[k] = x
  <2> HIDE DEF Q
  <2>1. QED
    BY <1>6, InOrderIs
<1> HIDE DEF s, n
<1>8. \A k \in 1 .. n : \E e \in newest : e.seq = s[k]
  BY <1>7
<1>9. \A k \in 1 .. n : p[k] \in newest /\ p[k].seq = s[k]
  BY <1>5, <1>7, <1>8
<1>10. p \in [1 .. n -> S] /\ DOMAIN p = 1 .. n
  BY <1>3, <1>5, <1>7, <1>9
<1>11. p \in Seq(S) /\ Len(p) = n
  BY <1>7, <1>10
<1>12. \A d \in newest : \E l \in DOMAIN p : p[l] = d
  <2>1. TAKE d \in newest
  <2>2. PICK k \in 1 .. n : s[k] = d.seq
    BY <1>7
  <2>3. p[k] \in S /\ p[k].seq = d.seq /\ d \in S
    BY <1>3, <1>9, <2>2
  <2>4. QED
    BY <1>10, <2>3
<1>13. \A k \in DOMAIN p, d \in S : d.seq >= p[k].seq => \E l \in DOMAIN p : p[l] = d
  BY <1>4, <1>9, <1>10, <1>12
<1>14. ASSUME ~(Len(p) < Cardinality(S)), NEW d \in S PROVE d \in newest
  <2>1. SUFFICES ASSUME d \notin newest PROVE FALSE
    OBVIOUS
  <2>2. d.seq \in Q(S) /\ d.seq \notin Q(newest)
    BY <1>3, <2>1
  <2>3. Q(newest) \in SUBSET Q(S)
    BY <1>3
  <2> HIDE DEF Q
  <2>4. Cardinality(Q(newest)) <= Cardinality(Q(S)) /\ (Cardinality(Q(S)) = Cardinality(Q(newest)) => Q(S) = Q(newest))
    BY <1>2, <2>3, FS_Subset
  <2>5. Cardinality(Q(S)) \in Nat /\ Cardinality(S) \in Nat /\ Cardinality(Q(newest)) = n
    BY <1>2, FS_CardinalityType DEF n
  <2>6. QED
    BY <1>2, <1>7, <1>11, <1>14, <2>2, <2>4, <2>5
<1>15. \A k, l \in DOMAIN p : k < l => p[k].seq < p[l].seq
  BY <1>7, <1>9, <1>10
<1>16. ~(Len(p) < Cardinality(S)) => \A d \in S : \E l \in DOMAIN p : p[l] = d
  BY <1>12, <1>14
<1>17. S # {} => p # <<>>
  <2>1. newest # {} => p # <<>>
    <3>1. DOMAIN (<<>>) = {}
      OBVIOUS
    <3>2. QED
      BY <1>12, <3>1
  <2>2. QED
    BY <1>a, <2>1
<1>18. QED
  BY <1>p, <1>11, <1>13, <1>15, <1>16, <1>17 DEF IsEndOf

Shown == view.events \o view.replay

\* What is on its way to the tab: events, and the ends of a replay.
Coming(e) == \E i \in DOMAIN toView : toView[i].t = "event" /\ toView[i].event = e
Ends(truncated) == \E i \in DOMAIN toView : toView[i].t = "synced" /\ toView[i].truncated = truncated

\* r rolled x back.
Undoes(r, x) == r.from # 0 /\ r.from <= x.seq /\ x.seq < r.seq

\* Events that a replay has skipped, or will.
Skipped(d) ==
  /\ view.replaying /\ view.replayFrom > 0 /\ view.replay # <<>>
  /\ view.replayFrom < d.seq /\ d.seq < Head(view.replay).seq
Overlooked(d) ==
  /\ view.replaying /\ view.replay = <<>> /\ Ends(TRUE)
  /\ \A i \in DOMAIN toView : toView[i].t = "event" => d.seq < toView[i].event.seq

Channels ==
  /\ ~client => toView = <<>>
  /\ client => view.channel = "open"
  /\ view.channel # "open" => toThread = <<>>
  /\ view.channel \in {"none", "opening"} => ~view.replaying
  /\ ~view.replaying => view.replay = <<>>
  /\ view.replaying => ~view.synced
  /\ view.synced /\ view.channel = "open" => client
  /\ view.lastSeq <= lastSeqno
  /\ view.replaying => /\ view.replayFrom = 0 => view.events = <<>>
                       /\ view.replay = <<>> => view.replayFrom = view.lastSeq

\* The tab's requests: attach first, then a page at a time.
Asked ==
  /\ \A i \in DOMAIN toThread : toThread[i].t = "attach" =>
       /\ toThread = <<toThread[i]>> /\ ~client /\ view.replaying /\ view.replay = <<>>
       /\ toThread[i].after = view.lastSeq
  /\ \A i \in DOMAIN toThread : toThread[i].t = "history" =>
       /\ toThread = <<toThread[i]>> /\ client /\ ~view.replaying /\ view.events # <<>> /\ view.loadingEarlier
       /\ \A j \in DOMAIN toView : toView[j].t = "event"
       /\ ~torn => \A d \in threadLog : ~(toThread[i].before <= d.seq /\ d.seq < Head(view.events).seq)

\* The log: numbers are given once, and what was rolled back is gone.
LogIsFine ==
  /\ \A d \in threadLog : d.seq <= lastSeqno
  /\ \A d, e \in threadLog : d.seq = e.seq => d = e
  /\ \A r, d \in threadLog : ~Undoes(r, d)

\* What is on its way.
SentIsFine ==
  /\ \A i \in DOMAIN toView : toView[i].t = "event" =>
       LET e == toView[i].event
       IN /\ view.lastSeq < e.seq /\ e.seq <= lastSeqno
          /\ \A d \in threadLog : ~Undoes(e, d)
          /\ e \in threadLog \/ \E r \in threadLog : Undoes(r, e)
          /\ \A j \in DOMAIN toView : j < i /\ toView[j].t = "event" => toView[j].event.seq < e.seq
  /\ \A i \in DOMAIN toView : toView[i].t = "synced" =>
       /\ view.replaying
       /\ \A j \in DOMAIN toView : j # i => toView[j].t = "event"
       /\ ~toView[i].truncated => \A d \in threadLog : ~Skipped(d)
       /\ toView[i].truncated /\ view.replay = <<>> => i # 1
  /\ client => \A d \in threadLog : d.seq > view.lastSeq => Coming(d) \/ Overlooked(d)

PageIsFine ==
  \A i \in DOMAIN toView : toView[i].t = "history" =>
    LET es == toView[i].events
    IN /\ toThread = <<>> /\ ~view.replaying /\ view.events # <<>> /\ view.loadingEarlier
       /\ \A j \in DOMAIN toView : j # i => toView[j].t = "event"
       /\ \A j, k \in DOMAIN es : j < k => es[j].seq < es[k].seq
       /\ \A k \in DOMAIN es : es[k].seq <= lastSeqno
       /\ ~torn => \A k \in DOMAIN es : es[k] \in threadLog \/
                     \E r \in threadLog : /\ Undoes(r, es[k]) /\ view.lastSeq < r.seq
                                          /\ \A j \in DOMAIN toView : j < i => toView[j].event.seq < r.seq
       /\ ~torn /\ es # <<>> =>
            \A d \in threadLog : Head(es).seq <= d.seq /\ d.seq < Head(view.events).seq =>
                                 \E k \in DOMAIN es : es[k] = d

CopyIsFine ==
  /\ \A i, j \in DOMAIN Shown : i < j => Shown[i].seq < Shown[j].seq
  /\ \A i \in DOMAIN Shown : Shown[i].seq <= view.lastSeq
  /\ ~torn => \A i \in DOMAIN Shown : Shown[i] \in threadLog \/
       \E r \in threadLog : Undoes(r, Shown[i]) /\ (view.lastSeq < r.seq \/ Skipped(r))
  /\ ~torn /\ Shown # <<>> =>
       \A d \in threadLog : Head(Shown).seq <= d.seq /\ d.seq <= view.lastSeq =>
         (\E i \in DOMAIN Shown : Shown[i] = d) \/ Skipped(d)

ThreadInv == ThreadTypeOK /\ Channels /\ Asked /\ LogIsFine /\ SentIsFine /\ PageIsFine /\ CopyIsFine
-----------------------------------------------------------------------------
(* What is known of a state's parts.                                          *)

LEMMA ThreadParts ==
  ASSUME ThreadTypeOK
  PROVE  /\ lastSeqno \in Nat /\ MaxEvents \in Nat /\ Seqno \subseteq Nat /\ lastSeqno <= MaxEvents
         /\ \A x \in LoggedEvent : x.seq \in Nat /\ x.from \in Nat
         /\ \A d \in threadLog : d \in LoggedEvent /\ d.seq \in Nat /\ d.from \in Nat
         /\ view.channel \in {"none", "opening", "open", "closed"}
         /\ view.events \in Seq(LoggedEvent) /\ view.replay \in Seq(LoggedEvent)
         /\ view.lastSeq \in Nat /\ view.lastSeq <= MaxEvents /\ view.replayFrom \in Nat
         /\ view.replaying \in BOOLEAN /\ view.synced \in BOOLEAN /\ view.truncated \in BOOLEAN
         /\ view.loadingEarlier \in BOOLEAN
<1>1. MaxEvents \in Nat /\ Seqno \subseteq Nat
  BY PageAssumption DEF Seqno
<1>2. ASSUME NEW x \in LoggedEvent PROVE x.seq \in Nat /\ x.from \in Nat
  <2>1. x.seq \in Seqno /\ x.from \in 0 .. MaxEvents
    BY DEF LoggedEvent
  <2>2. x.from \in Nat
    BY <1>1, <2>1
  <2>3. QED
    BY <1>1, <2>1, <2>2
<1>3. \A d \in threadLog : d \in LoggedEvent
  BY DEF ThreadTypeOK
<1>4. lastSeqno \in 0 .. MaxEvents /\ view \in ViewState
  BY DEF ThreadTypeOK
<1>5. QED
  BY <1>1, <1>2, <1>3, <1>4 DEF ViewState

LEMMA SentParts ==
  ASSUME ThreadTypeOK, NEW i \in DOMAIN toView
  PROVE  /\ toView \in Seq(DaemonMsg) /\ DOMAIN toView = 1 .. Len(toView) /\ Len(toView) \in Nat /\ i \in Nat
         /\ toView[i] \in DaemonMsg /\ toView[i].t \in {"event", "synced", "history"}
         /\ toView[i].t = "event" => /\ toView[i].event \in LoggedEvent
                                     /\ toView[i].event.seq \in Nat /\ toView[i].event.from \in Nat
                                     /\ toView[i] = [t |-> "event", event |-> toView[i].event]
         /\ toView[i].t = "synced" => toView[i].truncated \in BOOLEAN
         /\ toView[i].t = "history" => toView[i].events \in Seq(LoggedEvent) /\ toView[i].more \in BOOLEAN
<1>1. toView \in Seq(DaemonMsg) /\ toView[i] \in DaemonMsg
  BY DEF ThreadTypeOK
<1>2. /\ toView[i].t \in {"event", "synced", "history"}
      /\ toView[i].t = "event" => toView[i].event \in LoggedEvent /\ toView[i] = [t |-> "event", event |-> toView[i].event]
      /\ toView[i].t = "synced" => toView[i].truncated \in BOOLEAN
      /\ toView[i].t = "history" => toView[i].events \in Seq(LoggedEvent) /\ toView[i].more \in BOOLEAN
  BY <1>1 DEF DaemonMsg
<1>3. QED
  BY <1>1, <1>2, ThreadParts

LEMMA AskedParts ==
  ASSUME ThreadTypeOK, NEW i \in DOMAIN toThread
  PROVE  /\ toThread \in Seq(ClientMsg) /\ toThread[i].t \in {"attach", "history"}
         /\ toThread[i].t = "attach" => toThread[i].after \in Nat /\ toThread[i].limit \in Nat \ {0}
         /\ toThread[i].t = "history" => toThread[i].before \in Nat /\ toThread[i].limit \in Nat \ {0}
<1>1. toThread \in Seq(ClientMsg) /\ toThread[i] \in ClientMsg
  BY DEF ThreadTypeOK
<1>2. QED
  BY <1>1, PageAssumption DEF ClientMsg, Seqno

\* Two sequences, one after the other.
LEMMA JoinedIs ==
  ASSUME NEW T, NEW a \in Seq(T), NEW b \in Seq(T), NEW c, c = a \o b
  PROVE  /\ c \in Seq(T) /\ Len(c) = Len(a) + Len(b) /\ Len(a) \in Nat /\ Len(b) \in Nat
         /\ \A i \in DOMAIN c : c[i] \in T /\ i \in Nat
         /\ \A i \in DOMAIN a : i \in DOMAIN c /\ c[i] = a[i] /\ i \in Nat /\ i <= Len(a)
         /\ \A i \in DOMAIN b : Len(a) + i \in DOMAIN c /\ c[Len(a) + i] = b[i] /\ i \in Nat /\ i > 0
         /\ \A i \in DOMAIN c : \/ i \in DOMAIN a
                                \/ i \notin DOMAIN a /\ i > Len(a) /\ i - Len(a) \in DOMAIN b
         /\ (b = <<>> => c = a) /\ (a = <<>> => c = b)
         /\ a # <<>> => c # <<>> /\ Head(c) = Head(a) /\ 1 \in DOMAIN a /\ Head(a) = a[1]
<1> DEFINE n == Len(a)
           m == Len(b)
<1>1. n \in Nat /\ m \in Nat /\ DOMAIN a = 1 .. n /\ DOMAIN b = 1 .. m
  OBVIOUS
<1>2. c \in Seq(T) /\ Len(c) = n + m /\ \A i \in 1 .. (n + m) : c[i] = IF i <= n THEN a[i] ELSE b[i - n]
  BY ConcatProperties
<1>3. (b = <<>> => c = a) /\ (a = <<>> => c = b)
  BY ConcatEmptySeq
<1>4. DOMAIN c = 1 .. (n + m)
  BY <1>2
<1>5. \A i \in DOMAIN c : c[i] \in T
  BY <1>2
<1> HIDE DEF n, m
<1>6. ASSUME NEW i \in 1 .. n PROVE i \in 1 .. (n + m) /\ c[i] = a[i] /\ i \in Nat /\ i <= n
  BY <1>1, <1>2
<1>7. ASSUME NEW i \in 1 .. m PROVE n + i \in 1 .. (n + m) /\ c[n + i] = b[i] /\ i \in Nat /\ i > 0
  <2>1. n + i \in 1 .. (n + m) /\ ~(n + i <= n) /\ (n + i) - n = i
    BY <1>1
  <2>2. QED
    BY <1>1, <1>2, <2>1
<1>8. ASSUME NEW i \in 1 .. (n + m) PROVE i \in Nat /\ (i \in 1 .. n \/ (i \notin 1 .. n /\ i > n /\ i - n \in 1 .. m))
  BY <1>1
<1>9. a # <<>> => c # <<>> /\ Head(c) = Head(a) /\ 1 \in DOMAIN a /\ Head(a) = a[1]
  <2>1. a # <<>> => n > 0
    BY <1>1 DEF n
  <2>2. a # <<>> => 1 \in 1 .. n /\ n + m > 0
    BY <1>1, <2>1
  <2>3. a # <<>> => Head(a) = a[1]
    OBVIOUS
  <2>4. c # <<>> => Head(c) = c[1]
    BY <1>2
  <2>5. a # <<>> => c # <<>>
    BY <1>2, <2>2
  <2>6. QED
    BY <1>1, <1>6, <2>2, <2>3, <2>4, <2>5
<1>10. QED
  BY <1>1, <1>2, <1>3, <1>4, <1>5, <1>6, <1>7, <1>8, <1>9 DEF n, m

LEMMA ShownParts ==
  ASSUME ThreadTypeOK
  PROVE  /\ Shown \in Seq(LoggedEvent) /\ Len(view.events) \in Nat
         /\ \A i \in DOMAIN Shown : Shown[i] \in LoggedEvent /\ Shown[i].seq \in Nat /\ i \in Nat
         /\ \A i \in DOMAIN view.events : /\ i \in DOMAIN Shown /\ Shown[i] = view.events[i]
                                         /\ i \in Nat /\ i <= Len(view.events)
         /\ \A i \in DOMAIN view.replay : /\ Len(view.events) + i \in DOMAIN Shown
                                         /\ Shown[Len(view.events) + i] = view.replay[i] /\ i \in Nat /\ i > 0
         /\ \A i \in DOMAIN Shown : \/ i \in DOMAIN view.events
                                    \/ /\ i \notin DOMAIN view.events /\ i > Len(view.events)
                                       /\ i - Len(view.events) \in DOMAIN view.replay
         /\ (view.replay = <<>> => Shown = view.events) /\ (view.events = <<>> => Shown = view.replay)
         /\ view.events # <<>> => /\ Shown # <<>> /\ Head(Shown) = Head(view.events)
                                  /\ 1 \in DOMAIN Shown /\ Shown[1] = Head(view.events)
<1>1. view.events \in Seq(LoggedEvent) /\ view.replay \in Seq(LoggedEvent)
  BY ThreadParts
<1>2. PICK c : c = view.events \o view.replay
  OBVIOUS
<1>3. PICK a, b : a = view.events /\ b = view.replay /\ a \in Seq(LoggedEvent) /\ b \in Seq(LoggedEvent) /\ c = a \o b
  BY <1>1, <1>2
<1>4. /\ c \in Seq(LoggedEvent) /\ Len(c) = Len(a) + Len(b) /\ Len(a) \in Nat /\ Len(b) \in Nat
      /\ \A i \in DOMAIN c : c[i] \in LoggedEvent /\ i \in Nat
      /\ \A i \in DOMAIN a : i \in DOMAIN c /\ c[i] = a[i] /\ i \in Nat /\ i <= Len(a)
      /\ \A i \in DOMAIN b : Len(a) + i \in DOMAIN c /\ c[Len(a) + i] = b[i] /\ i \in Nat /\ i > 0
      /\ \A i \in DOMAIN c : \/ i \in DOMAIN a
                             \/ i \notin DOMAIN a /\ i > Len(a) /\ i - Len(a) \in DOMAIN b
      /\ (b = <<>> => c = a) /\ (a = <<>> => c = b)
      /\ a # <<>> => c # <<>> /\ Head(c) = Head(a) /\ 1 \in DOMAIN a /\ Head(a) = a[1]
  <2>1. a \in Seq(LoggedEvent) /\ b \in Seq(LoggedEvent) /\ c = a \o b
    BY <1>3
  <2>2. PICK T : T = LoggedEvent
    OBVIOUS
  <2>3. a \in Seq(T) /\ b \in Seq(T) /\ c = a \o b
    BY <2>1, <2>2
  <2>4. /\ c \in Seq(T) /\ \A i \in DOMAIN c : c[i] \in T /\ i \in Nat
        /\ Len(c) = Len(a) + Len(b) /\ Len(a) \in Nat /\ Len(b) \in Nat
        /\ \A i \in DOMAIN a : i \in DOMAIN c /\ c[i] = a[i] /\ i \in Nat /\ i <= Len(a)
        /\ \A i \in DOMAIN b : Len(a) + i \in DOMAIN c /\ c[Len(a) + i] = b[i] /\ i \in Nat /\ i > 0
        /\ \A i \in DOMAIN c : \/ i \in DOMAIN a
                               \/ i \notin DOMAIN a /\ i > Len(a) /\ i - Len(a) \in DOMAIN b
        /\ (b = <<>> => c = a) /\ (a = <<>> => c = b)
        /\ a # <<>> => c # <<>> /\ Head(c) = Head(a) /\ 1 \in DOMAIN a /\ Head(a) = a[1]
    BY <2>3, JoinedIs, SMTT(30)
  <2>5. QED
    BY <2>2, <2>4
<1>5. \A i \in DOMAIN c : c[i].seq \in Nat
  BY <1>4, ThreadParts
<1>6. QED
  BY <1>2, <1>3, <1>4, <1>5 DEF Shown

\* What the log's next event does to what is on its way.
LEMMA SentGrows ==
  ASSUME ThreadTypeOK, NEW e \in LoggedEvent, Broadcast1(e)
  PROVE  /\ toView' \in Seq(DaemonMsg) /\ DOMAIN toView \subseteq DOMAIN toView'
         /\ \A i \in DOMAIN toView : toView'[i] = toView[i]
         /\ \A i \in DOMAIN toView' : \/ i \in DOMAIN toView
                                      \/ /\ i = Len(toView) + 1 /\ toView'[i] = [t |-> "event", event |-> e] /\ client
                                         /\ \A j \in DOMAIN toView : j < i
         /\ client => Len(toView) + 1 \in DOMAIN toView' /\ toView'[Len(toView) + 1] = [t |-> "event", event |-> e]
         /\ ~client => toView' = toView
<1> DEFINE m == [t |-> "event", event |-> e]
<1>1. toView \in Seq(DaemonMsg) /\ m \in DaemonMsg
  BY DEF ThreadTypeOK, DaemonMsg
<1>2. toView' = IF client THEN Append(toView, m) ELSE toView
  BY DEF Broadcast1
<1> HIDE DEF m
<1>3. QED
  BY <1>1, <1>2 DEF m

\* The log goes on with e, and without what e rolls back.
GoesOn(e) ==
  /\ e \in LoggedEvent /\ e.seq = lastSeqno + 1 /\ lastSeqno' = e.seq
  /\ threadLog' = {x \in threadLog : e.from = 0 \/ x.seq < e.from} \cup {e}
  /\ e.from = 0 \/ \E p \in threadLog : p.from = 0 /\ p.seq = e.from
  /\ Broadcast1(e)
  /\ UNCHANGED <<client, toThread, view, channels, torn>>

LEMMA Steadily ==
  ASSUME ThreadInv, NEW e, GoesOn(e)
  PROVE  /\ \A d \in threadLog' : d \in threadLog \/ d = e
         /\ \A d \in threadLog : d \in threadLog' \/ Undoes(e, d)
         /\ e \in threadLog' /\ e.seq \in Nat /\ e.from \in Nat /\ e \in LoggedEvent
         /\ \A d \in threadLog : d.seq < e.seq /\ ~Undoes(d, e)
         /\ \A d \in threadLog' : ~Undoes(e, d)
         /\ \A r \in threadLog, x \in LoggedEvent : Undoes(r, x) /\ x.seq <= lastSeqno =>
              r \in threadLog' \/ Undoes(e, x)
<1>0. /\ ThreadTypeOK /\ LogIsFine /\ lastSeqno \in Nat /\ e \in LoggedEvent /\ e.seq = lastSeqno + 1
      /\ \A d \in threadLog : d \in LoggedEvent /\ d.seq \in Nat /\ d.from \in Nat /\ d.seq <= lastSeqno
      /\ \A x \in LoggedEvent : x.seq \in Nat /\ x.from \in Nat
  BY ThreadParts DEF ThreadInv, LogIsFine, GoesOn
<1>1. threadLog' = {x \in threadLog : e.from = 0 \/ x.seq < e.from} \cup {e}
  BY DEF GoesOn
<1>2. e.seq \in Nat /\ e.from \in Nat
  BY <1>0
<1>3. \A d \in threadLog : d.seq < e.seq /\ ~Undoes(d, e)
  BY <1>0, <1>2 DEF Undoes
<1>4. \A d \in threadLog : d \in threadLog' \/ Undoes(e, d)
  BY <1>0, <1>1, <1>2, <1>3 DEF Undoes
<1>5. \A d \in threadLog' : ~Undoes(e, d)
  BY <1>0, <1>1, <1>2 DEF Undoes
<1>6. ASSUME NEW r \in threadLog, NEW x \in LoggedEvent, Undoes(r, x), x.seq <= lastSeqno, r \notin threadLog'
      PROVE  Undoes(e, x)
  <2>1. e.from # 0 /\ ~(r.seq < e.from)
    BY <1>1, <1>6
  <2>2. PICK p \in threadLog : p.from = 0 /\ p.seq = e.from
    BY <2>1 DEF GoesOn
  <2>3. p # r /\ p.seq # r.seq
    BY <1>0, <1>6, <2>2 DEF LogIsFine, Undoes
  <2>4. ~Undoes(r, p)
    BY <1>0 DEF LogIsFine
  <2>5. p.seq < r.from
    BY <1>0, <1>2, <1>6, <2>1, <2>2, <2>3, <2>4 DEF Undoes
  <2>6. QED
    BY <1>0, <1>2, <1>6, <2>1, <2>2, <2>5 DEF Undoes
<1>7. QED
  BY <1>0, <1>1, <1>2, <1>3, <1>4, <1>5, <1>6

\* What was rolled back stays rolled back, by r or by e.
LEMMA StaysUndone ==
  ASSUME ThreadInv, NEW e, GoesOn(e), NEW x \in LoggedEvent, x.seq <= lastSeqno,
         x \in threadLog \/ \E r \in threadLog : Undoes(r, x)
  PROVE  x \in threadLog' \/ \E r \in threadLog' : Undoes(r, x)
BY Steadily

LEMMA GoesOnKeeps ==
  ASSUME ThreadInv, NEW e, GoesOn(e)
  PROVE  ThreadTypeOK' /\ Channels' /\ Asked' /\ LogIsFine'
<1>0. /\ ThreadTypeOK /\ Channels /\ Asked /\ LogIsFine /\ UNCHANGED <<client, toThread, view, channels, torn>>
      /\ e.seq = lastSeqno + 1 /\ lastSeqno' = e.seq /\ lastSeqno \in Nat /\ e \in LoggedEvent /\ Broadcast1(e)
  BY ThreadParts DEF ThreadInv, GoesOn
<1>1. ThreadTypeOK'
  <2>1. e.seq \in 1 .. MaxEvents
    BY <1>0 DEF LoggedEvent, Seqno
  <2>2. lastSeqno' \in 0 .. MaxEvents
    BY <1>0, <2>1
  <2>3. threadLog' \subseteq LoggedEvent
    BY <1>0 DEF GoesOn, ThreadTypeOK
  <2>4. QED
    BY <1>0, <2>2, <2>3, SentGrows DEF ThreadTypeOK
<1>2. Channels'
  <2>1. ~client => toView' = toView
    BY <1>0, SentGrows
  <2>2. view.lastSeq <= lastSeqno'
    BY <1>0, ThreadParts DEF Channels
  <2>3. QED
    BY <1>0, <2>1, <2>2 DEF Channels
<1>3. Asked'
  <2>1. ASSUME NEW i \in DOMAIN toThread, toThread[i].t = "attach" PROVE toView' = toView
    BY <1>0, <2>1, SentGrows DEF Asked
  <2>2. ASSUME NEW i \in DOMAIN toThread, toThread[i].t = "history"
        PROVE  /\ \A j \in DOMAIN toView' : toView'[j].t = "event"
               /\ ~torn => \A d \in threadLog' : ~(toThread[i].before <= d.seq /\ d.seq < Head(view.events).seq)
    <3>1. \A j \in DOMAIN toView' : toView'[j].t = "event"
      <4>1. \A j \in DOMAIN toView : toView[j].t = "event"
        BY <1>0, <2>2 DEF Asked
      <4>2. ASSUME NEW j \in DOMAIN toView' PROVE toView'[j].t = "event"
        <5>1. (j \in DOMAIN toView /\ toView'[j] = toView[j]) \/ toView'[j] = [t |-> "event", event |-> e]
          BY <1>0, SentGrows
        <5>2. QED
          BY <4>1, <5>1
      <4>3. QED
        BY <4>2
    <3>2. ~(e.seq < Head(view.events).seq)
      <4>1. view.events # <<>> /\ ~view.replaying
        BY <1>0, <2>2 DEF Asked
      <4>2. 1 \in DOMAIN Shown /\ Shown[1] = Head(view.events)
        BY <1>0, <4>1, ShownParts
      <4>3. Head(view.events).seq <= view.lastSeq /\ Head(view.events).seq \in Nat
        BY <1>0, <4>2, ShownParts DEF ThreadInv, CopyIsFine
      <4>4. QED
        BY <1>0, <4>3, ThreadParts DEF Channels
    <3>3. QED
      BY <1>0, <2>2, <3>1, <3>2, Steadily DEF Asked
  <2>3. QED
    BY <1>0, <2>2 DEF Asked
<1>4. LogIsFine'
  <2>1. /\ \A d \in threadLog' : d \in threadLog \/ d = e
        /\ \A d \in threadLog : d.seq < e.seq /\ ~Undoes(d, e)
        /\ \A d \in threadLog' : ~Undoes(e, d)
        /\ e.seq \in Nat /\ \A d \in threadLog : d.seq \in Nat
    BY <1>0, Steadily, ThreadParts
  <2>2. \A d \in threadLog' : d.seq <= e.seq
    BY <2>1
  <2>3. \A d, x \in threadLog' : d.seq = x.seq => d = x
    BY <1>0, <2>1 DEF LogIsFine
  <2>4. \A r, d \in threadLog' : ~Undoes(r, d)
    BY <1>0, <2>1 DEF LogIsFine
  <2>5. QED
    BY <1>0, <2>2, <2>3, <2>4 DEF LogIsFine
<1>5. QED
  BY <1>1, <1>2, <1>3, <1>4

LEMMA HeadsShown ==
  ASSUME ThreadInv
  PROVE  /\ view.replay # <<>> => /\ Head(view.replay).seq \in Nat /\ Head(view.replay).seq <= view.lastSeq
                                 /\ Len(view.events) + 1 \in DOMAIN Shown
                                 /\ Shown[Len(view.events) + 1] = Head(view.replay)
         /\ view.events # <<>> => Head(view.events).seq \in Nat /\ Head(view.events).seq <= view.lastSeq
         /\ view.lastSeq <= lastSeqno /\ view.lastSeq \in Nat /\ lastSeqno \in Nat
<1>0. ThreadTypeOK /\ Channels /\ CopyIsFine
  BY DEF ThreadInv
<1>1. ASSUME view.replay # <<>>
      PROVE  Len(view.events) + 1 \in DOMAIN Shown /\ Shown[Len(view.events) + 1] = Head(view.replay)
  <2>1. PICK b : b = view.replay /\ b \in Seq(LoggedEvent) /\ b # <<>>
    BY <1>0, <1>1, ThreadParts
  <2>2. 1 \in DOMAIN b /\ Head(b) = b[1]
    BY <2>1
  <2>3. QED
    BY <1>0, <2>1, <2>2, ShownParts
<1>2. \A i \in DOMAIN Shown : Shown[i].seq \in Nat /\ Shown[i].seq <= view.lastSeq
  BY <1>0, ShownParts DEF CopyIsFine
<1>3. view.lastSeq <= lastSeqno /\ view.lastSeq \in Nat /\ lastSeqno \in Nat
  BY <1>0, ThreadParts DEF Channels
<1>4. view.events # <<>> => 1 \in DOMAIN Shown /\ Shown[1] = Head(view.events)
  BY <1>0, ShownParts
<1>5. QED
  BY <1>1, <1>2, <1>3, <1>4

LEMMA GoesOnSent ==
  ASSUME ThreadInv, NEW e, GoesOn(e)
  PROVE  SentIsFine'
<1>0. /\ ThreadTypeOK /\ SentIsFine /\ UNCHANGED <<client, toThread, view, channels, torn>>
      /\ e.seq = lastSeqno + 1 /\ lastSeqno' = e.seq /\ lastSeqno \in Nat /\ e \in LoggedEvent /\ Broadcast1(e)
      /\ view.lastSeq <= lastSeqno /\ view.lastSeq \in Nat /\ e.seq \in Nat
  BY ThreadParts, HeadsShown, Steadily DEF ThreadInv, GoesOn
<1>1. /\ \A i \in DOMAIN toView : i \in DOMAIN toView' /\ toView'[i] = toView[i]
      /\ \A i \in DOMAIN toView' : \/ i \in DOMAIN toView
                                   \/ /\ i = Len(toView) + 1 /\ toView'[i] = [t |-> "event", event |-> e] /\ client
                                      /\ \A j \in DOMAIN toView : j < i
      /\ client => Len(toView) + 1 \in DOMAIN toView' /\ toView'[Len(toView) + 1] = [t |-> "event", event |-> e]
      /\ \A i \in DOMAIN toView : i \in Nat
  BY <1>0, SentGrows, SentParts
<1>2. \A i \in DOMAIN toView : toView[i].t = "event" =>
        /\ toView[i].event \in LoggedEvent /\ toView[i].event.seq \in Nat
        /\ view.lastSeq < toView[i].event.seq /\ toView[i].event.seq <= lastSeqno
        /\ \A d \in threadLog : ~Undoes(toView[i].event, d)
        /\ toView[i].event \in threadLog \/ \E r \in threadLog : Undoes(r, toView[i].event)
        /\ \A j \in DOMAIN toView : j < i /\ toView[j].t = "event" => toView[j].event.seq < toView[i].event.seq
  BY <1>0, SentParts DEF SentIsFine
<1>3. \A d \in threadLog' : d \in threadLog \/ d = e
  BY Steadily
<1>4. ASSUME NEW i \in DOMAIN toView', toView'[i].t = "event", NEW x, x = toView'[i].event
      PROVE  /\ view.lastSeq < x.seq /\ x.seq <= lastSeqno'
             /\ \A d \in threadLog' : ~Undoes(x, d)
             /\ x \in threadLog' \/ \E r \in threadLog' : Undoes(r, x)
             /\ \A j \in DOMAIN toView' : j < i /\ toView'[j].t = "event" => toView'[j].event.seq < x.seq
  <2>1. CASE i \in DOMAIN toView
    <3>1. toView[i].t = "event" /\ x = toView[i].event
      BY <1>1, <1>4, <2>1
    <3>2. /\ x \in LoggedEvent /\ x.seq \in Nat /\ view.lastSeq < x.seq /\ x.seq <= lastSeqno
          /\ \A d \in threadLog : ~Undoes(x, d)
          /\ x \in threadLog \/ \E r \in threadLog : Undoes(r, x)
          /\ \A j \in DOMAIN toView : j < i /\ toView[j].t = "event" => toView[j].event.seq < x.seq
      BY <1>2, <2>1, <3>1
    <3>3. ~Undoes(x, e)
      BY <1>0, <3>2 DEF Undoes
    <3>4. x \in threadLog' \/ \E r \in threadLog' : Undoes(r, x)
      BY <3>2, StaysUndone
    <3>5. ASSUME NEW j \in DOMAIN toView', j < i PROVE j \in DOMAIN toView
      <4>1. CASE j \notin DOMAIN toView
        <5>1. i < j /\ i \in Nat /\ j \in Nat
          BY <1>1, <2>1, <4>1
        <5>2. QED
          BY <3>5, <5>1
      <4>2. QED
        BY <4>1
    <3>6. \A j \in DOMAIN toView' : j < i /\ toView'[j].t = "event" => toView'[j].event.seq < x.seq
      BY <1>1, <3>2, <3>5
    <3>7. QED
      BY <1>0, <1>3, <3>2, <3>3, <3>4, <3>6
  <2>2. CASE i \notin DOMAIN toView
    <3>1. x = e /\ \A j \in DOMAIN toView' : j < i => j \in DOMAIN toView
      BY <1>1, <1>4, <2>2
    <3>2. \A j \in DOMAIN toView' : j < i /\ toView'[j].t = "event" => toView'[j].event.seq < x.seq
      <4>1. ASSUME NEW j \in DOMAIN toView', j < i, toView'[j].t = "event" PROVE toView'[j].event.seq < e.seq
        <5>1. j \in DOMAIN toView /\ toView[j].t = "event" /\ toView'[j] = toView[j]
          BY <1>1, <3>1, <4>1
        <5>2. QED
          BY <1>0, <1>2, <5>1
      <4>2. QED
        BY <3>1, <4>1
    <3>3. QED
      BY <1>0, <3>1, <3>2, Steadily
  <2>3. QED
    BY <2>1, <2>2
<1>5. ASSUME NEW i \in DOMAIN toView', toView'[i].t = "synced"
      PROVE  /\ view.replaying
             /\ \A j \in DOMAIN toView' : j # i => toView'[j].t = "event"
             /\ ~toView'[i].truncated => \A d \in threadLog' : ~Skipped(d)'
             /\ toView'[i].truncated /\ view.replay = <<>> => i # 1
  <2>1. i \in DOMAIN toView /\ toView[i].t = "synced" /\ toView'[i] = toView[i]
    BY <1>1, <1>5
  <2>2. /\ view.replaying
        /\ \A j \in DOMAIN toView : j # i => toView[j].t = "event"
        /\ ~toView[i].truncated => \A d \in threadLog : ~Skipped(d)
        /\ toView[i].truncated /\ view.replay = <<>> => i # 1
    BY <1>0, <2>1 DEF SentIsFine
  <2>3. \A j \in DOMAIN toView' : j # i => toView'[j].t = "event"
    BY <1>1, <2>2
  <2>4. \A d : Skipped(d)' <=> Skipped(d)
    BY <1>0 DEF Skipped
  <2>5. ~Skipped(e)
    BY <1>0, HeadsShown DEF Skipped
  <2>6. QED
    BY <1>3, <2>1, <2>2, <2>3, <2>4, <2>5
<1>6. ASSUME client, NEW d \in threadLog', d.seq > view.lastSeq PROVE Coming(d)' \/ Overlooked(d)'
  <2>1. CASE d = e
    BY <1>1, <1>6, <2>1 DEF Coming
  <2>2. CASE d \in threadLog /\ Coming(d)
    BY <1>1, <2>2 DEF Coming
  <2>3. CASE d \in threadLog /\ Overlooked(d)
    <3>1. Ends(TRUE)'
      BY <1>1, <2>3 DEF Overlooked, Ends
    <3>2. d.seq < e.seq
      BY <2>3, Steadily
    <3>3. \A i \in DOMAIN toView' : toView'[i].t = "event" => d.seq < toView'[i].event.seq
      <4>1. ASSUME NEW i \in DOMAIN toView', toView'[i].t = "event" PROVE d.seq < toView'[i].event.seq
        <5>1. CASE i \in DOMAIN toView
          BY <1>1, <2>3, <4>1, <5>1 DEF Overlooked
        <5>2. CASE i \notin DOMAIN toView
          BY <1>1, <3>2, <5>2
        <5>3. QED
          BY <5>1, <5>2
      <4>2. QED
        BY <4>1
    <3>4. QED
      BY <1>0, <2>3, <3>1, <3>3 DEF Overlooked
  <2>4. QED
    BY <1>0, <1>3, <1>6, <2>1, <2>2, <2>3 DEF SentIsFine
<1>7. QED
  BY <1>0, <1>4, <1>5, <1>6 DEF SentIsFine

LEMMA GoesOnPageAt ==
  ASSUME ThreadInv, NEW e, GoesOn(e),
         NEW i \in DOMAIN toView', toView'[i].t = "history", NEW es, es = toView'[i].events
  PROVE  /\ toThread = <<>> /\ ~view.replaying /\ view.events # <<>> /\ view.loadingEarlier
         /\ \A j \in DOMAIN toView' : j # i => toView'[j].t = "event"
         /\ \A j, k \in DOMAIN es : j < k => es[j].seq < es[k].seq
         /\ \A k \in DOMAIN es : es[k].seq <= lastSeqno'
         /\ ~torn => \A k \in DOMAIN es : es[k] \in threadLog' \/
                       \E r \in threadLog' : /\ Undoes(r, es[k]) /\ view.lastSeq < r.seq
                                             /\ \A j \in DOMAIN toView' : j < i => toView'[j].event.seq < r.seq
         /\ ~torn /\ es # <<>> =>
              \A d \in threadLog' : Head(es).seq <= d.seq /\ d.seq < Head(view.events).seq =>
                                   \E k \in DOMAIN es : es[k] = d
<1>0. /\ ThreadTypeOK /\ PageIsFine /\ SentIsFine /\ UNCHANGED <<client, toThread, view, channels, torn>>
      /\ e.seq = lastSeqno + 1 /\ lastSeqno' = e.seq /\ lastSeqno \in Nat /\ e \in LoggedEvent /\ Broadcast1(e)
      /\ view.lastSeq <= lastSeqno /\ view.lastSeq \in Nat /\ e.seq \in Nat
  BY ThreadParts, HeadsShown, Steadily DEF ThreadInv, GoesOn
<1>1. /\ \A n \in DOMAIN toView : n \in DOMAIN toView' /\ toView'[n] = toView[n]
      /\ \A n \in DOMAIN toView' : \/ n \in DOMAIN toView
                                   \/ /\ n = Len(toView) + 1 /\ toView'[n] = [t |-> "event", event |-> e] /\ client
                                      /\ \A j \in DOMAIN toView : j < n
      /\ \A n \in DOMAIN toView : n \in Nat
  BY <1>0, SentGrows, SentParts
<1>2. toView'[i].t = "history" /\ es = toView'[i].events
  OBVIOUS
<1>3. i \in DOMAIN toView /\ toView[i].t = "history" /\ es = toView[i].events
  BY <1>1, <1>2
<1>4. /\ toThread = <<>> /\ ~view.replaying /\ view.events # <<>> /\ view.loadingEarlier
      /\ \A j \in DOMAIN toView : j # i => toView[j].t = "event"
      /\ \A j, k \in DOMAIN es : j < k => es[j].seq < es[k].seq
      /\ \A k \in DOMAIN es : es[k].seq <= lastSeqno
      /\ ~torn => \A k \in DOMAIN es : es[k] \in threadLog \/
                    \E r \in threadLog : /\ Undoes(r, es[k]) /\ view.lastSeq < r.seq
                                         /\ \A j \in DOMAIN toView : j < i => toView[j].event.seq < r.seq
      /\ ~torn /\ es # <<>> =>
           \A d \in threadLog : Head(es).seq <= d.seq /\ d.seq < Head(view.events).seq =>
                                \E k \in DOMAIN es : es[k] = d
  BY <1>0, <1>3 DEF PageIsFine
<1>5. es \in Seq(LoggedEvent) /\ \A k \in DOMAIN es : es[k] \in LoggedEvent /\ es[k].seq \in Nat
  <2>1. es \in Seq(LoggedEvent)
    BY <1>0, <1>3, SentParts
  <2>2. \A k \in DOMAIN es : es[k] \in LoggedEvent
    BY <2>1
  <2>3. QED
    BY <1>0, <2>1, <2>2, ThreadParts
<1>6. \A j \in DOMAIN toView' : j # i => toView'[j].t = "event"
  BY <1>1, <1>4
<1>7. ASSUME NEW j \in DOMAIN toView', j < i
      PROVE  j \in DOMAIN toView /\ toView'[j] = toView[j] /\ toView[j].t = "event" /\ toView[j].event.seq < e.seq
  <2>1. j \in DOMAIN toView
    <3>1. CASE j \notin DOMAIN toView
      <4>1. i < j /\ i \in Nat /\ j \in Nat
        BY <1>1, <1>3, <3>1
      <4>2. QED
        BY <1>7, <4>1
    <3>2. QED
      BY <3>1
  <2>2. toView'[j] = toView[j] /\ toView[j].t = "event"
    BY <1>1, <1>3, <1>4, <1>7, <2>1
  <2>3. toView[j].event.seq <= lastSeqno /\ toView[j].event.seq \in Nat
    BY <1>0, <2>1, <2>2, SentParts DEF SentIsFine
  <2>4. QED
    BY <1>0, <2>1, <2>2, <2>3
<1>8. ASSUME ~torn, NEW k \in DOMAIN es, es[k] \notin threadLog'
      PROVE  \E r \in threadLog' : /\ Undoes(r, es[k]) /\ view.lastSeq < r.seq
                                   /\ \A j \in DOMAIN toView' : j < i => toView'[j].event.seq < r.seq
  <2>1. view.lastSeq < e.seq /\ \A j \in DOMAIN toView' : j < i => toView'[j].event.seq < e.seq
    BY <1>0, <1>7
  <2>2. CASE Undoes(e, es[k])
    BY <2>1, <2>2, Steadily
  <2>3. CASE ~Undoes(e, es[k])
    <3>1. es[k] \notin threadLog
      BY <1>8, <2>3, Steadily
    <3>2. PICK r \in threadLog : /\ Undoes(r, es[k]) /\ view.lastSeq < r.seq
                                 /\ \A j \in DOMAIN toView : j < i => toView[j].event.seq < r.seq
      BY <1>4, <1>8, <3>1
    <3>3. r \in threadLog'
      BY <1>4, <1>5, <2>3, <3>2, Steadily
    <3>4. \A j \in DOMAIN toView' : j < i => toView'[j].event.seq < r.seq
      BY <1>7, <3>2
    <3>5. QED
      BY <3>2, <3>3, <3>4
  <2>4. QED
    BY <2>2, <2>3
<1>9. ASSUME ~torn, es # <<>>, NEW d \in threadLog', Head(es).seq <= d.seq, d.seq < Head(view.events).seq
      PROVE  \E k \in DOMAIN es : es[k] = d
  <2>1. ~(e.seq < Head(view.events).seq)
    BY <1>0, <1>4, HeadsShown
  <2>2. d \in threadLog
    BY <1>9, <2>1, Steadily
  <2>3. QED
    BY <1>4, <1>9, <2>2
<1>10. \A k \in DOMAIN es : es[k].seq <= lastSeqno'
  BY <1>0, <1>4, <1>5
<1>11. QED
  BY <1>4, <1>6, <1>8, <1>9, <1>10

LEMMA GoesOnPage ==
  ASSUME ThreadInv, NEW e, GoesOn(e)
  PROVE  PageIsFine'
<1>1. UNCHANGED <<client, toThread, view, channels, torn>>
  BY DEF GoesOn
<1>2. ASSUME NEW i \in DOMAIN toView', toView'[i].t = "history"
      PROVE  LET es == toView'[i].events IN
             /\ toThread = <<>> /\ ~view.replaying /\ view.events # <<>> /\ view.loadingEarlier
             /\ \A j \in DOMAIN toView' : j # i => toView'[j].t = "event"
             /\ \A j, k \in DOMAIN es : j < k => es[j].seq < es[k].seq
             /\ \A k \in DOMAIN es : es[k].seq <= lastSeqno'
             /\ ~torn => \A k \in DOMAIN es : es[k] \in threadLog' \/
                           \E r \in threadLog' : /\ Undoes(r, es[k]) /\ view.lastSeq < r.seq
                                                 /\ \A j \in DOMAIN toView' : j < i => toView'[j].event.seq < r.seq
             /\ ~torn /\ es # <<>> =>
                  \A d \in threadLog' : Head(es).seq <= d.seq /\ d.seq < Head(view.events).seq =>
                                       \E k \in DOMAIN es : es[k] = d
  BY <1>2, GoesOnPageAt
<1>3. QED
  BY <1>1, <1>2, Zenon DEF PageIsFine, Undoes

LEMMA GoesOnCopy ==
  ASSUME ThreadInv, NEW e, GoesOn(e)
  PROVE  CopyIsFine'
<1>0. /\ ThreadTypeOK /\ CopyIsFine /\ view' = view /\ torn' = torn /\ e.seq = lastSeqno + 1
      /\ view.lastSeq <= lastSeqno /\ view.lastSeq \in Nat /\ lastSeqno \in Nat /\ e.seq \in Nat
  BY HeadsShown, Steadily DEF ThreadInv, GoesOn
<1>1. Shown' = Shown /\ \A d : Skipped(d)' <=> Skipped(d)
  BY <1>0 DEF Shown, Skipped
<1>2. ASSUME ~torn, NEW i \in DOMAIN Shown, Shown[i] \notin threadLog'
      PROVE  \E r \in threadLog' : Undoes(r, Shown[i]) /\ (view.lastSeq < r.seq \/ Skipped(r))
  <2>1. Shown[i] \in LoggedEvent /\ Shown[i].seq \in Nat /\ Shown[i].seq <= view.lastSeq
    BY <1>0, ShownParts DEF CopyIsFine
  <2>2. CASE Undoes(e, Shown[i])
    BY <1>0, <2>2, Steadily
  <2>3. CASE ~Undoes(e, Shown[i])
    <3>1. Shown[i] \notin threadLog
      BY <1>2, <2>3, Steadily
    <3>2. PICK r \in threadLog : Undoes(r, Shown[i]) /\ (view.lastSeq < r.seq \/ Skipped(r))
      BY <1>0, <1>2, <3>1 DEF CopyIsFine
    <3>3. Shown[i].seq <= lastSeqno
      BY <1>0, <2>1
    <3>4. r \in threadLog'
      BY <2>1, <2>3, <3>2, <3>3, Steadily
    <3>5. QED
      BY <3>2, <3>4
  <2>4. QED
    BY <2>2, <2>3
<1>3. ASSUME ~torn, Shown # <<>>, NEW d \in threadLog', Head(Shown).seq <= d.seq, d.seq <= view.lastSeq
      PROVE  (\E i \in DOMAIN Shown : Shown[i] = d) \/ Skipped(d)
  <2>1. d # e
    BY <1>0, <1>3
  <2>2. d \in threadLog
    BY <2>1, Steadily
  <2>3. QED
    BY <1>0, <1>3, <2>2 DEF CopyIsFine
<1>4. QED
  BY <1>0, <1>1, <1>2, <1>3 DEF CopyIsFine, Undoes

LEMMA GoesOnFine == ASSUME ThreadInv, NEW e, GoesOn(e) PROVE ThreadInv'
BY GoesOnKeeps, GoesOnSent, GoesOnPage, GoesOnCopy DEF ThreadInv

LEMMA EmitStep == ASSUME ThreadInv, Emit PROVE ThreadInv'
<1> DEFINE e == [seq |-> lastSeqno + 1, from |-> 0]
<1>1. ThreadTypeOK /\ lastSeqno \in Nat /\ MaxEvents \in Nat
  BY ThreadParts DEF ThreadInv
<1>2. lastSeqno + 1 \in Seqno /\ 0 \in 0 .. MaxEvents
  BY <1>1 DEF Emit, Seqno
<1>3. e \in LoggedEvent /\ e.seq = lastSeqno + 1 /\ e.from = 0
  BY <1>2 DEF LoggedEvent
<1>4. threadLog' = threadLog \cup {e} /\ Broadcast1(e) /\ lastSeqno' = lastSeqno + 1
      /\ UNCHANGED <<client, toThread, view, channels, torn>>
  BY DEF Emit
<1> HIDE DEF e
<1>5. GoesOn(e)
  BY <1>3, <1>4 DEF GoesOn
<1>6. QED
  BY <1>5, GoesOnFine

LEMMA RewindStep == ASSUME ThreadInv, NEW p \in threadLog, RewindTo(p) PROVE ThreadInv'
<1> DEFINE e == [seq |-> lastSeqno + 1, from |-> p.seq]
<1>1. ThreadTypeOK /\ lastSeqno \in Nat /\ MaxEvents \in Nat
  BY ThreadParts DEF ThreadInv
<1>2. lastSeqno + 1 \in Seqno /\ p.seq \in Seqno /\ p.seq # 0 /\ p.seq \in 0 .. MaxEvents
  <2>1. p.seq \in Seqno
    BY <1>1 DEF ThreadTypeOK, LoggedEvent
  <2>2. QED
    BY <1>1, <2>1 DEF RewindTo, Seqno
<1>3. e \in LoggedEvent /\ e.seq = lastSeqno + 1 /\ e.from = p.seq
  BY <1>2 DEF LoggedEvent
<1>4. /\ threadLog' = {x \in threadLog : x.seq < p.seq} \cup {e} /\ Broadcast1(e) /\ lastSeqno' = lastSeqno + 1
      /\ UNCHANGED <<client, toThread, view, channels, torn>> /\ p.from = 0
  BY DEF RewindTo
<1> HIDE DEF e
<1>5. GoesOn(e)
  BY <1>2, <1>3, <1>4 DEF GoesOn
<1>6. QED
  BY <1>5, GoesOnFine

\* What ends a channel keeps what it delivered, gap and all.
LEMMA WiresDown ==
  ASSUME ThreadInv, Wires, UNCHANGED <<threadLog, lastSeqno>>, ThreadTypeOK', Channels',
         Shown' = Shown, view'.lastSeq = view.lastSeq,
         ~torn' => ~torn /\ \A d \in threadLog : Skipped(d) => Skipped(d)'
  PROVE  ThreadInv'
<1>1. Asked' /\ SentIsFine' /\ PageIsFine'
  BY DEF Wires, Asked, SentIsFine, PageIsFine
<1>2. LogIsFine'
  BY DEF ThreadInv, LogIsFine, Undoes
<1>3. CopyIsFine'
  BY DEF ThreadInv, CopyIsFine, Undoes
<1>4. QED
  BY <1>1, <1>2, <1>3 DEF ThreadInv

LEMMA DisconnectedKeeps ==
  ASSUME ThreadInv, NEW ch \in {"opening", "none"}, view' = [Disconnected(view) EXCEPT !.channel = ch], Wires,
         torn' = (torn \/ Gap(view)), UNCHANGED <<threadLog, lastSeqno>>, channels' \in 0 .. MaxChannels
  PROVE  ThreadInv'
<1>0. ThreadTypeOK /\ Channels /\ view \in ViewState /\ torn \in BOOLEAN
  BY DEF ThreadInv, ThreadTypeOK
<1>1. PICK es : es = view.events \o view.replay /\ es = Shown
  BY DEF Shown
<1>2. es \in Seq(LoggedEvent)
  BY <1>0, <1>1, ShownParts
<1>3. view' = [view EXCEPT !.channel = ch, !.replaying = FALSE, !.replay = <<>>, !.events = es]
  BY <1>0, <1>1 DEF Disconnected, ViewState
<1>4. view' \in ViewState
  <2>1. view.lastSeq \in 0 .. MaxEvents /\ view.replayFrom \in 0 .. MaxEvents /\ <<>> \in Seq(LoggedEvent)
    BY <1>0 DEF ViewState
  <2>2. QED
    BY <1>0, <1>2, <1>3, <2>1 DEF ViewState
<1>5. /\ view'.channel = ch /\ view'.replaying = FALSE /\ view'.replay = <<>> /\ view'.events = es
      /\ view'.lastSeq = view.lastSeq /\ view'.synced = view.synced
  BY <1>0, <1>3 DEF ViewState
<1>6. Shown' = Shown
  <2>1. Shown' = es \o <<>>
    BY <1>5 DEF Shown
  <2>2. QED
    BY <1>1, <1>2, <2>1, ConcatEmptySeq
<1>7. ThreadTypeOK'
  <2>1. toThread' \in Seq(ClientMsg) /\ toView' \in Seq(DaemonMsg) /\ client' \in BOOLEAN
    BY EmptySeq DEF Wires
  <2>2. torn' \in BOOLEAN
    OBVIOUS
  <2>3. QED
    BY <1>0, <1>4, <2>1, <2>2 DEF ThreadTypeOK
<1>8. Channels'
  BY <1>0, <1>5 DEF Channels, Wires
<1>9. ~torn' => ~torn /\ \A d \in threadLog : ~Skipped(d)
  BY DEF Gap, Skipped
<1>10. QED
  BY <1>5, <1>6, <1>7, <1>8, <1>9, WiresDown

LEMMA DisconnectThreadStep == ASSUME ThreadInv, DisconnectThread PROVE ThreadInv'
<1>0. ThreadTypeOK /\ view \in ViewState
  BY DEF ThreadInv, ThreadTypeOK
<1>1. Disconnected(view) = [Disconnected(view) EXCEPT !.channel = "none"]
  BY <1>0 DEF Disconnected, ViewState
<1>2. channels' \in 0 .. MaxChannels
  BY <1>0 DEF DisconnectThread, ThreadTypeOK
<1>3. QED
  BY <1>1, <1>2, DisconnectedKeeps DEF DisconnectThread

LEMMA ConnectThreadStep == ASSUME ThreadInv, ConnectThread PROVE ThreadInv'
<1>1. PICK ch \in {"opening", "none"} : view' = [Disconnected(view) EXCEPT !.channel = ch]
  BY DEF ConnectThread
<1>2. channels' \in 0 .. MaxChannels
  BY PageAssumption DEF ThreadInv, ThreadTypeOK, ConnectThread
<1>3. QED
  BY <1>1, <1>2, DisconnectedKeeps DEF ConnectThread

LEMMA ThreadClosesStep == ASSUME ThreadInv, ThreadCloses PROVE ThreadInv'
<1>0. ThreadTypeOK /\ Channels /\ view \in ViewState
  BY DEF ThreadInv, ThreadTypeOK
<1>1. /\ view'.channel = "closed" /\ view'.replaying = view.replaying /\ view'.replay = view.replay
      /\ view'.events = view.events /\ view'.lastSeq = view.lastSeq /\ view'.synced = view.synced
      /\ view'.replayFrom = view.replayFrom
  BY <1>0 DEF ThreadCloses, ViewState
<1>2. view' \in ViewState
  BY <1>0 DEF ThreadCloses, ViewState
<1>3. ThreadTypeOK'
  <2>1. toThread' \in Seq(ClientMsg) /\ toView' \in Seq(DaemonMsg) /\ client' \in BOOLEAN
    BY EmptySeq DEF ThreadCloses, Wires
  <2>2. QED
    BY <1>0, <1>2, <2>1 DEF ThreadCloses, ThreadTypeOK
<1>4. Channels'
  BY <1>0, <1>1 DEF ThreadCloses, Channels, Wires
<1>5. Shown' = Shown /\ \A d : Skipped(d)' <=> Skipped(d)
  BY <1>1 DEF Shown, Skipped
<1>6. QED
  BY <1>1, <1>3, <1>4, <1>5, WiresDown DEF ThreadCloses

LEMMA ThreadOpensStep == ASSUME ThreadInv, ThreadOpens PROVE ThreadInv'
<1> DEFINE m == [t |-> "attach", after |-> view.lastSeq, limit |-> IF view.lastSeq > 0 THEN ReplayLimit ELSE FirstPage]
<1>0. /\ ThreadTypeOK /\ Channels /\ CopyIsFine /\ view \in ViewState /\ lastSeqno \in Nat
      /\ view.lastSeq \in 0 .. MaxEvents
  BY ThreadParts DEF ThreadInv, ThreadTypeOK, ViewState
<1>1. ~client /\ toThread = <<>> /\ toView = <<>> /\ ~view.replaying /\ view.replay = <<>>
  BY <1>0 DEF ThreadOpens, Channels
<1>2. toThread' = <<m>> /\ m \in ClientMsg /\ m.t = "attach" /\ m.after = view.lastSeq
  BY <1>0, PageAssumption DEF ThreadOpens, ClientMsg
<1> HIDE DEF m
<1>3. /\ view'.channel = "open" /\ view'.replaying = TRUE /\ view'.replay = <<>> /\ view'.replayFrom = view.lastSeq
      /\ view'.events = view.events /\ view'.lastSeq = view.lastSeq /\ view'.synced = FALSE
  BY <1>0 DEF ThreadOpens, ViewState
<1>4. view' \in ViewState
  <2>1. <<>> \in Seq(LoggedEvent)
    BY EmptySeq
  <2>2. QED
    BY <1>0, <2>1 DEF ThreadOpens, ViewState
<1>5. UNCHANGED <<threadLog, lastSeqno, client, toView, channels, torn>>
  BY DEF ThreadOpens
<1>6. ThreadTypeOK'
  BY <1>0, <1>2, <1>4, <1>5 DEF ThreadTypeOK
<1>7. Shown' = Shown /\ \A d : ~Skipped(d) /\ ~Skipped(d)'
  BY <1>1, <1>3 DEF Shown, Skipped
<1>8. view.lastSeq = 0 => view.events = <<>>
  <2>1. ASSUME view.lastSeq = 0, view.events # <<>> PROVE FALSE
    <3>1. Shown[1] \in LoggedEvent /\ Shown[1].seq <= 0
      BY <1>0, <2>1, ShownParts DEF CopyIsFine
    <3>2. QED
      BY <1>0, <3>1, ThreadParts, PageAssumption DEF LoggedEvent, Seqno
  <2>2. QED
    BY <2>1
<1>9. Channels'
  BY <1>0, <1>1, <1>3, <1>5, <1>8 DEF Channels
<1>10. Asked'
  BY <1>1, <1>2, <1>3, <1>5 DEF Asked
<1>11. LogIsFine' /\ SentIsFine' /\ PageIsFine'
  BY <1>1, <1>5 DEF ThreadInv, LogIsFine, SentIsFine, PageIsFine, Undoes
<1>12. CopyIsFine'
  BY <1>0, <1>3, <1>5, <1>7 DEF CopyIsFine, Undoes
<1>13. QED
  BY <1>6, <1>9, <1>10, <1>11, <1>12 DEF ThreadInv

LEMMA LoadEarlierStep == ASSUME ThreadInv, LoadEarlier PROVE ThreadInv'
<1> DEFINE m == [t |-> "history", before |-> Head(view.events).seq, limit |-> EarlierPage]
<1>0. /\ ThreadTypeOK /\ Channels /\ Asked /\ SentIsFine /\ PageIsFine /\ CopyIsFine /\ view \in ViewState
      /\ UNCHANGED <<threadLog, lastSeqno, client, toView, channels, torn>>
      /\ view.events # <<>> /\ view.synced /\ view.channel = "open" /\ ~view.loadingEarlier
  BY DEF ThreadInv, ThreadTypeOK, LoadEarlier
<1>1. client /\ ~view.replaying /\ view.replay = <<>>
  BY <1>0 DEF Channels
<1>2. toThread = <<>>
  <2>1. \A i \in DOMAIN toThread : toThread[i].t \in {"attach", "history"}
    BY <1>0, AskedParts
  <2>2. DOMAIN toThread = {}
    BY <1>0, <1>1, <2>1 DEF Asked
  <2>3. toThread \in Seq(ClientMsg)
    BY <1>0 DEF ThreadTypeOK
  <2>4. QED
    BY <2>2, <2>3
<1>3. \A j \in DOMAIN toView : toView[j].t = "event"
  BY <1>0, <1>1, SentParts DEF SentIsFine, PageIsFine
<1>4. Head(view.events) \in LoggedEvent /\ Head(view.events).seq \in Seqno
  <2>1. Head(view.events) \in LoggedEvent
    BY <1>0, ShownParts
  <2>2. QED
    BY <2>1 DEF LoggedEvent
<1>5. m \in ClientMsg /\ m.t = "history" /\ m.before = Head(view.events).seq
  BY <1>4, PageAssumption DEF ClientMsg
<1> HIDE DEF m
<1>6. toThread' = <<m>>
  BY <1>2 DEF LoadEarlier, m
<1>7. /\ view'.channel = "open" /\ view'.replaying = view.replaying /\ view'.replay = view.replay
      /\ view'.events = view.events /\ view'.lastSeq = view.lastSeq /\ view'.synced = view.synced
      /\ view'.replayFrom = view.replayFrom /\ view'.loadingEarlier = TRUE
  BY <1>0 DEF LoadEarlier, ViewState
<1>8. view' \in ViewState
  BY <1>0 DEF LoadEarlier, ViewState
<1>9. ThreadTypeOK'
  BY <1>0, <1>5, <1>6, <1>8 DEF ThreadTypeOK
<1>10. Channels'
  BY <1>0, <1>7 DEF Channels
<1>11. Asked'
  <2>1. ~torn => \A d \in threadLog : ~(Head(view.events).seq <= d.seq /\ d.seq < Head(view.events).seq)
    BY <1>0, <1>4, ThreadParts
  <2>2. DOMAIN toThread' = {1} /\ toThread'[1] = m
    BY <1>6
  <2>3. QED
    BY <1>0, <1>1, <1>3, <1>5, <1>6, <1>7, <2>1, <2>2 DEF Asked
<1>12. Shown' = Shown /\ \A d : (Skipped(d)' <=> Skipped(d)) /\ (Coming(d)' <=> Coming(d)) /\ (Overlooked(d)' <=> Overlooked(d))
  BY <1>0, <1>7 DEF Shown, Skipped, Coming, Overlooked, Ends
<1>13. SentIsFine'
  BY <1>0, <1>3, <1>7, <1>12 DEF SentIsFine, Undoes
<1>14. PageIsFine'
  BY <1>0, <1>3 DEF PageIsFine
<1>15. LogIsFine' /\ CopyIsFine'
  BY <1>0, <1>7, <1>12 DEF ThreadInv, LogIsFine, CopyIsFine, Undoes
<1>16. QED
  BY <1>9, <1>10, <1>11, <1>13, <1>14, <1>15 DEF ThreadInv

-----------------------------------------------------------------------------
(* What the daemon serves.                                                    *)

LEMMA AttachSends ==
  ASSUME NEW n \in Nat, NEW evs \in [1 .. n -> DaemonMsg], NEW z \in DaemonMsg, NEW s, s = Append(evs, z)
  PROVE  s \in Seq(DaemonMsg) /\ DOMAIN s = 1 .. (n + 1) /\ s[n + 1] = z /\ \A i \in 1 .. n : s[i] = evs[i]
<1>1. evs \in Seq(DaemonMsg) /\ Len(evs) = n
  OBVIOUS
<1>2. s \in Seq(DaemonMsg) /\ Len(s) = n + 1 /\ s[n + 1] = z /\ \A i \in 1 .. n : s[i] = evs[i]
  BY <1>1
<1>3. QED
  BY <1>2

LEMMA ServeAttachStep ==
  ASSUME ThreadInv, ServeThread, NEW m, m = Head(toThread), m.t = "attach"
  PROVE  ThreadInv'
<1> DEFINE L == view.lastSeq
<1>0. /\ ThreadTypeOK /\ Channels /\ Asked /\ LogIsFine /\ CopyIsFine
      /\ UNCHANGED <<threadLog, lastSeqno, view, channels, torn>>
      /\ view.channel = "open" /\ toThread # <<>> /\ ServeAttach(m) /\ toThread' = Tail(toThread)
  BY DEF ThreadInv, ServeThread
<1>1. 1 \in DOMAIN toThread /\ m = toThread[1] /\ toThread \in Seq(ClientMsg)
  BY <1>0 DEF ThreadTypeOK
<1>2. /\ toThread = <<m>> /\ ~client /\ view.replaying /\ view.replay = <<>> /\ m.after = L /\ m.limit \in Nat \ {0}
  BY <1>0, <1>1, AskedParts DEF Asked
<1>3. toView = <<>> /\ ~view.synced /\ toThread' = <<>> /\ client' = TRUE
  BY <1>0, <1>2 DEF Channels, ServeAttach
<1>4. PICK S : S = {e \in threadLog : e.seq > L}
  OBVIOUS
<1>5. PICK p : p = Newest(S, m.limit)
  OBVIOUS
<1> DEFINE short == Len(p) < Cardinality(S)
<1>a. short \in BOOLEAN
  OBVIOUS
<1> HIDE DEF short
<1>6. PICK b : b = short /\ b \in BOOLEAN
  BY <1>a
<1>7. toView' = <<>> \o [i \in DOMAIN p |-> [t |-> "event", event |-> p[i]]] \o <<[t |-> "synced", truncated |-> b]>>
  BY <1>0, <1>2, <1>3, <1>4, <1>5, <1>6 DEF ServeAttach, short
<1>8. \A d \in threadLog : d \in LoggedEvent /\ d.seq \in Nat /\ d.from \in Nat /\ d.seq <= lastSeqno
  BY <1>0, ThreadParts DEF LogIsFine
<1>9. L \in Nat /\ lastSeqno \in Nat
  BY <1>0, ThreadParts
<1>10. /\ p \in Seq(S)
       /\ \A k, l \in DOMAIN p : k < l => p[k].seq < p[l].seq
       /\ \A k \in DOMAIN p, d \in S : d.seq >= p[k].seq => \E l \in DOMAIN p : p[l] = d
       /\ ~b => \A d \in S : \E l \in DOMAIN p : p[l] = d
       /\ S # {} => p # <<>>
  <2>1. S \in SUBSET LoggedEvent /\ \A d, e \in S : d.seq = e.seq => d = e
    BY <1>0, <1>4, <1>8 DEF LogIsFine
  <2>2. IsEndOf(p, S)
    BY <1>2, <1>5, <2>1, NewestIs
  <2>3. QED
    BY <1>6, <2>2 DEF IsEndOf, short
<1>11. PICK n : n = Len(p) /\ DOMAIN p = 1 .. n /\ n \in Nat
  BY <1>10
<1>12. p \in Seq(LoggedEvent) /\ \A k \in 1 .. n : p[k] \in threadLog /\ p[k].seq \in Nat /\ p[k].seq > L
  <2>1. \A k \in 1 .. n : p[k] \in S
    BY <1>10, <1>11
  <2>2. \A k \in 1 .. n : p[k] \in threadLog /\ p[k].seq \in Nat /\ p[k].seq > L /\ p[k] \in LoggedEvent
    BY <1>4, <1>8, <2>1
  <2>3. QED
    BY <1>10, <1>11, <2>2
<1>13. PICK z : z = [t |-> "synced", truncated |-> b]
  OBVIOUS
<1>14. /\ toView' \in Seq(DaemonMsg) /\ DOMAIN toView' = 1 .. (n + 1) /\ toView'[n + 1] = z
       /\ \A i \in 1 .. n : toView'[i] = [t |-> "event", event |-> p[i]]
  <2>1. PICK evs : evs = [i \in DOMAIN p |-> [t |-> "event", event |-> p[i]]]
    OBVIOUS
  <2>2. \A i \in 1 .. n : p[i] \in LoggedEvent
    BY <1>11, <1>12
  <2>3. evs \in [1 .. n -> DaemonMsg] /\ \A i \in 1 .. n : evs[i] = [t |-> "event", event |-> p[i]]
    BY <1>11, <2>1, <2>2 DEF DaemonMsg
  <2>4. z \in DaemonMsg
    BY <1>6, <1>13 DEF DaemonMsg
  <2>5. PICK s : s = toView' /\ s = <<>> \o evs \o <<z>>
    BY <1>7, <1>13, <2>1
  <2>6. s = <<>> \o evs \o <<z>> /\ n \in Nat
    BY <1>11, <2>5
  <2>7. s \in Seq(DaemonMsg) /\ DOMAIN s = 1 .. (n + 1) /\ s[n + 1] = z /\ \A i \in 1 .. n : s[i] = evs[i]
    <3>1. evs \in Seq(DaemonMsg)
      BY <2>3, <2>6
    <3>2. s = evs \o <<z>>
      BY <2>6, <3>1, ConcatEmptySeq
    <3>3. s = Append(evs, z)
      BY <2>4, <3>1, <3>2, AppendIsConcat
    <3>4. n \in Nat /\ evs \in [1 .. n -> DaemonMsg] /\ z \in DaemonMsg /\ s = Append(evs, z)
      BY <2>3, <2>4, <2>6, <3>3
    <3>5. QED
      BY <3>4, AttachSends
  <2>8. QED
    BY <2>3, <2>5, <2>7
<1>15. \A i \in 1 .. (n + 1) : \/ i \in 1 .. n /\ toView'[i].t = "event" /\ toView'[i].event = p[i]
                               \/ i = n + 1 /\ toView'[i].t = "synced" /\ toView'[i].truncated = b
  <2>1. z.t = "synced" /\ z.truncated = b /\ n \in Nat
    BY <1>11, <1>13
  <2>2. ASSUME NEW i \in 1 .. n PROVE toView'[i].t = "event" /\ toView'[i].event = p[i]
    <3>1. toView'[i] = [t |-> "event", event |-> p[i]]
      BY <1>14, <2>2
    <3>2. QED
      BY <3>1
  <2>3. toView'[n + 1].t = "synced" /\ toView'[n + 1].truncated = b
    BY <1>14, <2>1
  <2>4. \A i \in 1 .. (n + 1) : i \in 1 .. n \/ i = n + 1
    BY <2>1
  <2>5. QED
    BY <2>2, <2>3, <2>4
<1>16. ThreadTypeOK'
  <2>1. toThread' \in Seq(ClientMsg) /\ client' \in BOOLEAN
    BY <1>3, EmptySeq
  <2>2. QED
    BY <1>0, <1>14, <2>1 DEF ThreadTypeOK
<1>17. Channels' /\ Asked' /\ LogIsFine'
  BY <1>0, <1>3 DEF Channels, Asked, LogIsFine, Undoes
<1>18. PageIsFine'
  BY <1>14, <1>15 DEF PageIsFine
<1>19. Shown' = Shown /\ \A d : ~Skipped(d) /\ ~Skipped(d)'
  BY <1>0, <1>2 DEF Shown, Skipped
<1>20. CopyIsFine'
  BY <1>0, <1>19 DEF CopyIsFine, Undoes
<1>21. SentIsFine'
  <2>1. ASSUME NEW i \in DOMAIN toView', toView'[i].t = "event", NEW e, e = toView'[i].event
        PROVE  /\ view.lastSeq < e.seq /\ e.seq <= lastSeqno
               /\ \A d \in threadLog : ~Undoes(e, d)
               /\ e \in threadLog
               /\ \A j \in DOMAIN toView' : j < i /\ toView'[j].t = "event" => toView'[j].event.seq < e.seq
    <3>1. i \in 1 .. n /\ e = p[i]
      BY <1>14, <1>15, <2>1
    <3>2. ASSUME NEW j \in DOMAIN toView', j < i, toView'[j].t = "event" PROVE toView'[j].event.seq < e.seq
      <4>1. j \in 1 .. n /\ toView'[j].event = p[j]
        BY <1>14, <1>15, <3>2
      <4>2. QED
        BY <1>10, <1>11, <3>1, <3>2, <4>1
    <3>3. QED
      BY <1>0, <1>8, <1>9, <1>12, <3>1, <3>2 DEF LogIsFine
  <2>2. ASSUME NEW i \in DOMAIN toView', toView'[i].t = "synced"
        PROVE  /\ view.replaying /\ \A j \in DOMAIN toView' : j # i => toView'[j].t = "event"
               /\ toView'[i].truncated => i # 1
    <3>1. i = n + 1 /\ toView'[i].truncated = b
      BY <1>14, <1>15, <2>2
    <3>2. \A j \in DOMAIN toView' : j # i => toView'[j].t = "event"
      BY <1>14, <1>15, <3>1
    <3>3. b => n # 0
      <4>1. S = {} => ~b
        <5>1. Cardinality({}) = 0 /\ Len(p) \in Nat
          BY <1>11, FS_EmptySet
        <5>2. S = {} => Cardinality(S) = 0
          BY <5>1
        <5>3. b => Len(p) < Cardinality(S)
          BY <1>6 DEF short
        <5>4. QED
          BY <5>1, <5>2, <5>3
      <4>2. p # <<>> => n # 0
        BY <1>11, <1>12
      <4>3. QED
        BY <1>10, <4>1, <4>2
    <3>4. QED
      BY <1>2, <1>11, <3>1, <3>2, <3>3
  <2>3. ASSUME NEW d \in threadLog, d.seq > view.lastSeq PROVE Coming(d)' \/ Overlooked(d)'
    <3>1. d \in S
      BY <1>4, <2>3
    <3>2. ASSUME NEW l \in DOMAIN p, p[l] = d PROVE Coming(d)'
      <4>1. l \in DOMAIN toView' /\ toView'[l].t = "event" /\ toView'[l].event = d
        <5>1. l \in 1 .. n /\ l \in 1 .. (n + 1)
          BY <1>11
        <5>2. (toView'[l].t = "event" /\ toView'[l].event = p[l]) \/ l = n + 1
          BY <1>15, <5>1
        <5>3. l # n + 1
          BY <1>11, <5>1
        <5>4. QED
          BY <1>14, <3>2, <5>1, <5>2, <5>3
      <4>2. QED
        BY <4>1 DEF Coming
    <3>3. ASSUME \A l \in DOMAIN p : p[l] # d PROVE Overlooked(d)'
      <4>1. b /\ \A k \in 1 .. n : d.seq < p[k].seq
        <5>1. b
          BY <1>10, <3>1, <3>3
        <5>2. ASSUME NEW k \in 1 .. n PROVE d.seq < p[k].seq
          <6>1. ~(d.seq >= p[k].seq)
            BY <1>10, <1>11, <3>1, <3>3
          <6>2. d.seq \in Nat /\ p[k].seq \in Nat
            BY <1>8, <1>12
          <6>3. QED
            BY <6>1, <6>2
        <5>3. QED
          BY <5>1, <5>2
      <4>2. Ends(TRUE)'
        <5>1. n + 1 \in DOMAIN toView' /\ b = TRUE
          BY <1>6, <1>11, <1>14, <4>1
        <5>2. toView'[n + 1].t = "synced" /\ toView'[n + 1].truncated = TRUE
          BY <1>13, <1>14, <5>1
        <5>3. QED
          BY <5>1, <5>2 DEF Ends
      <4>3. \A i \in DOMAIN toView' : toView'[i].t = "event" => d.seq < toView'[i].event.seq
        BY <1>14, <1>15, <4>1
      <4>4. QED
        BY <1>0, <1>2, <4>2, <4>3 DEF Overlooked
    <3>4. QED
      BY <3>2, <3>3
  <2>4. QED
    BY <1>0, <1>19, <2>1, <2>2, <2>3 DEF SentIsFine, Undoes
<1>22. QED
  BY <1>16, <1>17, <1>18, <1>20, <1>21 DEF ThreadInv

LEMMA ServeHistoryStep ==
  ASSUME ThreadInv, ServeThread, NEW m, m = Head(toThread), m.t = "history"
  PROVE  ThreadInv'
<1>0. /\ ThreadTypeOK /\ Channels /\ Asked /\ LogIsFine /\ CopyIsFine /\ SentIsFine
      /\ UNCHANGED <<threadLog, lastSeqno, view, channels, torn>>
      /\ view.channel = "open" /\ toThread # <<>> /\ ServeHistory(m) /\ toThread' = Tail(toThread)
  BY DEF ThreadInv, ServeThread
<1>1. 1 \in DOMAIN toThread /\ m = toThread[1] /\ toThread \in Seq(ClientMsg)
  BY <1>0 DEF ThreadTypeOK
<1>2. /\ toThread = <<m>> /\ client /\ ~view.replaying /\ view.events # <<>> /\ view.loadingEarlier
      /\ \A j \in DOMAIN toView : toView[j].t = "event"
      /\ ~torn => \A d \in threadLog : ~(m.before <= d.seq /\ d.seq < Head(view.events).seq)
      /\ m.before \in Nat /\ m.limit \in Nat \ {0}
  BY <1>0, <1>1, AskedParts DEF Asked
<1>3. client' = client /\ toThread' = <<>>
  BY <1>0, <1>2 DEF ServeHistory
<1>4. PICK S : S = {e \in threadLog : e.seq < m.before}
  OBVIOUS
<1>5. PICK p : p = Newest(S, m.limit)
  OBVIOUS
<1>6. PICK z : z = [t |-> "history", events |-> p, more |-> Len(p) < Cardinality(S)]
  OBVIOUS
<1>7. toView' = Append(toView, z)
  BY <1>0, <1>4, <1>5, <1>6 DEF ServeHistory
<1>8. \A d \in threadLog : d \in LoggedEvent /\ d.seq \in Nat /\ d.from \in Nat /\ d.seq <= lastSeqno
  BY <1>0, ThreadParts DEF LogIsFine
<1>9. /\ p \in Seq(S)
      /\ \A k, l \in DOMAIN p : k < l => p[k].seq < p[l].seq
      /\ \A k \in DOMAIN p, d \in S : d.seq >= p[k].seq => \E l \in DOMAIN p : p[l] = d
  <2>1. S \in SUBSET LoggedEvent /\ \A d, e \in S : d.seq = e.seq => d = e
    BY <1>0, <1>4, <1>8 DEF LogIsFine
  <2>2. IsEndOf(p, S)
    BY <1>2, <1>5, <2>1, NewestIs
  <2>3. QED
    BY <2>2 DEF IsEndOf
<1>10. p \in Seq(LoggedEvent) /\ \A k \in DOMAIN p : p[k] \in threadLog /\ p[k].seq \in Nat /\ p[k].seq <= lastSeqno
  <2>1. \A k \in DOMAIN p : p[k] \in S
    BY <1>9
  <2>2. \A k \in DOMAIN p : p[k] \in threadLog /\ p[k].seq \in Nat /\ p[k].seq <= lastSeqno /\ p[k] \in LoggedEvent
    BY <1>4, <1>8, <2>1
  <2>3. QED
    BY <1>9, <2>2
<1>11. z \in DaemonMsg
  <2>1. (Len(p) < Cardinality(S)) \in BOOLEAN
    OBVIOUS
  <2>2. QED
    BY <1>6, <1>10, <2>1 DEF DaemonMsg
<1>12. /\ toView' \in Seq(DaemonMsg) /\ Len(toView) \in Nat
       /\ \A i \in DOMAIN toView : i \in DOMAIN toView' /\ toView'[i] = toView[i]
       /\ \A i \in DOMAIN toView' : i \in DOMAIN toView \/ (i = Len(toView) + 1 /\ toView'[i] = z)
  <2>1. toView \in Seq(DaemonMsg)
    BY <1>0 DEF ThreadTypeOK
  <2>2. QED
    BY <1>7, <1>11, <2>1
<1>13. ThreadTypeOK'
  <2>1. toThread' \in Seq(ClientMsg)
    BY <1>3, EmptySeq
  <2>2. QED
    BY <1>0, <1>3, <1>12, <2>1 DEF ThreadTypeOK
<1>14. Channels' /\ Asked' /\ LogIsFine'
  BY <1>0, <1>2, <1>3 DEF Channels, Asked, LogIsFine, Undoes
<1>15. Shown' = Shown /\ \A d : ~Skipped(d) /\ ~Skipped(d)' /\ ~Overlooked(d)
  BY <1>0, <1>2 DEF Shown, Skipped, Overlooked
<1>16. CopyIsFine'
  BY <1>0, <1>15 DEF CopyIsFine, Undoes
<1>17. \A i \in DOMAIN toView' : \/ i \in DOMAIN toView /\ toView'[i] = toView[i] /\ toView'[i].t = "event"
                                 \/ i \notin DOMAIN toView /\ toView'[i].t = "history" /\ toView'[i].events = p
  <2>1. z.t = "history" /\ z.events = p
    BY <1>6
  <2>2. QED
    BY <1>2, <1>12, <2>1
<1>18. SentIsFine'
  <2>1. ASSUME NEW i \in DOMAIN toView', toView'[i].t = "event", NEW e, e = toView'[i].event
        PROVE  /\ view.lastSeq < e.seq /\ e.seq <= lastSeqno
               /\ \A d \in threadLog : ~Undoes(e, d)
               /\ e \in threadLog \/ \E r \in threadLog : Undoes(r, e)
               /\ \A j \in DOMAIN toView' : j < i /\ toView'[j].t = "event" => toView'[j].event.seq < e.seq
    <3>1. i \in DOMAIN toView /\ toView[i].t = "event" /\ e = toView[i].event
      BY <1>17, <2>1
    <3>2. /\ view.lastSeq < e.seq /\ e.seq <= lastSeqno
          /\ \A d \in threadLog : ~Undoes(e, d)
          /\ e \in threadLog \/ \E r \in threadLog : Undoes(r, e)
          /\ \A j \in DOMAIN toView : j < i /\ toView[j].t = "event" => toView[j].event.seq < e.seq
      BY <1>0, <3>1 DEF SentIsFine
    <3>3. \A j \in DOMAIN toView' : j < i /\ toView'[j].t = "event" => toView'[j].event.seq < e.seq
      BY <1>17, <3>2
    <3>4. QED
      BY <3>2, <3>3
  <2>2. \A i \in DOMAIN toView' : toView'[i].t # "synced"
    BY <1>17
  <2>3. ASSUME NEW d \in threadLog, d.seq > view.lastSeq PROVE Coming(d)'
    <3>1. Coming(d)
      BY <1>0, <1>2, <1>15, <2>3 DEF SentIsFine
    <3>2. QED
      BY <1>12, <3>1 DEF Coming
  <2>4. QED
    BY <1>0, <2>1, <2>2, <2>3 DEF SentIsFine, Undoes
<1>19. ASSUME NEW i \in DOMAIN toView', toView'[i].t = "history"
       PROVE  /\ toView'[i].events = p
              /\ \A j \in DOMAIN toView' : j # i => toView'[j].t = "event"
  <2>1. toView'[i].events = p /\ i = Len(toView) + 1
    BY <1>12, <1>17, <1>19
  <2>2. ASSUME NEW j \in DOMAIN toView', j # i PROVE toView'[j].t = "event"
    BY <1>12, <1>17, <2>1, <2>2
  <2>3. QED
    BY <2>1, <2>2
<1>20. ASSUME ~torn, p # <<>>, NEW d \in threadLog, Head(p).seq <= d.seq, d.seq < Head(view.events).seq
       PROVE  \E k \in DOMAIN p : p[k] = d
  <2>1. ~(m.before <= d.seq) /\ d.seq \in Nat
    BY <1>2, <1>8, <1>20
  <2>2. d \in S
    BY <1>2, <1>4, <2>1
  <2>3. 1 \in DOMAIN p /\ Head(p) = p[1] /\ p[1].seq \in Nat
    BY <1>9, <1>10, <1>20
  <2>4. d.seq >= p[1].seq
    BY <1>20, <2>1, <2>3
  <2>5. QED
    BY <1>9, <2>2, <2>3, <2>4
<1>21. PageIsFine'
  <2>1. ASSUME NEW i \in DOMAIN toView', toView'[i].t = "history"
        PROVE  LET es == toView'[i].events IN
               /\ toThread' = <<>> /\ ~view.replaying /\ view.events # <<>> /\ view.loadingEarlier
               /\ \A j \in DOMAIN toView' : j # i => toView'[j].t = "event"
               /\ \A j, k \in DOMAIN es : j < k => es[j].seq < es[k].seq
               /\ \A k \in DOMAIN es : es[k].seq <= lastSeqno
               /\ ~torn => \A k \in DOMAIN es : es[k] \in threadLog
               /\ ~torn /\ es # <<>> =>
                    \A d \in threadLog : Head(es).seq <= d.seq /\ d.seq < Head(view.events).seq =>
                                         \E k \in DOMAIN es : es[k] = d
    BY <1>2, <1>3, <1>9, <1>10, <1>19, <1>20, <2>1
  <2>2. QED
    BY <1>0, <2>1, Zenon DEF PageIsFine, Undoes
<1>22. QED
  BY <1>13, <1>14, <1>16, <1>18, <1>21 DEF ThreadInv

LEMMA ServeThreadStep == ASSUME ThreadInv, ServeThread PROVE ThreadInv'
<1>1. PICK m : m = Head(toThread)
  OBVIOUS
<1>2. ThreadTypeOK /\ toThread # <<>> /\ toThread \in Seq(ClientMsg)
  BY DEF ThreadInv, ServeThread, ThreadTypeOK
<1>3. 1 \in DOMAIN toThread /\ m = toThread[1]
  BY <1>1, <1>2
<1>4. m.t \in {"attach", "history"}
  BY <1>2, <1>3, AskedParts
<1>5. QED
  BY <1>1, <1>4, ServeAttachStep, ServeHistoryStep

-----------------------------------------------------------------------------
(* What the tab reads.                                                        *)

Rolled(es, e) == IF e.from = 0 THEN es ELSE Kept(es, e)
Ordered(es) == \A i, j \in DOMAIN es : i < j => es[i].seq < es[j].seq
Before(es, e) == \A i \in DOMAIN es : es[i].seq < e.seq

LEMMA RolledIs ==
  ASSUME NEW es \in Seq(LoggedEvent), NEW e \in LoggedEvent, Before(es, e), Ordered(es), NEW w, w = Rolled(es, e),
         \A x \in LoggedEvent : x.seq \in Nat /\ x.from \in Nat
  PROVE  /\ w \in Seq(LoggedEvent)
         /\ Ordered(w)
         /\ \A k \in DOMAIN w : \E i \in DOMAIN es : w[k] = es[i] /\ ~Undoes(e, es[i])
         /\ \A k, l \in DOMAIN w : k < l => \E i, j \in DOMAIN es : i < j /\ w[k] = es[i] /\ w[l] = es[j]
         /\ \A i \in DOMAIN es : Undoes(e, es[i]) \/ \E k \in DOMAIN w : w[k] = es[i]
         /\ es = <<>> => w = <<>>
<1> DEFINE keep == {i \in DOMAIN es : es[i].seq < e.from \/ es[i].seq >= e.seq}
<1>1. \A i \in DOMAIN es : es[i] \in LoggedEvent /\ es[i].seq \in Nat /\ es[i].seq < e.seq
  BY DEF Before
<1>2. e.seq \in Nat /\ e.from \in Nat
  OBVIOUS
<1>3. CASE e.from = 0
  <2>1. w = es
    BY <1>3 DEF Rolled
  <2>2. \A i \in DOMAIN es : ~Undoes(e, es[i])
    BY <1>3 DEF Undoes
  <2>3. QED
    BY <2>1, <2>2
<1>4. CASE e.from # 0
  <2>1. w = Where(es, keep) /\ keep \in SUBSET (DOMAIN es)
    BY <1>4 DEF Rolled, Kept
  <2>2. \A i \in DOMAIN es : i \in keep <=> ~Undoes(e, es[i])
    BY <1>1, <1>2, <1>4 DEF Undoes
  <2> HIDE DEF keep
  <2>3. /\ w \in Seq(LoggedEvent)
        /\ \A k \in DOMAIN w : \E i \in keep : w[k] = es[i]
        /\ \A k, l \in DOMAIN w : k < l => \E i, j \in keep : i < j /\ w[k] = es[i] /\ w[l] = es[j]
        /\ \A i \in keep : \E k \in DOMAIN w : w[k] = es[i]
    <3>1. w \in Seq(LoggedEvent) /\ IsPlacesOf(w, keep, es)
      BY <2>1, WhereIs
    <3>2. QED
      BY <3>1 DEF IsPlacesOf
  <2>4. \A k \in DOMAIN w : \E i \in DOMAIN es : w[k] = es[i] /\ ~Undoes(e, es[i])
    BY <2>1, <2>2, <2>3
  <2>5. \A k, l \in DOMAIN w : k < l => \E i, j \in DOMAIN es : i < j /\ w[k] = es[i] /\ w[l] = es[j]
    BY <2>1, <2>3
  <2>6. \A i \in DOMAIN es : Undoes(e, es[i]) \/ \E k \in DOMAIN w : w[k] = es[i]
    BY <2>2, <2>3
  <2>7. Ordered(w)
    BY <2>5 DEF Ordered
  <2>8. es = <<>> => w = <<>>
    <3>1. es = <<>> => DOMAIN w = {}
      <4>1. DOMAIN (<<>>) = {}
        OBVIOUS
      <4>2. QED
        BY <2>4, <4>1
    <3>2. QED
      BY <2>3, <3>1
  <2>9. QED
    BY <2>3, <2>4, <2>5, <2>6, <2>7, <2>8
<1>5. QED
  BY <1>3, <1>4

\* w is es and then e, less what e undoes.
Follows(w, es, e) ==
  /\ w \in Seq(LoggedEvent) /\ w # <<>> /\ Ordered(w)
  /\ \A k \in DOMAIN w : w[k] = e \/ \E i \in DOMAIN es : w[k] = es[i] /\ ~Undoes(e, es[i])
  /\ \A i \in DOMAIN es : Undoes(e, es[i]) \/ \E k \in DOMAIN w : w[k] = es[i]
  /\ \E k \in DOMAIN w : w[k] = e

LEMMA FollowsIs ==
  ASSUME NEW es \in Seq(LoggedEvent), NEW e \in LoggedEvent, Before(es, e), Ordered(es), NEW w, w = Append(Rolled(es, e), e),
         \A x \in LoggedEvent : x.seq \in Nat /\ x.from \in Nat
  PROVE  Follows(w, es, e)
<1>1. PICK v : v = Rolled(es, e)
  OBVIOUS
<1>2. /\ v \in Seq(LoggedEvent) /\ Ordered(v)
      /\ \A k \in DOMAIN v : \E i \in DOMAIN es : v[k] = es[i] /\ ~Undoes(e, es[i])
      /\ \A i \in DOMAIN es : Undoes(e, es[i]) \/ \E k \in DOMAIN v : v[k] = es[i]
  BY <1>1, RolledIs
<1>3. PICK n : n = Len(v) /\ n \in Nat /\ DOMAIN v = 1 .. n
  BY <1>2
<1>4. /\ w \in Seq(LoggedEvent) /\ DOMAIN w = 1 .. (n + 1) /\ w[n + 1] = e /\ w # <<>>
      /\ \A k \in 1 .. n : w[k] = v[k]
  BY <1>1, <1>2, <1>3
<1>5. \A k \in 1 .. (n + 1) : k \in 1 .. n \/ k = n + 1
  BY <1>3
<1>6. \A k \in DOMAIN w : w[k] = e \/ \E i \in DOMAIN es : w[k] = es[i] /\ ~Undoes(e, es[i])
  BY <1>2, <1>3, <1>4, <1>5
<1>7. \A k \in 1 .. n : k \in DOMAIN w
  BY <1>3, <1>4
<1>8. \A i \in DOMAIN es : Undoes(e, es[i]) \/ \E k \in DOMAIN w : w[k] = es[i]
  BY <1>2, <1>3, <1>4, <1>7, SMTT(30)
<1>9. ASSUME NEW k \in DOMAIN w, NEW l \in DOMAIN w, k < l PROVE w[k].seq < w[l].seq
  <2>1. k \in 1 .. n
    BY <1>3, <1>4, <1>9
  <2>2. CASE l \in 1 .. n
    BY <1>2, <1>3, <1>4, <1>9, <2>1, <2>2 DEF Ordered
  <2>3. CASE l = n + 1
    <3>1. PICK i \in DOMAIN es : v[k] = es[i]
      BY <1>2, <1>3, <2>1
    <3>2. QED
      BY <1>4, <2>1, <2>3, <3>1 DEF Before
  <2>4. QED
    BY <1>4, <1>5, <2>2, <2>3
<1>10. \E k \in DOMAIN w : w[k] = e
  <2>1. n + 1 \in 1 .. (n + 1)
    BY <1>3
  <2>2. QED
    BY <1>4, <2>1
<1>11. QED
  BY <1>4, <1>6, <1>8, <1>9, <1>10 DEF Follows, Ordered

\* The first of them moves on only over what e undid.
LEMMA FollowsHead ==
  ASSUME NEW es \in Seq(LoggedEvent), NEW e \in LoggedEvent, Before(es, e), Ordered(es), NEW w, Follows(w, es, e),
         \A x \in LoggedEvent : x.seq \in Nat /\ x.from \in Nat
  PROVE  /\ Head(w) \in LoggedEvent /\ Head(w).seq <= e.seq /\ 1 \in DOMAIN w /\ Head(w) = w[1]
         /\ \A k \in DOMAIN w : Head(w).seq <= w[k].seq
         /\ es = <<>> => Head(w) = e /\ \A k \in DOMAIN w : w[k] = e
         /\ es # <<>> => /\ Head(es) \in LoggedEvent /\ Head(es).seq <= Head(w).seq
                         /\ \A d \in LoggedEvent : ~Undoes(e, d) /\ d.seq < Head(w).seq => d.seq < Head(es).seq
<1>1. /\ w \in Seq(LoggedEvent) /\ w # <<>>
      /\ \A i, j \in DOMAIN w : i < j => w[i].seq < w[j].seq
      /\ \A k \in DOMAIN w : w[k] = e \/ \E i \in DOMAIN es : w[k] = es[i] /\ ~Undoes(e, es[i])
      /\ \A i \in DOMAIN es : Undoes(e, es[i]) \/ \E k \in DOMAIN w : w[k] = es[i]
      /\ \E k \in DOMAIN w : w[k] = e
  BY DEF Follows, Ordered
<1>2. 1 \in DOMAIN w /\ Head(w) = w[1] /\ w[1] \in LoggedEvent
  BY <1>1
<1>3. \A k \in DOMAIN w : w[k].seq \in Nat /\ w[1].seq <= w[k].seq
  <2>1. ASSUME NEW k \in DOMAIN w PROVE w[k].seq \in Nat /\ w[1].seq <= w[k].seq
    <3>1. w[k].seq \in Nat /\ w[1].seq \in Nat
      BY <1>1, <1>2
    <3>2. k = 1 \/ 1 < k
      BY <1>1
    <3>3. QED
      BY <1>1, <1>2, <3>1, <3>2
  <2>2. QED
    BY <2>1
<1>4. w[1].seq <= e.seq
  BY <1>1, <1>3
<1>5. ASSUME es = <<>> PROVE \A k \in DOMAIN w : w[k] = e
  BY <1>1, <1>5
<1>6. ASSUME es # <<>>
      PROVE  /\ Head(es) \in LoggedEvent /\ Head(es).seq <= w[1].seq
             /\ \A d \in LoggedEvent : ~Undoes(e, d) /\ d.seq < w[1].seq => d.seq < Head(es).seq
  <2>1. 1 \in DOMAIN es /\ Head(es) = es[1] /\ es[1] \in LoggedEvent /\ es[1].seq \in Nat
    BY <1>6
  <2>2. \A i \in DOMAIN es : es[1].seq <= es[i].seq /\ es[i].seq \in Nat
    <3>1. ASSUME NEW i \in DOMAIN es PROVE es[1].seq <= es[i].seq /\ es[i].seq \in Nat
      <4>1. es[i].seq \in Nat /\ (i = 1 \/ 1 < i)
        OBVIOUS
      <4>2. QED
        BY <2>1, <4>1 DEF Ordered
    <3>2. QED
      BY <3>1
  <2>3. es[1].seq <= w[1].seq
    <3>1. w[1] = e \/ \E i \in DOMAIN es : w[1] = es[i]
      BY <1>1, <1>2
    <3>2. es[1].seq < e.seq
      BY <2>1 DEF Before
    <3>3. QED
      BY <2>1, <2>2, <3>1, <3>2
  <2>4. ASSUME NEW d \in LoggedEvent, ~Undoes(e, d), d.seq < w[1].seq PROVE d.seq < es[1].seq
    <3>1. SUFFICES ASSUME ~(d.seq < es[1].seq) PROVE FALSE
      OBVIOUS
    <3>2. d.seq \in Nat /\ e.seq \in Nat /\ e.from \in Nat /\ w[1].seq \in Nat
      BY <1>2
    <3>3. d.seq < e.seq
      BY <1>4, <2>4, <3>2
    <3>4. e.from = 0 \/ d.seq < e.from
      BY <2>4, <3>2, <3>3 DEF Undoes
    <3>5. ~Undoes(e, es[1])
      BY <2>1, <3>1, <3>2, <3>4 DEF Undoes
    <3>6. PICK k \in DOMAIN w : w[k] = es[1]
      BY <1>1, <2>1, <3>5
    <3>7. QED
      BY <1>3, <2>1, <2>4, <3>1, <3>2, <3>6
  <2>5. QED
    BY <2>1, <2>3, <2>4
<1>7. QED
  BY <1>2, <1>3, <1>4, <1>5, <1>6

LEMMA FollowsJoined ==
  ASSUME NEW a \in Seq(LoggedEvent), NEW b \in Seq(LoggedEvent), NEW e \in LoggedEvent,
         Before(a \o b, e), Ordered(a \o b), NEW w, Follows(w, b, e)
  PROVE  Follows(Rolled(a, e) \o w, a \o b, e)
<1>a. PICK c, v, x : c = a \o b /\ v = Rolled(a, e) /\ x = v \o w
  OBVIOUS
<1>b. c = a \o b /\ Before(c, e) /\ Ordered(c)
  BY <1>a
<1>0. \A y \in LoggedEvent : y.seq \in Nat /\ y.from \in Nat
  <2>1. ASSUME NEW y \in LoggedEvent PROVE y.seq \in Nat /\ y.from \in Nat
    <3>1. y.seq \in 1 .. MaxEvents /\ y.from \in 0 .. MaxEvents
      BY DEF LoggedEvent, Seqno
    <3>2. QED
      BY <3>1, PageAssumption
  <2>2. QED
    BY <2>1
<1>1. /\ c \in Seq(LoggedEvent) /\ Len(a) \in Nat
      /\ \A i \in DOMAIN a : i \in DOMAIN c /\ c[i] = a[i] /\ i \in Nat /\ i <= Len(a)
      /\ \A i \in DOMAIN b : Len(a) + i \in DOMAIN c /\ c[Len(a) + i] = b[i] /\ i \in Nat /\ i > 0
      /\ \A i \in DOMAIN c : \/ i \in DOMAIN a
                             \/ i \notin DOMAIN a /\ i > Len(a) /\ i - Len(a) \in DOMAIN b
  BY <1>b, JoinedIs
<1>2. Before(a, e) /\ Ordered(a) /\ \A i \in DOMAIN c : i \in Nat
  <2>1. \A i \in DOMAIN a : a[i].seq < e.seq
    BY <1>b, <1>1 DEF Before
  <2>2. \A i, j \in DOMAIN a : i < j => a[i].seq < a[j].seq
    BY <1>b, <1>1 DEF Ordered
  <2>3. QED
    BY <1>1, <2>1, <2>2 DEF Before, Ordered
<1>3. /\ v \in Seq(LoggedEvent) /\ Ordered(v)
      /\ \A k \in DOMAIN v : \E i \in DOMAIN a : v[k] = a[i] /\ ~Undoes(e, a[i])
      /\ \A i \in DOMAIN a : Undoes(e, a[i]) \/ \E k \in DOMAIN v : v[k] = a[i]
  BY <1>0, <1>a, <1>2, RolledIs
<1>4. /\ w \in Seq(LoggedEvent) /\ w # <<>> /\ Ordered(w)
      /\ \A k \in DOMAIN w : w[k] = e \/ \E i \in DOMAIN b : w[k] = b[i] /\ ~Undoes(e, b[i])
      /\ \A i \in DOMAIN b : Undoes(e, b[i]) \/ \E k \in DOMAIN w : w[k] = b[i]
      /\ \E k \in DOMAIN w : w[k] = e
  BY DEF Follows
<1>5. /\ x \in Seq(LoggedEvent) /\ Len(x) = Len(v) + Len(w) /\ Len(v) \in Nat
      /\ \A i \in DOMAIN x : i \in Nat
      /\ \A i \in DOMAIN v : i \in DOMAIN x /\ x[i] = v[i] /\ i \in Nat /\ i <= Len(v)
      /\ \A i \in DOMAIN w : Len(v) + i \in DOMAIN x /\ x[Len(v) + i] = w[i] /\ i \in Nat /\ i > 0
      /\ \A i \in DOMAIN x : \/ i \in DOMAIN v
                             \/ i \notin DOMAIN v /\ i > Len(v) /\ i - Len(v) \in DOMAIN w
  <2>1. v \in Seq(LoggedEvent) /\ w \in Seq(LoggedEvent) /\ x = v \o w
    BY <1>a, <1>3, <1>4
  <2>2. QED
    BY <2>1, JoinedIs
<1>6. \A k \in DOMAIN v : \E i \in DOMAIN c : v[k] = c[i] /\ ~Undoes(e, c[i]) /\ i <= Len(a)
  BY <1>1, <1>3
<1>7. \A k \in DOMAIN w : w[k] = e \/ \E i \in DOMAIN c : w[k] = c[i] /\ ~Undoes(e, c[i]) /\ i > Len(a)
  <2>1. ASSUME NEW k \in DOMAIN w, w[k] # e PROVE \E i \in DOMAIN c : w[k] = c[i] /\ ~Undoes(e, c[i]) /\ i > Len(a)
    <3>1. PICK i \in DOMAIN b : w[k] = b[i] /\ ~Undoes(e, b[i])
      BY <1>4, <2>1
    <3>2. Len(a) + i \in DOMAIN c /\ c[Len(a) + i] = b[i] /\ Len(a) + i > Len(a)
      BY <1>1
    <3>3. QED
      BY <3>1, <3>2
  <2>2. QED
    BY <2>1
<1>8. \A k \in DOMAIN x : \/ k \in DOMAIN v /\ x[k] = v[k]
                          \/ k \notin DOMAIN v /\ k - Len(v) \in DOMAIN w /\ x[k] = w[k - Len(v)]
  <2>1. ASSUME NEW k \in DOMAIN x, k \notin DOMAIN v PROVE k - Len(v) \in DOMAIN w /\ x[k] = w[k - Len(v)]
    <3>1. k - Len(v) \in DOMAIN w /\ Len(v) + (k - Len(v)) = k
      BY <1>5, <2>1
    <3>2. QED
      BY <1>5, <3>1
  <2>2. \A k \in DOMAIN v : x[k] = v[k]
    BY <1>5
  <2>3. QED
    BY <2>1, <2>2, Zenon
<1>9. \A k \in DOMAIN x : x[k] = e \/ \E i \in DOMAIN c : x[k] = c[i] /\ ~Undoes(e, c[i])
  <2>1. ASSUME NEW k \in DOMAIN x, x[k] # e PROVE \E i \in DOMAIN c : x[k] = c[i] /\ ~Undoes(e, c[i])
    <3>1. CASE k \in DOMAIN v
      BY <1>6, <1>8, <3>1
    <3>2. CASE k \notin DOMAIN v
      <4>1. PICK l \in DOMAIN w : x[k] = w[l]
        BY <1>8, <3>2
      <4>2. w[l] # e
        BY <2>1, <4>1
      <4>3. \E i \in DOMAIN c : w[l] = c[i] /\ ~Undoes(e, c[i])
        BY <1>7, <4>2
      <4>4. QED
        BY <4>1, <4>3
    <3>3. QED
      BY <3>1, <3>2
  <2>2. QED
    BY <2>1
<1>10. ASSUME NEW i \in DOMAIN c, ~Undoes(e, c[i]) PROVE \E k \in DOMAIN x : x[k] = c[i]
  <2>1. CASE i \in DOMAIN a
    <3>1. PICK k \in DOMAIN v : v[k] = c[i]
      BY <1>1, <1>3, <1>10, <2>1
    <3>2. QED
      BY <1>5, <3>1
  <2>2. CASE i \notin DOMAIN a
    <3>1. i - Len(a) \in DOMAIN b /\ Len(a) + (i - Len(a)) = i
      BY <1>1, <1>2, <2>2
    <3>2. b[i - Len(a)] = c[i]
      BY <1>1, <3>1
    <3>3. PICK k \in DOMAIN w : w[k] = c[i]
      BY <1>4, <1>10, <3>1, <3>2
    <3>4. QED
      BY <1>5, <3>3
  <2>3. QED
    BY <2>1, <2>2
<1>11. \E k \in DOMAIN x : x[k] = e
  BY <1>4, <1>5
<1>12. ASSUME NEW k \in DOMAIN x, NEW l \in DOMAIN x, k < l PROVE x[k].seq < x[l].seq
  <2>1. k \in Nat /\ l \in Nat
    BY <1>5
  <2>2. CASE k \in DOMAIN v /\ l \in DOMAIN v
    BY <1>3, <1>8, <1>12, <2>2 DEF Ordered
  <2>3. CASE k \in DOMAIN v /\ l \notin DOMAIN v
    <3>1. PICK i \in DOMAIN c : x[k] = c[i] /\ i <= Len(a)
      BY <1>6, <1>8, <2>3
    <3>2. x[l] = e \/ \E j \in DOMAIN c : x[l] = c[j] /\ j > Len(a)
      BY <1>7, <1>8, <2>3
    <3>3. CASE x[l] = e
      BY <1>b, <3>1, <3>3 DEF Before
    <3>4. ASSUME NEW j \in DOMAIN c, x[l] = c[j], j > Len(a) PROVE x[k].seq < x[l].seq
      <4>1. i < j
        BY <1>1, <1>2, <3>1, <3>4
      <4>2. QED
        BY <1>b, <3>1, <3>4, <4>1 DEF Ordered
    <3>5. QED
      BY <3>2, <3>3, <3>4
  <2>4. CASE k \notin DOMAIN v /\ l \notin DOMAIN v
    <3>1. k - Len(v) < l - Len(v)
      BY <1>5, <1>12, <2>1
    <3>2. QED
      BY <1>4, <1>8, <2>4, <3>1 DEF Ordered
  <2>5. CASE k \notin DOMAIN v /\ l \in DOMAIN v
    BY <1>5, <1>12, <2>1, <2>5
  <2>6. QED
    BY <2>2, <2>3, <2>4, <2>5
<1>13. x # <<>>
  <2>1. DOMAIN (<<>>) = {}
    OBVIOUS
  <2>2. QED
    BY <1>11, <2>1
<1>14. Follows(x, c, e)
  BY <1>5, <1>9, <1>10, <1>11, <1>12, <1>13 DEF Follows, Ordered
<1>15. QED
  BY <1>a, <1>14

LEMMA TailIs ==
  ASSUME NEW T, NEW s \in Seq(T), s # <<>>
  PROVE  /\ Tail(s) \in Seq(T) /\ 1 \in DOMAIN s /\ Head(s) = s[1]
         /\ \A i \in DOMAIN Tail(s) : i + 1 \in DOMAIN s /\ Tail(s)[i] = s[i + 1] /\ i \in Nat /\ i + 1 # 1
         /\ \A i \in DOMAIN s : i # 1 => i - 1 \in DOMAIN Tail(s) /\ Tail(s)[i - 1] = s[i] /\ i \in Nat /\ i > 1
<1>1. PICK n \in Nat : Len(s) = n /\ n > 0
  OBVIOUS
<1>2. DOMAIN s = 1 .. n /\ Tail(s) \in Seq(T) /\ Len(Tail(s)) = n - 1 /\ DOMAIN Tail(s) = 1 .. (n - 1)
  BY <1>1, HeadTailProperties
<1>3. \A i \in 1 .. (n - 1) : Tail(s)[i] = s[i + 1]
  BY <1>1, <1>2, HeadTailProperties
<1>4. \A i \in 1 .. (n - 1) : i + 1 \in 1 .. n /\ i \in Nat /\ i + 1 # 1
  BY <1>1
<1>5. \A i \in 1 .. n : i # 1 => i - 1 \in 1 .. (n - 1) /\ (i - 1) + 1 = i /\ i \in Nat /\ i > 1
  BY <1>1
<1>6. 1 \in 1 .. n /\ Head(s) = s[1]
  BY <1>1
<1>7. QED
  BY <1>2, <1>3, <1>4, <1>5, <1>6

LEMMA ReadParts ==
  ASSUME ThreadInv, ViewReads, NEW m, m = Head(toView)
  PROVE  /\ ThreadTypeOK /\ Channels /\ Asked /\ LogIsFine /\ SentIsFine /\ PageIsFine /\ CopyIsFine
         /\ UNCHANGED <<threadLog, lastSeqno, client, toThread, channels, torn>>
         /\ client /\ view.channel = "open" /\ view \in ViewState
         /\ 1 \in DOMAIN toView /\ m = toView[1] /\ toView' \in Seq(DaemonMsg)
         /\ \A i \in DOMAIN toView' : i + 1 \in DOMAIN toView /\ toView'[i] = toView[i + 1] /\ i \in Nat /\ i + 1 # 1
         /\ \A i \in DOMAIN toView : i # 1 => i - 1 \in DOMAIN toView' /\ toView'[i - 1] = toView[i] /\ i \in Nat /\ i > 1
<1>1. toView \in Seq(DaemonMsg) /\ toView # <<>> /\ toView' = Tail(toView)
  BY DEF ThreadInv, ThreadTypeOK, ViewReads
<1>2. /\ Tail(toView) \in Seq(DaemonMsg) /\ 1 \in DOMAIN toView /\ Head(toView) = toView[1]
      /\ \A i \in DOMAIN Tail(toView) :
           i + 1 \in DOMAIN toView /\ Tail(toView)[i] = toView[i + 1] /\ i \in Nat /\ i + 1 # 1
      /\ \A i \in DOMAIN toView : i # 1 =>
           i - 1 \in DOMAIN Tail(toView) /\ Tail(toView)[i - 1] = toView[i] /\ i \in Nat /\ i > 1
  BY <1>1, TailIs
<1>3. client
  BY <1>1 DEF ThreadInv, Channels
<1>4. QED
  BY <1>1, <1>2, <1>3 DEF ThreadInv, ThreadTypeOK, ViewReads

LEMMA EventRead ==
  ASSUME ThreadInv, ViewReads, NEW m, m = Head(toView), m.t = "event", NEW e, e = m.event
  PROVE  /\ e \in LoggedEvent /\ e.seq \in Nat /\ view.lastSeq < e.seq /\ e.seq <= lastSeqno
         /\ \A d \in threadLog : ~Undoes(e, d) /\ (d.seq = e.seq => d = e)
         /\ e \in threadLog \/ \E r \in threadLog : Undoes(r, e)
         /\ \A j \in DOMAIN toView : j # 1 /\ toView[j].t = "event" => e.seq < toView[j].event.seq
         /\ \A d \in threadLog : view.lastSeq < d.seq /\ d.seq < e.seq => Overlooked(d)
         /\ \A d \in threadLog : e.seq < d.seq => \E j \in DOMAIN toView : j # 1 /\ toView[j].t = "event" /\ toView[j].event = d
<1>0. /\ ThreadTypeOK /\ LogIsFine /\ SentIsFine /\ client
      /\ 1 \in DOMAIN toView /\ m = toView[1]
      /\ \A i \in DOMAIN toView : i # 1 => i \in Nat /\ i > 1
  BY ReadParts
<1>1. toView[1].t = "event" /\ toView[1].event = e
  BY <1>0
<1>2. e \in LoggedEvent /\ e.seq \in Nat /\ e.from \in Nat
  BY <1>0, <1>1, SentParts
<1>3. /\ view.lastSeq < e.seq /\ e.seq <= lastSeqno
      /\ \A d \in threadLog : ~Undoes(e, d)
      /\ e \in threadLog \/ \E r \in threadLog : Undoes(r, e)
  BY <1>0, <1>1 DEF SentIsFine
<1>4. ASSUME NEW j \in DOMAIN toView, j # 1, toView[j].t = "event" PROVE e.seq < toView[j].event.seq
  <2>1. 1 < j
    BY <1>0, <1>4
  <2>2. \A k \in DOMAIN toView : k < j /\ toView[k].t = "event" => toView[k].event.seq < toView[j].event.seq
    BY <1>0, <1>4 DEF SentIsFine
  <2>3. QED
    BY <1>0, <1>1, <2>1, <2>2
<1>5. \A d \in threadLog : d \in LoggedEvent /\ d.seq \in Nat /\ d.from \in Nat
  BY <1>0, ThreadParts
<1>6. ASSUME NEW d \in threadLog, d.seq = e.seq PROVE d = e
  <2>1. CASE e \in threadLog
    BY <1>0, <1>6, <2>1 DEF LogIsFine
  <2>2. ASSUME NEW r \in threadLog, Undoes(r, e) PROVE FALSE
    <3>1. Undoes(r, d)
      BY <1>6, <2>2 DEF Undoes
    <3>2. QED
      BY <1>0, <3>1 DEF LogIsFine
  <2>3. QED
    BY <1>3, <2>1, <2>2
<1>7. ASSUME NEW d \in threadLog, view.lastSeq < d.seq
      PROVE  (\E j \in DOMAIN toView : toView[j].t = "event" /\ toView[j].event = d) \/ Overlooked(d)
  BY <1>0, <1>5, <1>7, ThreadParts DEF SentIsFine, Coming
<1>8. ASSUME NEW d \in threadLog, view.lastSeq < d.seq, d.seq < e.seq PROVE Overlooked(d)
  <2>1. ASSUME NEW j \in DOMAIN toView, toView[j].t = "event", toView[j].event = d PROVE FALSE
    <3>1. CASE j = 1
      BY <1>1, <1>2, <1>8, <2>1, <3>1
    <3>2. CASE j # 1
      BY <1>2, <1>4, <1>5, <1>8, <2>1, <3>2
    <3>3. QED
      BY <3>1, <3>2
  <2>2. QED
    BY <1>7, <1>8, <2>1
<1>9. ASSUME NEW d \in threadLog, e.seq < d.seq
      PROVE  \E j \in DOMAIN toView : j # 1 /\ toView[j].t = "event" /\ toView[j].event = d
  <2>1. view.lastSeq < d.seq
    BY <1>0, <1>2, <1>3, <1>5, <1>9, ThreadParts
  <2>2. ~Overlooked(d)
    <3>1. Overlooked(d) => d.seq < e.seq
      BY <1>0, <1>1 DEF Overlooked
    <3>2. QED
      BY <1>2, <1>5, <1>9, <3>1
  <2>3. PICK j \in DOMAIN toView : toView[j].t = "event" /\ toView[j].event = d
    BY <1>7, <2>1, <2>2
  <2>4. j # 1
    BY <1>1, <1>2, <1>5, <1>9, <2>3
  <2>5. QED
    BY <2>3, <2>4
<1>10. QED
  BY <1>2, <1>3, <1>4, <1>6, <1>8, <1>9

LEMMA EventShown ==
  ASSUME ThreadInv, ViewReads, NEW m, m = Head(toView), m.t = "event", NEW e, e = m.event
  PROVE  /\ view' \in ViewState /\ view'.lastSeq = e.seq
         /\ view'.channel = view.channel /\ view'.replaying = view.replaying /\ view'.replayFrom = view.replayFrom
         /\ view'.synced = view.synced /\ view'.loadingEarlier = view.loadingEarlier
         /\ view.replaying => /\ Follows(view'.replay, view.replay, e)
                              /\ view.events = <<>> => view'.events = <<>>
         /\ ~view.replaying => view'.replay = <<>> /\ Follows(view'.events, view.events, e)
         /\ Follows(Shown', Shown, e)
         /\ Before(Shown, e) /\ Ordered(Shown) /\ Before(view.events, e) /\ Ordered(view.events)
         /\ Before(view.replay, e) /\ Ordered(view.replay)
<1>0. /\ ThreadTypeOK /\ Channels /\ CopyIsFine /\ view \in ViewState
      /\ e \in LoggedEvent /\ e.seq \in Nat /\ view.lastSeq < e.seq /\ view.lastSeq \in Nat
      /\ view.events \in Seq(LoggedEvent) /\ view.replay \in Seq(LoggedEvent) /\ view.replaying \in BOOLEAN
  BY ReadParts, EventRead, ThreadParts
<1>1. view' = OnEvent(view, e)
  BY DEF ViewReads
<1>2. PICK a, b, c : a = view.events /\ b = view.replay /\ c = Shown
  OBVIOUS
<1>3. a \in Seq(LoggedEvent) /\ b \in Seq(LoggedEvent) /\ c = a \o b
  BY <1>0, <1>2 DEF Shown
<1>4. /\ c \in Seq(LoggedEvent) /\ Len(a) \in Nat
      /\ \A i \in DOMAIN a : i \in DOMAIN c /\ c[i] = a[i] /\ i \in Nat
      /\ \A i \in DOMAIN b : Len(a) + i \in DOMAIN c /\ c[Len(a) + i] = b[i] /\ i \in Nat
  BY <1>3, JoinedIs
<1>5. Before(c, e) /\ Ordered(c)
  <2>1. \A i \in DOMAIN c : c[i].seq \in Nat
    BY <1>0, <1>4, ThreadParts
  <2>2. \A i \in DOMAIN c : c[i].seq <= view.lastSeq
    BY <1>0, <1>2 DEF CopyIsFine
  <2>3. \A i \in DOMAIN c : c[i].seq < e.seq
    BY <1>0, <2>1, <2>2
  <2>4. Ordered(c)
    BY <1>0, <1>2 DEF CopyIsFine, Ordered
  <2>5. QED
    BY <2>3, <2>4 DEF Before
<1>6. Before(a, e) /\ Ordered(a)
  <2>1. \A i \in DOMAIN a : a[i].seq < e.seq
    BY <1>4, <1>5 DEF Before
  <2>2. \A i, j \in DOMAIN a : i < j => a[i].seq < a[j].seq
    BY <1>4, <1>5 DEF Ordered
  <2>3. QED
    BY <2>1, <2>2 DEF Before, Ordered
<1>7. Before(b, e) /\ Ordered(b)
  <2>1. \A i \in DOMAIN b : b[i].seq < e.seq
    <3>1. ASSUME NEW i \in DOMAIN b PROVE b[i].seq < e.seq
      <4>1. PICK k \in DOMAIN c : c[k] = b[i]
        BY <1>4
      <4>2. QED
        BY <1>5, <4>1 DEF Before
    <3>2. QED
      BY <3>1
  <2>2. \A i, j \in DOMAIN b : i < j => b[i].seq < b[j].seq
    <3>1. ASSUME NEW i \in DOMAIN b, NEW j \in DOMAIN b, i < j PROVE b[i].seq < b[j].seq
      <4>1. Len(a) + i < Len(a) + j
        BY <1>4, <3>1
      <4>2. QED
        BY <1>4, <1>5, <4>1 DEF Ordered
    <3>2. QED
      BY <3>1
  <2>3. QED
    BY <2>1, <2>2 DEF Before, Ordered
<1>8. PICK ra, rb : ra = Rolled(a, e) /\ rb = Rolled(b, e)
  OBVIOUS
<1>9. \A x \in LoggedEvent : x.seq \in Nat /\ x.from \in Nat
  BY <1>0, ThreadParts
<1>10. ra \in Seq(LoggedEvent) /\ rb \in Seq(LoggedEvent) /\ (a = <<>> => ra = <<>>) /\ (b = <<>> => rb = <<>>)
  <2>1. ra \in Seq(LoggedEvent) /\ (a = <<>> => ra = <<>>)
    BY <1>0, <1>3, <1>6, <1>8, <1>9, RolledIs
  <2>2. rb \in Seq(LoggedEvent) /\ (b = <<>> => rb = <<>>)
    BY <1>0, <1>3, <1>7, <1>8, <1>9, RolledIs
  <2>3. QED
    BY <2>1, <2>2
<1>11. PICK fa, fb : fa = Append(ra, e) /\ fb = Append(rb, e)
  OBVIOUS
<1>12. Follows(fa, a, e) /\ Follows(fb, b, e) /\ fa \in Seq(LoggedEvent) /\ fb \in Seq(LoggedEvent)
  <2>1. Follows(fa, a, e)
    BY <1>0, <1>3, <1>6, <1>8, <1>9, <1>11, FollowsIs
  <2>2. Follows(fb, b, e)
    BY <1>0, <1>3, <1>7, <1>8, <1>9, <1>11, FollowsIs
  <2>3. QED
    BY <2>1, <2>2 DEF Follows
<1>13. PICK v : v = IF e.from = 0 THEN view ELSE [view EXCEPT !.events = Kept(@, e), !.replay = Kept(@, e)]
  OBVIOUS
<1>14. v = [view EXCEPT !.events = ra, !.replay = rb]
  <2>1. CASE e.from = 0
    <3>1. ra = view.events /\ rb = view.replay /\ v = view
      BY <1>2, <1>8, <1>13, <2>1 DEF Rolled
    <3>2. QED
      BY <1>0, <3>1 DEF ViewState
  <2>2. CASE e.from # 0
    <3>1. ra = Kept(view.events, e) /\ rb = Kept(view.replay, e)
      BY <1>2, <1>8, <2>2 DEF Rolled
    <3>2. v = [view EXCEPT !.events = Kept(view.events, e), !.replay = Kept(view.replay, e)]
      BY <1>0, <1>13, <2>2 DEF ViewState
    <3>3. QED
      BY <3>1, <3>2
  <2>3. QED
    BY <2>1, <2>2
<1>15. view' = IF view.replaying THEN [v EXCEPT !.lastSeq = e.seq, !.replay = Append(@, e)]
                                 ELSE [v EXCEPT !.lastSeq = e.seq, !.events = Append(@, e)]
  <2>1. ~(e.seq <= view.lastSeq)
    BY <1>0
  <2>2. QED
    <3>1. view' = LET w == IF e.from = 0 THEN view ELSE [view EXCEPT !.events = Kept(@, e), !.replay = Kept(@, e)]
                  IN IF view.replaying THEN [w EXCEPT !.lastSeq = e.seq, !.replay = Append(@, e)]
                                       ELSE [w EXCEPT !.lastSeq = e.seq, !.events = Append(@, e)]
      BY <1>1, <2>1, Zenon DEF OnEvent
    <3>2. QED
      BY <1>13, <3>1
<1>16. e.seq \in 0 .. MaxEvents /\ MaxEvents \in Nat
  <2>1. e.seq \in 1 .. MaxEvents
    BY <1>0 DEF LoggedEvent, Seqno
  <2>2. QED
    BY <2>1, PageAssumption
<1>17. CASE view.replaying
  <2>1. view' = [view EXCEPT !.events = ra, !.replay = fb, !.lastSeq = e.seq]
    <3>1. view' = [v EXCEPT !.lastSeq = e.seq, !.replay = Append(@, e)]
      BY <1>15, <1>17
    <3>2. v.replay = rb
      BY <1>0, <1>14 DEF ViewState
    <3>3. view' = [v EXCEPT !.lastSeq = e.seq, !.replay = fb]
      BY <1>11, <3>1, <3>2
    <3>4. QED
      BY <1>0, <1>14, <3>3 DEF ViewState
  <2>2. view' \in ViewState
    BY <1>0, <1>10, <1>12, <1>16, <2>1 DEF ViewState
  <2>3. /\ view'.lastSeq = e.seq /\ view'.channel = view.channel /\ view'.replaying = view.replaying
        /\ view'.replayFrom = view.replayFrom /\ view'.synced = view.synced
        /\ view'.loadingEarlier = view.loadingEarlier /\ view'.events = ra /\ view'.replay = fb
    BY <1>0, <2>1 DEF ViewState
  <2>4. PICK x : x = Shown' /\ x = ra \o fb
    BY <2>3 DEF Shown
  <2>5. Follows(x, c, e)
    <3>1. x = Rolled(a, e) \o fb /\ e \in LoggedEvent /\ Before(a \o b, e) /\ Ordered(a \o b) /\ c = a \o b
      BY <1>0, <1>3, <1>5, <1>8, <2>4
    <3>2. Follows(Rolled(a, e) \o fb, a \o b, e)
      BY <1>3, <1>12, <3>1, FollowsJoined
    <3>3. QED
      BY <3>1, <3>2
  <2>6. QED
    BY <1>2, <1>5, <1>6, <1>7, <1>10, <1>12, <1>17, <2>2, <2>3, <2>4, <2>5
<1>18. CASE ~view.replaying
  <2>1. view' = [view EXCEPT !.events = fa, !.replay = rb, !.lastSeq = e.seq]
    <3>1. view' = [v EXCEPT !.lastSeq = e.seq, !.events = Append(@, e)]
      BY <1>15, <1>18
    <3>2. v.events = ra
      BY <1>0, <1>14 DEF ViewState
    <3>3. view' = [v EXCEPT !.lastSeq = e.seq, !.events = fa]
      BY <1>11, <3>1, <3>2
    <3>4. QED
      BY <1>0, <1>14, <3>3 DEF ViewState
  <2>2. view' \in ViewState
    BY <1>0, <1>10, <1>12, <1>16, <2>1 DEF ViewState
  <2>3. /\ view'.lastSeq = e.seq /\ view'.channel = view.channel /\ view'.replaying = view.replaying
        /\ view'.replayFrom = view.replayFrom /\ view'.synced = view.synced
        /\ view'.loadingEarlier = view.loadingEarlier /\ view'.events = fa /\ view'.replay = rb
    BY <1>0, <2>1 DEF ViewState
  <2>4. b = <<>> /\ rb = <<>> /\ c = a
    BY <1>0, <1>2, <1>3, <1>10, <1>18, ConcatEmptySeq DEF Channels
  <2>5. Shown' = fa
    <3>1. Shown' = fa \o <<>>
      BY <2>3, <2>4 DEF Shown
    <3>2. QED
      BY <1>12, <3>1, ConcatEmptySeq
  <2>6. QED
    BY <1>2, <1>5, <1>6, <1>7, <1>12, <1>18, <2>2, <2>3, <2>4, <2>5
<1>19. QED
  BY <1>0, <1>17, <1>18

\* What an event read does to what a replay skips.
LEMMA EventSkips ==
  ASSUME ThreadInv, ViewReads, NEW m, m = Head(toView), m.t = "event", NEW e, e = m.event
  PROVE  /\ \A d \in threadLog : Skipped(d) => Skipped(d)'
         /\ \A d \in threadLog : Skipped(d)' => Skipped(d) \/ (Overlooked(d) /\ view.replaying)
         /\ \A d \in threadLog : Overlooked(d) /\ view.lastSeq < d.seq /\ d.seq < e.seq =>
              Skipped(d)' \/ (Shown = <<>> /\ view.replayFrom = 0)
<1>0. /\ ThreadTypeOK /\ Channels /\ e \in LoggedEvent /\ e.seq \in Nat
      /\ \A d \in threadLog : d \in LoggedEvent /\ d.seq \in Nat /\ ~Undoes(e, d)
      /\ \A x \in LoggedEvent : x.seq \in Nat /\ x.from \in Nat
      /\ view.replay \in Seq(LoggedEvent) /\ view.replayFrom \in Nat
      /\ view'.replaying = view.replaying /\ view'.replayFrom = view.replayFrom
      /\ Before(view.replay, e) /\ Ordered(view.replay)
      /\ \A d \in threadLog : view.lastSeq < d.seq /\ d.seq < e.seq => Overlooked(d)
      /\ view.lastSeq \in Nat
  BY ReadParts, EventRead, EventShown, ThreadParts
<1>1. CASE ~view.replaying
  BY <1>0, <1>1 DEF Skipped, Overlooked
<1>2. CASE view.replaying
  <2>1. PICK b, w : b = view.replay /\ w = view'.replay /\ Follows(w, b, e)
    BY <1>2, EventShown
  <2>2. b \in Seq(LoggedEvent) /\ Before(b, e) /\ Ordered(b) /\ w # <<>>
    BY <1>0, <2>1 DEF Follows
  <2>3. /\ Head(w) \in LoggedEvent /\ Head(w).seq <= e.seq
        /\ b = <<>> => Head(w) = e
        /\ b # <<>> => /\ Head(b) \in LoggedEvent /\ Head(b).seq <= Head(w).seq
                       /\ \A d \in LoggedEvent : ~Undoes(e, d) /\ d.seq < Head(w).seq => d.seq < Head(b).seq
    BY <1>0, <2>1, <2>2, FollowsHead
  <2>4. Head(w).seq \in Nat /\ (b # <<>> => Head(b).seq \in Nat)
    BY <1>0, <2>3
  <2>5. \A d : Skipped(d) <=> view.replayFrom > 0 /\ b # <<>> /\ view.replayFrom < d.seq /\ d.seq < Head(b).seq
    BY <1>2, <2>1 DEF Skipped
  <2>6. \A d : Skipped(d)' <=> view.replayFrom > 0 /\ view.replayFrom < d.seq /\ d.seq < Head(w).seq
    BY <1>0, <1>2, <2>1, <2>2 DEF Skipped
  <2>7. ASSUME NEW d \in threadLog, Skipped(d) PROVE Skipped(d)'
    BY <1>0, <2>3, <2>4, <2>5, <2>6, <2>7
  <2>8. ASSUME NEW d \in threadLog, Skipped(d)' PROVE Skipped(d) \/ Overlooked(d)
    <3>1. CASE b = <<>>
      <4>1. view.replayFrom = view.lastSeq
        BY <1>0, <1>2, <2>1, <3>1 DEF Channels
      <4>2. view.lastSeq < d.seq /\ d.seq < e.seq
        BY <2>3, <2>6, <2>8, <3>1, <4>1
      <4>3. QED
        BY <1>0, <4>2
    <3>2. CASE b # <<>>
      BY <1>0, <2>3, <2>5, <2>6, <2>8, <3>2
    <3>3. QED
      BY <3>1, <3>2
  <2>9. ASSUME NEW d \in threadLog, Overlooked(d), d.seq < e.seq, view.lastSeq < d.seq
        PROVE  Skipped(d)' \/ (Shown = <<>> /\ view.replayFrom = 0)
    <3>1. b = <<>> /\ view.replayFrom = view.lastSeq
      BY <1>0, <1>2, <2>1, <2>9 DEF Overlooked, Channels
    <3>2. CASE view.replayFrom > 0
      BY <2>3, <2>6, <2>9, <3>1, <3>2
    <3>3. CASE view.replayFrom = 0
      <4>1. view.events = <<>> /\ view.replay = <<>>
        BY <1>0, <1>2, <2>1, <3>1, <3>3 DEF Channels
      <4>2. Shown = <<>>
        BY <1>0, <4>1, ShownParts
      <4>3. QED
        BY <3>3, <4>2
    <3>4. QED
      BY <1>0, <3>2, <3>3
  <2>10. QED
    BY <1>2, <2>7, <2>8, <2>9
<1>3. QED
  BY <1>0, <1>1, <1>2

LEMMA EventCopy ==
  ASSUME ThreadInv, ViewReads, NEW m, m = Head(toView), m.t = "event", NEW e, e = m.event
  PROVE  CopyIsFine'
<1>0. /\ ThreadTypeOK /\ CopyIsFine /\ LogIsFine /\ e \in LoggedEvent /\ e.seq \in Nat /\ view.lastSeq < e.seq
      /\ \A d \in threadLog : d \in LoggedEvent /\ d.seq \in Nat /\ d.from \in Nat /\ ~Undoes(e, d) /\ (d.seq = e.seq => d = e)
      /\ \A x \in LoggedEvent : x.seq \in Nat /\ x.from \in Nat
      /\ e \in threadLog \/ \E r \in threadLog : Undoes(r, e)
      /\ \A d \in threadLog : view.lastSeq < d.seq /\ d.seq < e.seq => Overlooked(d)
      /\ view'.lastSeq = e.seq /\ threadLog' = threadLog /\ torn' = torn
      /\ Follows(Shown', Shown, e) /\ Before(Shown, e) /\ Ordered(Shown)
      /\ view.lastSeq \in Nat /\ view'.replayFrom = view.replayFrom
  BY ReadParts, EventRead, EventShown, ThreadParts
<1>1. /\ \A d \in threadLog : Skipped(d) => Skipped(d)'
      /\ \A d \in threadLog : Overlooked(d) /\ view.lastSeq < d.seq /\ d.seq < e.seq =>
           Skipped(d)' \/ (Shown = <<>> /\ view.replayFrom = 0)
  BY EventSkips
<1>2. PICK s, t : s = Shown /\ t = Shown'
  OBVIOUS
<1>3. /\ s \in Seq(LoggedEvent) /\ Before(s, e) /\ Ordered(s) /\ Follows(t, s, e)
      /\ \A i \in DOMAIN s : s[i] \in LoggedEvent /\ s[i].seq \in Nat
  BY <1>0, <1>2, ShownParts
<1>4. /\ t \in Seq(LoggedEvent) /\ t # <<>> /\ \A i, j \in DOMAIN t : i < j => t[i].seq < t[j].seq
      /\ \A k \in DOMAIN t : t[k] = e \/ \E i \in DOMAIN s : t[k] = s[i] /\ ~Undoes(e, s[i])
      /\ \A i \in DOMAIN s : Undoes(e, s[i]) \/ \E k \in DOMAIN t : t[k] = s[i]
      /\ \E k \in DOMAIN t : t[k] = e
  BY <1>3 DEF Follows, Ordered
<1>5. \A k \in DOMAIN t : t[k].seq <= e.seq
  <2>1. ASSUME NEW k \in DOMAIN t, t[k] # e PROVE t[k].seq <= e.seq
    <3>1. PICK i \in DOMAIN s : t[k] = s[i]
      BY <1>4, <2>1
    <3>2. s[i].seq \in Nat /\ s[i].seq < e.seq
      BY <1>3, <3>1 DEF Before
    <3>3. QED
      BY <1>0, <3>1, <3>2
  <2>2. QED
    BY <1>0, <2>1
<1>6. ASSUME ~torn, NEW k \in DOMAIN t, t[k] \notin threadLog
      PROVE  \E r \in threadLog : Undoes(r, t[k]) /\ (e.seq < r.seq \/ Skipped(r)')
  <2>1. CASE t[k] = e
    BY <1>0, <1>6, <2>1 DEF Undoes
  <2>2. CASE t[k] # e
    <3>1. PICK i \in DOMAIN s : t[k] = s[i] /\ ~Undoes(e, s[i])
      BY <1>4, <2>2
    <3>2. PICK r \in threadLog : Undoes(r, s[i]) /\ (view.lastSeq < r.seq \/ Skipped(r))
      BY <1>0, <1>2, <1>6, <3>1 DEF CopyIsFine
    <3>3. CASE Skipped(r)
      BY <1>1, <3>1, <3>2, <3>3
    <3>4. CASE view.lastSeq < r.seq
      <4>1. r.seq # e.seq
        BY <1>0, <3>1, <3>2
      <4>2. CASE e.seq < r.seq
        BY <3>1, <3>2, <4>2
      <4>3. CASE r.seq < e.seq
        <5>1. s # <<>>
          <6>1. DOMAIN (<<>>) = {}
            OBVIOUS
          <6>2. QED
            BY <3>1, <6>1
        <5>2. Skipped(r)'
          BY <1>0, <1>1, <1>2, <3>4, <4>3, <5>1
        <5>3. QED
          BY <3>1, <3>2, <5>2
      <4>4. QED
        BY <1>0, <4>1, <4>2, <4>3
    <3>5. QED
      BY <3>2, <3>3, <3>4
  <2>3. QED
    BY <2>1, <2>2
<1>7. ASSUME ~torn, NEW d \in threadLog, Head(t).seq <= d.seq, d.seq <= e.seq
      PROVE  (\E k \in DOMAIN t : t[k] = d) \/ Skipped(d)'
  <2>0. /\ Head(t) \in LoggedEvent /\ (s = <<>> => Head(t) = e)
        /\ s # <<>> => Head(s) \in LoggedEvent /\ Head(s).seq <= Head(t).seq
    BY <1>0, <1>3, FollowsHead
  <2>1. CASE d.seq = e.seq
    BY <1>0, <1>4, <2>1
  <2>2. CASE d.seq < e.seq
    <3>1. s # <<>>
      BY <1>0, <1>7, <2>0, <2>2
    <3>2. Head(s).seq <= d.seq
      BY <1>0, <1>7, <2>0, <3>1
    <3>3. CASE d.seq <= view.lastSeq
      <4>1. (\E i \in DOMAIN s : s[i] = d) \/ Skipped(d)
        BY <1>0, <1>2, <1>7, <3>1, <3>2, <3>3 DEF CopyIsFine
      <4>2. QED
        BY <1>0, <1>1, <1>4, <4>1
    <3>4. CASE view.lastSeq < d.seq
      BY <1>0, <1>1, <1>2, <2>2, <3>1, <3>4
    <3>5. QED
      BY <1>0, <3>3, <3>4
  <2>3. QED
    BY <1>0, <1>7, <2>1, <2>2
<1>8. /\ \A i, j \in DOMAIN Shown' : i < j => Shown'[i].seq < Shown'[j].seq
      /\ \A i \in DOMAIN Shown' : Shown'[i].seq <= view'.lastSeq
      /\ ~torn' => \A i \in DOMAIN Shown' : Shown'[i] \in threadLog' \/
           \E r \in threadLog' : Undoes(r, Shown'[i]) /\ (view'.lastSeq < r.seq \/ Skipped(r)')
      /\ ~torn' /\ Shown' # <<>> =>
           \A d \in threadLog' : Head(Shown').seq <= d.seq /\ d.seq <= view'.lastSeq =>
             (\E i \in DOMAIN Shown' : Shown'[i] = d) \/ Skipped(d)'
  BY <1>0, <1>2, <1>4, <1>5, <1>6, <1>7
<1>9. QED
  BY <1>8, Zenon DEF CopyIsFine, Undoes

LEMMA EventSent ==
  ASSUME ThreadInv, ViewReads, NEW m, m = Head(toView), m.t = "event", NEW e, e = m.event
  PROVE  SentIsFine'
<1>0. /\ ThreadTypeOK /\ Channels /\ SentIsFine /\ client
      /\ UNCHANGED <<threadLog, lastSeqno, client, toThread, channels, torn>>
      /\ 1 \in DOMAIN toView /\ m = toView[1]
      /\ \A i \in DOMAIN toView' : i + 1 \in DOMAIN toView /\ toView'[i] = toView[i + 1] /\ i \in Nat /\ i + 1 # 1
      /\ \A i \in DOMAIN toView : i # 1 => i - 1 \in DOMAIN toView' /\ toView'[i - 1] = toView[i] /\ i \in Nat /\ i > 1
      /\ e.seq \in Nat /\ view.lastSeq < e.seq /\ view.lastSeq \in Nat
      /\ \A j \in DOMAIN toView : j # 1 /\ toView[j].t = "event" => e.seq < toView[j].event.seq
      /\ \A d \in threadLog : e.seq < d.seq => \E j \in DOMAIN toView : j # 1 /\ toView[j].t = "event" /\ toView[j].event = d
      /\ view'.lastSeq = e.seq /\ view'.replaying = view.replaying
  BY ReadParts, EventRead, EventShown, ThreadParts
<1>1. ASSUME NEW i \in DOMAIN toView', toView'[i].t = "event", NEW x, x = toView'[i].event
      PROVE  /\ view'.lastSeq < x.seq /\ x.seq <= lastSeqno
             /\ \A d \in threadLog : ~Undoes(x, d)
             /\ x \in threadLog \/ \E r \in threadLog : Undoes(r, x)
             /\ \A j \in DOMAIN toView' : j < i /\ toView'[j].t = "event" => toView'[j].event.seq < x.seq
  <2>1. PICK n \in DOMAIN toView : n = i + 1 /\ n # 1 /\ toView[n].t = "event" /\ x = toView[n].event
    BY <1>0, <1>1
  <2>2. /\ x.seq <= lastSeqno
        /\ \A d \in threadLog : ~Undoes(x, d)
        /\ x \in threadLog \/ \E r \in threadLog : Undoes(r, x)
        /\ \A j \in DOMAIN toView : j < n /\ toView[j].t = "event" => toView[j].event.seq < x.seq
    BY <1>0, <2>1 DEF SentIsFine
  <2>3. ASSUME NEW j \in DOMAIN toView', j < i, toView'[j].t = "event" PROVE toView'[j].event.seq < x.seq
    <3>1. j + 1 \in DOMAIN toView /\ toView'[j] = toView[j + 1] /\ j + 1 < n
      BY <1>0, <2>1, <2>3
    <3>2. QED
      BY <2>2, <2>3, <3>1
  <2>4. e.seq < x.seq
    BY <1>0, <2>1
  <2>5. QED
    BY <1>0, <2>2, <2>3, <2>4
<1>2. ASSUME NEW i \in DOMAIN toView', toView'[i].t = "synced"
      PROVE  /\ view'.replaying
             /\ \A j \in DOMAIN toView' : j # i => toView'[j].t = "event"
             /\ ~toView'[i].truncated => \A d \in threadLog : ~Skipped(d)'
             /\ toView'[i].truncated /\ view'.replay = <<>> => i # 1
  <2>1. PICK n \in DOMAIN toView : n = i + 1 /\ n # 1 /\ toView[n].t = "synced" /\ toView'[i] = toView[n]
    BY <1>0, <1>2
  <2>2. /\ view.replaying
        /\ \A j \in DOMAIN toView : j # n => toView[j].t = "event"
        /\ ~toView[n].truncated => \A d \in threadLog : ~Skipped(d)
    BY <1>0, <2>1 DEF SentIsFine
  <2>3. \A j \in DOMAIN toView' : j # i => toView'[j].t = "event"
    <3>1. ASSUME NEW j \in DOMAIN toView', j # i PROVE toView'[j].t = "event"
      <4>1. j + 1 \in DOMAIN toView /\ toView'[j] = toView[j + 1] /\ j + 1 # n
        BY <1>0, <2>1, <3>1
      <4>2. QED
        BY <2>2, <4>1
    <3>2. QED
      BY <3>1
  <2>4. view'.replay # <<>>
    BY <2>2, EventShown DEF Follows
  <2>5. ASSUME ~toView[n].truncated PROVE \A d \in threadLog : ~Skipped(d)'
    <3>1. ~Ends(TRUE)
      BY <2>1, <2>2, <2>5 DEF Ends
    <3>2. \A d \in threadLog : ~Skipped(d) /\ ~Overlooked(d)
      BY <2>2, <2>5, <3>1 DEF Overlooked
    <3>3. QED
      BY <3>2, EventSkips
  <2>6. QED
    BY <1>0, <2>1, <2>2, <2>3, <2>4, <2>5
<1>3. ASSUME NEW d \in threadLog, d.seq > view'.lastSeq PROVE Coming(d)'
  <2>1. e.seq < d.seq
    BY <1>0, <1>3, ThreadParts
  <2>2. PICK j \in DOMAIN toView : j # 1 /\ toView[j].t = "event" /\ toView[j].event = d
    BY <1>0, <2>1
  <2>3. j - 1 \in DOMAIN toView' /\ toView'[j - 1] = toView[j]
    BY <1>0, <2>2
  <2>4. QED
    BY <2>2, <2>3 DEF Coming
<1>4. QED
  BY <1>0, <1>1, <1>2, <1>3 DEF SentIsFine, Undoes

\* What was not yet above a copy's first event is not above it now.
LEMMA EventHead ==
  ASSUME ThreadInv, ViewReads, NEW m, m = Head(toView), m.t = "event", ~view.replaying, view.events # <<>>
  PROVE  /\ view'.events # <<>>
         /\ \A d \in threadLog : d.seq < Head(view'.events).seq => d.seq < Head(view.events).seq
<1>1. PICK e : e = m.event
  OBVIOUS
<1>2. PICK a, w : a = view.events /\ w = view'.events /\ Follows(w, a, e) /\ Before(a, e) /\ Ordered(a)
  BY <1>1, EventShown
<1>3. /\ a \in Seq(LoggedEvent) /\ e \in LoggedEvent /\ a # <<>>
      /\ \A d \in threadLog : d \in LoggedEvent /\ ~Undoes(e, d)
      /\ \A x \in LoggedEvent : x.seq \in Nat /\ x.from \in Nat
  BY <1>1, <1>2, ReadParts, EventRead, ThreadParts
<1>4. \A d \in LoggedEvent : ~Undoes(e, d) /\ d.seq < Head(w).seq => d.seq < Head(a).seq
  BY <1>2, <1>3, FollowsHead
<1>5. w # <<>>
  BY <1>2 DEF Follows
<1>6. QED
  BY <1>2, <1>3, <1>4, <1>5

LEMMA EventPageAt ==
  ASSUME ThreadInv, ViewReads, Head(toView).t = "event",
         NEW i \in DOMAIN toView', toView'[i].t = "history", NEW es, es = toView'[i].events
  PROVE  /\ toThread' = <<>> /\ ~view'.replaying /\ view'.events # <<>> /\ view'.loadingEarlier
         /\ \A j \in DOMAIN toView' : j # i => toView'[j].t = "event"
         /\ \A j, k \in DOMAIN es : j < k => es[j].seq < es[k].seq
         /\ \A k \in DOMAIN es : es[k].seq <= lastSeqno
         /\ ~torn => \A k \in DOMAIN es : es[k] \in threadLog \/
                       \E r \in threadLog : /\ Undoes(r, es[k]) /\ view'.lastSeq < r.seq
                                            /\ \A j \in DOMAIN toView' : j < i => toView'[j].event.seq < r.seq
         /\ ~torn /\ es # <<>> =>
              \A d \in threadLog : Head(es).seq <= d.seq /\ d.seq < Head(view'.events).seq =>
                                   \E k \in DOMAIN es : es[k] = d
<1>m. PICK m : m = Head(toView) /\ m.t = "event"
  OBVIOUS
<1>1. PICK e : e = m.event
  OBVIOUS
<1>0. /\ ThreadTypeOK /\ PageIsFine
      /\ UNCHANGED <<threadLog, lastSeqno, client, toThread, channels, torn>>
      /\ 1 \in DOMAIN toView /\ m = toView[1]
      /\ \A n \in DOMAIN toView' : n + 1 \in DOMAIN toView /\ toView'[n] = toView[n + 1] /\ n \in Nat /\ n + 1 # 1
      /\ view'.lastSeq = e.seq /\ view'.replaying = view.replaying /\ view'.loadingEarlier = view.loadingEarlier
  BY <1>m, <1>1, ReadParts, EventShown
<1>2. PICK n \in DOMAIN toView : n = i + 1 /\ 1 < n /\ n # 1 /\ toView[n].t = "history" /\ es = toView[n].events
  BY <1>0
<1>3. /\ toThread = <<>> /\ ~view.replaying /\ view.events # <<>> /\ view.loadingEarlier
      /\ \A j \in DOMAIN toView : j # n => toView[j].t = "event"
      /\ \A j, k \in DOMAIN es : j < k => es[j].seq < es[k].seq
      /\ \A k \in DOMAIN es : es[k].seq <= lastSeqno
      /\ ~torn => \A k \in DOMAIN es : es[k] \in threadLog \/
                    \E r \in threadLog : /\ Undoes(r, es[k]) /\ view.lastSeq < r.seq
                                         /\ \A j \in DOMAIN toView : j < n => toView[j].event.seq < r.seq
      /\ ~torn /\ es # <<>> =>
           \A d \in threadLog : Head(es).seq <= d.seq /\ d.seq < Head(view.events).seq =>
                                \E k \in DOMAIN es : es[k] = d
  BY <1>0, <1>2 DEF PageIsFine
<1>4. \A j \in DOMAIN toView' : j + 1 \in DOMAIN toView /\ toView'[j] = toView[j + 1] /\ (j # i => j + 1 # n) /\ (j < i => j + 1 < n)
  BY <1>0, <1>2
<1>5. \A j \in DOMAIN toView' : j # i => toView'[j].t = "event"
  BY <1>3, <1>4
<1>6. ASSUME ~torn, NEW k \in DOMAIN es, es[k] \notin threadLog
      PROVE  \E r \in threadLog : /\ Undoes(r, es[k]) /\ view'.lastSeq < r.seq
                                  /\ \A j \in DOMAIN toView' : j < i => toView'[j].event.seq < r.seq
  <2>1. PICK r \in threadLog : /\ Undoes(r, es[k])
                               /\ \A j \in DOMAIN toView : j < n => toView[j].event.seq < r.seq
    BY <1>3, <1>6
  <2>2. e.seq < r.seq
    BY <1>0, <1>1, <1>2, <2>1
  <2>3. \A j \in DOMAIN toView' : j < i => toView'[j].event.seq < r.seq
    BY <1>4, <2>1
  <2>4. QED
    BY <1>0, <2>1, <2>2, <2>3
<1>7. /\ view'.events # <<>>
      /\ \A d \in threadLog : d.seq < Head(view'.events).seq => d.seq < Head(view.events).seq
  BY <1>m, <1>3, EventHead
<1>8. ~torn /\ es # <<>> =>
        \A d \in threadLog : Head(es).seq <= d.seq /\ d.seq < Head(view'.events).seq =>
                             \E k \in DOMAIN es : es[k] = d
  BY <1>3, <1>7
<1>9. QED
  BY <1>0, <1>3, <1>5, <1>6, <1>7, <1>8

LEMMA EventReadStep ==
  ASSUME ThreadInv, ViewReads, NEW m, m = Head(toView), m.t = "event"
  PROVE  ThreadInv'
<1>1. PICK e : e = m.event
  OBVIOUS
<1>0. /\ ThreadTypeOK /\ Channels /\ Asked /\ LogIsFine /\ client
      /\ UNCHANGED <<threadLog, lastSeqno, client, toThread, channels, torn>>
      /\ toView' \in Seq(DaemonMsg) /\ 1 \in DOMAIN toView
      /\ \A i \in DOMAIN toView' : i + 1 \in DOMAIN toView /\ toView'[i] = toView[i + 1]
      /\ view' \in ViewState /\ view'.lastSeq = e.seq /\ view.replaying \in BOOLEAN
      /\ view'.channel = view.channel /\ view'.replaying = view.replaying /\ view'.replayFrom = view.replayFrom
      /\ view'.synced = view.synced /\ view'.loadingEarlier = view.loadingEarlier
      /\ e.seq <= lastSeqno /\ view.channel = "open"
  BY <1>1, ReadParts, EventRead, EventShown, ThreadParts
<1>2. ThreadTypeOK'
  BY <1>0 DEF ThreadTypeOK
<1>3. Channels'
  <2>1. view.replaying => view'.replay # <<>> /\ (view.events = <<>> => view'.events = <<>>)
    BY <1>1, EventShown DEF Follows
  <2>2. ~view.replaying => view'.replay = <<>>
    BY <1>1, EventShown
  <2>3. QED
    BY <1>0, <2>1, <2>2 DEF Channels
<1>4. Asked'
  <2>1. \A i \in DOMAIN toThread : toThread[i].t # "attach"
    BY <1>0 DEF Asked
  <2>2. ASSUME NEW i \in DOMAIN toThread, toThread[i].t = "history"
        PROVE  /\ toThread = <<toThread[i]>> /\ client /\ ~view.replaying /\ view'.events # <<>> /\ view.loadingEarlier
               /\ \A j \in DOMAIN toView' : toView'[j].t = "event"
               /\ ~torn => \A d \in threadLog : ~(toThread[i].before <= d.seq /\ d.seq < Head(view'.events).seq)
    <3>1. /\ toThread = <<toThread[i]>> /\ client /\ ~view.replaying /\ view.events # <<>> /\ view.loadingEarlier
          /\ \A j \in DOMAIN toView : toView[j].t = "event"
          /\ ~torn => \A d \in threadLog : ~(toThread[i].before <= d.seq /\ d.seq < Head(view.events).seq)
      BY <1>0, <2>2 DEF Asked
    <3>2. /\ view'.events # <<>>
          /\ \A d \in threadLog : d.seq < Head(view'.events).seq => d.seq < Head(view.events).seq
      BY <3>1, EventHead
    <3>3. QED
      BY <1>0, <3>1, <3>2
  <2>3. QED
    BY <1>0, <2>1, <2>2 DEF Asked
<1>5. LogIsFine'
  BY <1>0 DEF LogIsFine, Undoes
<1>6. SentIsFine' /\ CopyIsFine'
  BY <1>1, EventSent, EventCopy
<1>7. PageIsFine'
  <2>1. ASSUME NEW i \in DOMAIN toView', toView'[i].t = "history"
        PROVE  LET es == toView'[i].events IN
               /\ toThread' = <<>> /\ ~view'.replaying /\ view'.events # <<>> /\ view'.loadingEarlier
               /\ \A j \in DOMAIN toView' : j # i => toView'[j].t = "event"
               /\ \A j, k \in DOMAIN es : j < k => es[j].seq < es[k].seq
               /\ \A k \in DOMAIN es : es[k].seq <= lastSeqno
               /\ ~torn => \A k \in DOMAIN es : es[k] \in threadLog \/
                             \E r \in threadLog : /\ Undoes(r, es[k]) /\ view'.lastSeq < r.seq
                                                  /\ \A j \in DOMAIN toView' : j < i => toView'[j].event.seq < r.seq
               /\ ~torn /\ es # <<>> =>
                    \A d \in threadLog : Head(es).seq <= d.seq /\ d.seq < Head(view'.events).seq =>
                                         \E k \in DOMAIN es : es[k] = d
    <3>1. PICK es : es = toView'[i].events
      OBVIOUS
    <3>2. /\ toThread' = <<>> /\ ~view'.replaying /\ view'.events # <<>> /\ view'.loadingEarlier
          /\ \A j \in DOMAIN toView' : j # i => toView'[j].t = "event"
          /\ \A j, k \in DOMAIN es : j < k => es[j].seq < es[k].seq
          /\ \A k \in DOMAIN es : es[k].seq <= lastSeqno
          /\ ~torn => \A k \in DOMAIN es : es[k] \in threadLog \/
                        \E r \in threadLog : /\ Undoes(r, es[k]) /\ view'.lastSeq < r.seq
                                             /\ \A j \in DOMAIN toView' : j < i => toView'[j].event.seq < r.seq
          /\ ~torn /\ es # <<>> =>
               \A d \in threadLog : Head(es).seq <= d.seq /\ d.seq < Head(view'.events).seq =>
                                    \E k \in DOMAIN es : es[k] = d
      <4>1. toView'[i].t = "history"
        BY <2>1
      <4>2. QED
        BY <3>1, <4>1, EventPageAt, SMTT(30)
    <3>3. QED
      BY <3>1, <3>2
  <2>2. QED
    BY <1>0, <2>1, Zenon DEF PageIsFine, Undoes
<1>8. QED
  BY <1>2, <1>3, <1>4, <1>5, <1>6, <1>7 DEF ThreadInv

\* After what ends a replay, or a page, only events are on their way.
LEMMA OnlyEventsLeft ==
  ASSUME ThreadInv, ViewReads, NEW m, m = Head(toView), m.t # "event"
  PROVE  /\ \A i \in DOMAIN toView : i # 1 => toView[i].t = "event"
         /\ \A i \in DOMAIN toView' : toView'[i].t = "event"
         /\ \A d : Coming(d) => Coming(d)'
         /\ toThread = <<>>
<1>0. /\ ThreadTypeOK /\ Channels /\ Asked /\ SentIsFine /\ PageIsFine /\ client
      /\ 1 \in DOMAIN toView /\ m = toView[1] /\ toView[1].t \in {"event", "synced", "history"}
      /\ \A i \in DOMAIN toView' : i + 1 \in DOMAIN toView /\ toView'[i] = toView[i + 1] /\ i \in Nat /\ i + 1 # 1
      /\ \A i \in DOMAIN toView : i # 1 => i - 1 \in DOMAIN toView' /\ toView'[i - 1] = toView[i]
  BY ReadParts, SentParts
<1>1. \A i \in DOMAIN toView : i # 1 => toView[i].t = "event"
  BY <1>0 DEF SentIsFine, PageIsFine
<1>2. \A i \in DOMAIN toView' : toView'[i].t = "event"
  BY <1>0, <1>1
<1>3. ASSUME NEW d, Coming(d) PROVE Coming(d)'
  <2>1. PICK i \in DOMAIN toView : toView[i].t = "event" /\ toView[i].event = d
    BY <1>3 DEF Coming
  <2>2. i # 1
    BY <1>0, <2>1
  <2>3. i - 1 \in DOMAIN toView' /\ toView'[i - 1] = toView[i]
    BY <1>0, <2>2
  <2>4. QED
    BY <2>1, <2>3 DEF Coming
<1>4. toThread = <<>>
  <2>1. toThread \in Seq(ClientMsg) /\ \A i \in DOMAIN toThread : toThread[i].t \in {"attach", "history"}
    BY <1>0, AskedParts DEF ThreadTypeOK
  <2>2. CASE m.t = "synced"
    <3>1. view.replaying
      BY <1>0, <2>2 DEF SentIsFine
    <3>2. DOMAIN toThread = {}
      BY <1>0, <2>1, <3>1 DEF Asked
    <3>3. QED
      BY <2>1, <3>2
  <2>3. CASE m.t = "history"
    BY <1>0, <2>3 DEF PageIsFine
  <2>4. QED
    BY <1>0, <2>2, <2>3
<1>5. QED
  BY <1>1, <1>2, <1>3, <1>4

\* What is left of the events on their way, when the copy's last number stays.
LEMMA SentStays ==
  ASSUME ThreadInv, ViewReads, NEW m, m = Head(toView), m.t # "event", view'.lastSeq = view.lastSeq,
         \A d \in threadLog : ~Overlooked(d)
  PROVE  SentIsFine' /\ PageIsFine' /\ Asked' /\ LogIsFine'
<1>0. /\ ThreadTypeOK /\ SentIsFine /\ LogIsFine
      /\ UNCHANGED <<threadLog, lastSeqno, client, toThread, channels, torn>>
      /\ \A i \in DOMAIN toView' : i + 1 \in DOMAIN toView /\ toView'[i] = toView[i + 1] /\ i \in Nat /\ i + 1 # 1
      /\ \A i \in DOMAIN toView' : toView'[i].t = "event"
      /\ \A d : Coming(d) => Coming(d)'
      /\ toThread' = <<>>
  BY ReadParts, OnlyEventsLeft
<1>1. ASSUME NEW i \in DOMAIN toView', NEW x, x = toView'[i].event
      PROVE  /\ view.lastSeq < x.seq /\ x.seq <= lastSeqno
             /\ \A d \in threadLog : ~Undoes(x, d)
             /\ x \in threadLog \/ \E r \in threadLog : Undoes(r, x)
             /\ \A j \in DOMAIN toView' : j < i /\ toView'[j].t = "event" => toView'[j].event.seq < x.seq
  <2>1. PICK n \in DOMAIN toView : n = i + 1 /\ toView[n].t = "event" /\ x = toView[n].event
    BY <1>0, <1>1
  <2>2. /\ view.lastSeq < x.seq /\ x.seq <= lastSeqno
        /\ \A d \in threadLog : ~Undoes(x, d)
        /\ x \in threadLog \/ \E r \in threadLog : Undoes(r, x)
        /\ \A j \in DOMAIN toView : j < n /\ toView[j].t = "event" => toView[j].event.seq < x.seq
    BY <1>0, <2>1 DEF SentIsFine
  <2>3. ASSUME NEW j \in DOMAIN toView', j < i, toView'[j].t = "event" PROVE toView'[j].event.seq < x.seq
    <3>1. j + 1 \in DOMAIN toView /\ toView'[j] = toView[j + 1] /\ j + 1 < n
      BY <1>0, <2>1, <2>3
    <3>2. QED
      BY <2>2, <2>3, <3>1
  <2>4. QED
    BY <2>2, <2>3
<1>2. client => \A d \in threadLog : d.seq > view.lastSeq => Coming(d)'
  BY <1>0 DEF SentIsFine
<1>3. SentIsFine'
  BY <1>0, <1>1, <1>2 DEF SentIsFine, Undoes
<1>4. PageIsFine'
  BY <1>0 DEF PageIsFine
<1>5. Asked'
  BY <1>0 DEF Asked
<1>6. LogIsFine'
  BY <1>0 DEF LogIsFine, Undoes
<1>7. QED
  BY <1>3, <1>4, <1>5, <1>6

LEMMA SyncedReadStep ==
  ASSUME ThreadInv, ViewReads, NEW m, m = Head(toView), m.t = "synced"
  PROVE  ThreadInv'
<1>0. /\ ThreadTypeOK /\ Channels /\ LogIsFine /\ SentIsFine /\ CopyIsFine /\ client /\ view.channel = "open"
      /\ UNCHANGED <<threadLog, lastSeqno, client, toThread, channels, torn>>
      /\ view \in ViewState /\ 1 \in DOMAIN toView /\ m = toView[1] /\ toView' \in Seq(DaemonMsg)
      /\ view.events \in Seq(LoggedEvent) /\ view.replay \in Seq(LoggedEvent)
  BY ReadParts, ThreadParts
<1>1. /\ view.replaying
      /\ ~m.truncated => \A d \in threadLog : ~Skipped(d)
      /\ m.truncated => view.replay # <<>>
      /\ \A j \in DOMAIN toView : j # 1 => toView[j].t = "event"
      /\ m.truncated \in BOOLEAN
  BY <1>0, SentParts DEF SentIsFine
<1>2. PICK gap : gap = (m.truncated /\ view.replayFrom > 0) /\ gap \in BOOLEAN
  OBVIOUS
<1>3. PICK a, b, c : a = view.events /\ b = view.replay /\ c = Shown
  OBVIOUS
<1>4. a \in Seq(LoggedEvent) /\ b \in Seq(LoggedEvent) /\ c = a \o b
  BY <1>0, <1>3 DEF Shown
<1>5. PICK t : t = IF gap THEN b ELSE c
  OBVIOUS
<1>6. /\ c \in Seq(LoggedEvent) /\ Len(a) \in Nat
      /\ \A i \in DOMAIN c : i \in Nat
      /\ \A i \in DOMAIN a : i \in DOMAIN c /\ c[i] = a[i] /\ i \in Nat /\ i <= Len(a)
      /\ \A i \in DOMAIN b : Len(a) + i \in DOMAIN c /\ c[Len(a) + i] = b[i] /\ i \in Nat /\ i > 0
      /\ \A i \in DOMAIN c : \/ i \in DOMAIN a
                             \/ i \notin DOMAIN a /\ i > Len(a) /\ i - Len(a) \in DOMAIN b
  BY <1>4, JoinedIs
<1>7. t \in Seq(LoggedEvent)
  BY <1>4, <1>5, <1>6
<1>8. PICK tr \in BOOLEAN : tr = (gap \/ view.truncated \/ m.truncated)
  OBVIOUS
<1>9. view' = [view EXCEPT !.replaying = FALSE, !.replay = <<>>, !.synced = TRUE, !.events = t, !.truncated = tr]
  <2>1. view' = OnSynced(view, m.truncated)
    BY DEF ViewReads
  <2>2. view' = [view EXCEPT !.replaying = FALSE, !.replay = <<>>, !.synced = TRUE,
                             !.events = IF gap THEN b ELSE a \o b, !.truncated = gap \/ view.truncated \/ m.truncated]
    BY <1>0, <1>2, <1>3, <2>1 DEF OnSynced, ViewState
  <2>3. QED
    BY <1>4, <1>5, <1>8, <2>2
<1>10. view' \in ViewState
  <2>1. view.lastSeq \in 0 .. MaxEvents /\ view.replayFrom \in 0 .. MaxEvents /\ <<>> \in Seq(LoggedEvent)
    BY <1>0, EmptySeq DEF ViewState
  <2>2. QED
    BY <1>0, <1>7, <1>8, <1>9, <2>1 DEF ViewState
<1>11. /\ view'.channel = "open" /\ view'.replaying = FALSE /\ view'.replay = <<>> /\ view'.events = t
       /\ view'.lastSeq = view.lastSeq /\ view'.synced = TRUE /\ view'.replayFrom = view.replayFrom
  BY <1>0, <1>9 DEF ViewState
<1>12. Shown' = t
  <2>1. Shown' = t \o <<>>
    BY <1>11 DEF Shown
  <2>2. QED
    BY <1>7, <2>1, ConcatEmptySeq
<1>13. ThreadTypeOK'
  BY <1>0, <1>10 DEF ThreadTypeOK
<1>14. Channels'
  BY <1>0, <1>11 DEF Channels
<1>15. \A d \in threadLog : ~Overlooked(d)
  <2>1. m.truncated \/ ~Ends(TRUE)
    <3>1. ASSUME Ends(TRUE) PROVE m.truncated
      <4>1. PICK i \in DOMAIN toView : toView[i].t = "synced" /\ toView[i].truncated = TRUE
        BY <3>1 DEF Ends
      <4>2. i = 1
        BY <1>1, <4>1
      <4>3. QED
        BY <1>0, <4>1, <4>2
    <3>2. QED
      BY <3>1
  <2>2. QED
    BY <1>1, <2>1 DEF Overlooked
<1>16. SentIsFine' /\ PageIsFine' /\ Asked' /\ LogIsFine'
  BY <1>11, <1>15, SentStays
<1>17. \A d : ~Skipped(d)'
  BY <1>11 DEF Skipped
<1>18. \A i \in DOMAIN c : c[i] \in LoggedEvent /\ c[i].seq \in Nat
  BY <1>0, <1>3, ShownParts
<1>19. /\ \A i, j \in DOMAIN c : i < j => c[i].seq < c[j].seq
       /\ \A i \in DOMAIN c : c[i].seq <= view.lastSeq
       /\ ~torn => \A i \in DOMAIN c : c[i] \in threadLog \/
            \E r \in threadLog : Undoes(r, c[i]) /\ (view.lastSeq < r.seq \/ Skipped(r))
       /\ ~torn /\ c # <<>> =>
            \A d \in threadLog : Head(c).seq <= d.seq /\ d.seq <= view.lastSeq =>
              (\E i \in DOMAIN c : c[i] = d) \/ Skipped(d)
  BY <1>0, <1>3 DEF CopyIsFine
<1>20. /\ \A i, j \in DOMAIN t : i < j => t[i].seq < t[j].seq
       /\ \A i \in DOMAIN t : t[i].seq <= view.lastSeq
       /\ ~torn => \A i \in DOMAIN t : t[i] \in threadLog \/
            \E r \in threadLog : Undoes(r, t[i]) /\ view.lastSeq < r.seq
       /\ ~torn /\ t # <<>> =>
            \A d \in threadLog : Head(t).seq <= d.seq /\ d.seq <= view.lastSeq => \E i \in DOMAIN t : t[i] = d
  <2>1. CASE ~gap
    <3>1. \A d \in threadLog : ~Skipped(d)
      BY <1>1, <1>2, <2>1 DEF Skipped
    <3>2. QED
      BY <1>5, <1>19, <2>1, <3>1
  <2>2. CASE gap
    <3>1. t = b /\ b # <<>> /\ 1 \in DOMAIN b /\ Head(b) = b[1] /\ b[1] \in LoggedEvent
      BY <1>1, <1>2, <1>3, <1>4, <1>5, <2>2
    <3>2. \A i \in DOMAIN b : Len(a) + i \in DOMAIN c /\ c[Len(a) + i] = b[i] /\ b[i].seq \in Nat /\ b[i].seq <= view.lastSeq
      BY <1>6, <1>18, <1>19
    <3>3. ASSUME NEW i \in DOMAIN b, NEW j \in DOMAIN b, i < j PROVE b[i].seq < b[j].seq
      <4>1. Len(a) + i < Len(a) + j
        BY <1>6, <3>3
      <4>2. QED
        BY <1>19, <3>2, <4>1
    <3>4. \A i \in DOMAIN b : b[1].seq <= b[i].seq
      <4>1. ASSUME NEW i \in DOMAIN b PROVE b[1].seq <= b[i].seq
        <5>1. i = 1 \/ 1 < i
          BY <1>6
        <5>2. QED
          BY <3>1, <3>2, <3>3, <5>1
      <4>2. QED
        BY <4>1
    <3>5. \A d : Skipped(d) => d.seq < b[1].seq
      BY <1>3, <3>1 DEF Skipped
    <3>6. \A d \in threadLog : d.seq \in Nat
      BY <1>0, ThreadParts
    <3>7. ASSUME ~torn, NEW i \in DOMAIN b, b[i] \notin threadLog
          PROVE  \E r \in threadLog : Undoes(r, b[i]) /\ view.lastSeq < r.seq
      <4>1. PICK r \in threadLog : Undoes(r, b[i]) /\ (view.lastSeq < r.seq \/ Skipped(r))
        <5>1. PICK k \in DOMAIN c : c[k] = b[i]
          BY <3>2
        <5>2. QED
          BY <1>19, <3>7, <5>1
      <4>2. ~(r.seq < b[1].seq)
        BY <3>1, <3>2, <3>4, <3>6, <4>1 DEF Undoes
      <4>3. QED
        BY <3>5, <4>1, <4>2
    <3>8. ASSUME ~torn, NEW d \in threadLog, b[1].seq <= d.seq, d.seq <= view.lastSeq
          PROVE  \E i \in DOMAIN b : b[i] = d
      <4>1. ~Skipped(d)
        BY <3>1, <3>2, <3>5, <3>6, <3>8
      <4>2. PICK n \in DOMAIN c : n = Len(a) + 1 /\ c[n] = b[1]
        BY <3>1, <3>2
      <4>3. c # <<>> /\ Head(c) = c[1] /\ 1 \in DOMAIN c /\ c[1].seq <= b[1].seq
        <5>1. c # <<>> /\ Head(c) = c[1] /\ 1 \in DOMAIN c
          <6>1. DOMAIN (<<>>) = {}
            OBVIOUS
          <6>2. c # <<>>
            BY <4>2, <6>1
          <6>3. QED
            BY <1>6, <6>2
        <5>2. n = 1 \/ 1 < n
          BY <1>6, <4>2
        <5>3. QED
          BY <1>18, <1>19, <4>2, <5>1, <5>2
      <4>4. Head(c).seq <= d.seq
        BY <1>18, <3>1, <3>2, <3>6, <3>8, <4>3
      <4>5. PICK k \in DOMAIN c : c[k] = d
        BY <1>19, <3>8, <4>1, <4>3, <4>4
      <4>6. ~(k < n)
        BY <1>18, <1>19, <3>1, <3>2, <3>6, <3>8, <4>2, <4>5
      <4>7. k \notin DOMAIN a
        BY <1>6, <4>2, <4>6
      <4>8. k - Len(a) \in DOMAIN b /\ Len(a) + (k - Len(a)) = k
        BY <1>6, <4>7
      <4>9. b[k - Len(a)] = d
        BY <3>2, <4>5, <4>8
      <4>10. QED
        BY <4>8, <4>9
    <3>9. QED
      BY <3>1, <3>2, <3>3, <3>7, <3>8
  <2>3. QED
    BY <1>2, <2>1, <2>2
<1>21. /\ \A i, j \in DOMAIN Shown' : i < j => Shown'[i].seq < Shown'[j].seq
       /\ \A i \in DOMAIN Shown' : Shown'[i].seq <= view'.lastSeq
       /\ ~torn' => \A i \in DOMAIN Shown' : Shown'[i] \in threadLog' \/
            \E r \in threadLog' : Undoes(r, Shown'[i]) /\ (view'.lastSeq < r.seq \/ Skipped(r)')
       /\ ~torn' /\ Shown' # <<>> =>
            \A d \in threadLog' : Head(Shown').seq <= d.seq /\ d.seq <= view'.lastSeq =>
              (\E i \in DOMAIN Shown' : Shown'[i] = d) \/ Skipped(d)'
  BY <1>0, <1>11, <1>12, <1>20
<1>22. CopyIsFine'
  BY <1>21, Zenon DEF CopyIsFine, Undoes
<1>23. QED
  BY <1>13, <1>14, <1>16, <1>22 DEF ThreadInv

LEMMA HistoryReadStep ==
  ASSUME ThreadInv, ViewReads, NEW m, m = Head(toView), m.t = "history"
  PROVE  ThreadInv'
<1>0. /\ ThreadTypeOK /\ Channels /\ LogIsFine /\ PageIsFine /\ CopyIsFine /\ client /\ view.channel = "open"
      /\ UNCHANGED <<threadLog, lastSeqno, client, toThread, channels, torn>>
      /\ view \in ViewState /\ 1 \in DOMAIN toView /\ m = toView[1] /\ toView' \in Seq(DaemonMsg)
      /\ view.events \in Seq(LoggedEvent)
      /\ \A x \in LoggedEvent : x.seq \in Nat /\ x.from \in Nat
      /\ \A d \in threadLog : d.seq \in Nat
  BY ReadParts, ThreadParts
<1>1. PICK es, a : es = m.events /\ a = view.events
  OBVIOUS
<1>2. /\ es \in Seq(LoggedEvent) /\ a \in Seq(LoggedEvent) /\ m.more \in BOOLEAN
      /\ ~view.replaying /\ a # <<>>
      /\ \A j, k \in DOMAIN es : j < k => es[j].seq < es[k].seq
      /\ ~torn => \A k \in DOMAIN es : es[k] \in threadLog \/
                    \E r \in threadLog : Undoes(r, es[k]) /\ view.lastSeq < r.seq
      /\ ~torn /\ es # <<>> =>
           \A d \in threadLog : Head(es).seq <= d.seq /\ d.seq < Head(a).seq => \E k \in DOMAIN es : es[k] = d
  <2>1. m.t = "history" /\ es \in Seq(LoggedEvent) /\ a \in Seq(LoggedEvent) /\ m.more \in BOOLEAN
    BY <1>0, <1>1, SentParts
  <2>2. /\ ~view.replaying /\ a # <<>>
        /\ \A j, k \in DOMAIN es : j < k => es[j].seq < es[k].seq
    BY <1>0, <1>1, <2>1 DEF PageIsFine
  <2>3. ~torn => \A k \in DOMAIN es : es[k] \in threadLog \/
                    \E r \in threadLog : Undoes(r, es[k]) /\ view.lastSeq < r.seq
    BY <1>0, <1>1, <2>1 DEF PageIsFine
  <2>4. ~torn /\ es # <<>> =>
           \A d \in threadLog : Head(es).seq <= d.seq /\ d.seq < Head(a).seq => \E k \in DOMAIN es : es[k] = d
    BY <1>0, <1>1, <2>1 DEF PageIsFine
  <2>5. QED
    BY <2>1, <2>2, <2>3, <2>4
<1>3. view.replay = <<>> /\ Shown = a
  BY <1>0, <1>1, <1>2, ShownParts DEF Channels
<1>4. PICK keep : keep = {i \in DOMAIN es : a = <<>> \/ es[i].seq < Head(a).seq}
  OBVIOUS
<1>5. PICK b : b = Where(es, keep)
  OBVIOUS
<1>6. /\ b \in Seq(LoggedEvent)
      /\ \A k \in DOMAIN b : \E i \in keep : b[k] = es[i]
      /\ \A k, l \in DOMAIN b : k < l => \E i, j \in keep : i < j /\ b[k] = es[i] /\ b[l] = es[j]
      /\ \A i \in keep : \E k \in DOMAIN b : b[k] = es[i]
  <2>1. keep \in SUBSET (DOMAIN es) /\ es \in Seq(LoggedEvent)
    BY <1>2, <1>4
  <2>2. b \in Seq(LoggedEvent) /\ IsPlacesOf(b, keep, es)
    BY <1>5, <2>1, WhereIs
  <2>3. QED
    BY <2>2 DEF IsPlacesOf
<1>7. \A i \in DOMAIN es : i \in keep <=> es[i].seq < Head(a).seq
  BY <1>2, <1>4
<1>8. keep \subseteq DOMAIN es
  BY <1>4
<1>9. PICK t : t = b \o a
  OBVIOUS
<1>10. /\ t \in Seq(LoggedEvent) /\ Len(b) \in Nat
       /\ \A i \in DOMAIN t : i \in Nat
       /\ \A i \in DOMAIN b : i \in DOMAIN t /\ t[i] = b[i] /\ i \in Nat /\ i <= Len(b)
       /\ \A i \in DOMAIN a : Len(b) + i \in DOMAIN t /\ t[Len(b) + i] = a[i] /\ i \in Nat /\ i > 0
       /\ \A i \in DOMAIN t : \/ i \in DOMAIN b
                              \/ i \notin DOMAIN b /\ i > Len(b) /\ i - Len(b) \in DOMAIN a
       /\ (b = <<>> => t = a)
       /\ b # <<>> => t # <<>> /\ Head(t) = Head(b) /\ 1 \in DOMAIN b /\ Head(b) = b[1]
  <2>1. a \in Seq(LoggedEvent) /\ b \in Seq(LoggedEvent) /\ t = b \o a
    BY <1>2, <1>6, <1>9
  <2>2. t \in Seq(LoggedEvent) /\ Len(b) \in Nat /\ Len(a) \in Nat /\ Len(t) = Len(b) + Len(a)
        /\ DOMAIN b = 1 .. Len(b) /\ DOMAIN a = 1 .. Len(a) /\ DOMAIN t = 1 .. Len(t)
    BY <2>1
  <2>3. \A i \in DOMAIN b : t[i] = b[i]
    BY <2>1
  <2>4. \A i \in DOMAIN a : t[Len(b) + i] = a[i]
    BY <2>1
  <2>5. b = <<>> => t = a
    BY <2>1
  <2>6. b # <<>> => t # <<>> /\ Head(t) = t[1] /\ 1 \in DOMAIN b /\ Head(b) = b[1]
    BY <2>1
  <2>7. QED
    BY <2>2, <2>3, <2>4, <2>5, <2>6
<1>11. view' = [view EXCEPT !.events = t, !.truncated = m.more, !.loadingEarlier = FALSE]
  <2>1. view' = OnHistory(view, m)
    BY DEF ViewReads
  <2>2. view' = [view EXCEPT !.events = b \o @, !.truncated = m.more, !.loadingEarlier = FALSE]
    BY <1>1, <1>4, <1>5, <2>1 DEF OnHistory
  <2>3. QED
    BY <1>0, <1>1, <1>9, <2>2 DEF ViewState
<1>12. view' \in ViewState
  BY <1>0, <1>2, <1>10, <1>11 DEF ViewState
<1>13. /\ view'.channel = view.channel /\ view'.replaying = view.replaying /\ view'.replay = <<>> /\ view'.events = t
       /\ view'.lastSeq = view.lastSeq /\ view'.synced = view.synced /\ view'.replayFrom = view.replayFrom
  BY <1>0, <1>3, <1>11 DEF ViewState
<1>14. Shown' = t
  <2>1. Shown' = t \o <<>>
    BY <1>13 DEF Shown
  <2>2. QED
    BY <1>10, <2>1, ConcatEmptySeq
<1>15. ThreadTypeOK'
  BY <1>0, <1>12 DEF ThreadTypeOK
<1>16. Channels'
  BY <1>0, <1>2, <1>3, <1>13 DEF Channels
<1>17. SentIsFine' /\ PageIsFine' /\ Asked' /\ LogIsFine'
  <2>1. \A d \in threadLog : ~Overlooked(d)
    BY <1>2 DEF Overlooked
  <2>2. QED
    BY <1>13, <2>1, SentStays
<1>18. \A d : ~Skipped(d) /\ ~Skipped(d)'
  BY <1>3, <1>13 DEF Skipped
<1>19. /\ \A i, j \in DOMAIN a : i < j => a[i].seq < a[j].seq
       /\ \A i \in DOMAIN a : a[i].seq <= view.lastSeq
       /\ ~torn => \A i \in DOMAIN a : a[i] \in threadLog \/ \E r \in threadLog : Undoes(r, a[i]) /\ view.lastSeq < r.seq
       /\ ~torn => \A d \in threadLog : Head(a).seq <= d.seq /\ d.seq <= view.lastSeq => \E i \in DOMAIN a : a[i] = d
  BY <1>0, <1>2, <1>3, <1>18 DEF CopyIsFine
<1>20. 1 \in DOMAIN a /\ Head(a) = a[1] /\ a[1] \in LoggedEvent /\ \A i \in DOMAIN a : a[i].seq \in Nat /\ a[1].seq <= a[i].seq
  <2>1. 1 \in DOMAIN a /\ Head(a) = a[1] /\ \A i \in DOMAIN a : a[i] \in LoggedEvent /\ (i = 1 \/ 1 < i)
    BY <1>2
  <2>2. ASSUME NEW i \in DOMAIN a PROVE a[i].seq \in Nat /\ a[1].seq <= a[i].seq
    <3>1. a[i].seq \in Nat /\ a[1].seq \in Nat
      BY <1>0, <2>1
    <3>2. QED
      BY <1>19, <2>1, <3>1
  <2>3. QED
    BY <2>1, <2>2
<1>21. \A i \in DOMAIN es : es[i] \in LoggedEvent /\ es[i].seq \in Nat
  BY <1>0, <1>2
<1>22. \A k \in DOMAIN b : b[k].seq \in Nat /\ b[k].seq < a[1].seq
  BY <1>6, <1>7, <1>8, <1>20, <1>21
<1>23. ASSUME NEW i \in DOMAIN t, NEW j \in DOMAIN t, i < j PROVE t[i].seq < t[j].seq
  <2>1. i \in Nat /\ j \in Nat
    BY <1>10
  <2>2. CASE i \in DOMAIN b /\ j \in DOMAIN b
    <3>1. PICK k, l \in keep : k < l /\ b[i] = es[k] /\ b[j] = es[l]
      BY <1>6, <1>23, <2>2
    <3>2. es[k].seq < es[l].seq
      BY <1>2, <1>8, <3>1
    <3>3. QED
      BY <1>10, <2>2, <3>1, <3>2
  <2>3. CASE i \in DOMAIN b /\ j \notin DOMAIN b
    <3>1. j - Len(b) \in DOMAIN a /\ Len(b) + (j - Len(b)) = j
      BY <1>10, <2>1, <2>3
    <3>2. PICK l \in DOMAIN a : t[j] = a[l]
      BY <1>10, <3>1
    <3>3. t[i] = b[i] /\ b[i].seq \in Nat /\ b[i].seq < a[1].seq
      BY <1>10, <1>22, <2>3
    <3>4. a[1].seq \in Nat /\ a[l].seq \in Nat /\ a[1].seq <= a[l].seq
      BY <1>20
    <3>5. QED
      BY <3>2, <3>3, <3>4
  <2>4. CASE i \notin DOMAIN b /\ j \notin DOMAIN b
    <3>1. /\ j - Len(b) \in DOMAIN a /\ Len(b) + (j - Len(b)) = j
          /\ i - Len(b) \in DOMAIN a /\ Len(b) + (i - Len(b)) = i /\ i - Len(b) < j - Len(b)
      BY <1>10, <1>23, <2>1, <2>4
    <3>2. PICK k, l \in DOMAIN a : k < l /\ t[i] = a[k] /\ t[j] = a[l]
      BY <1>10, <3>1
    <3>3. QED
      BY <1>19, <3>2
  <2>5. CASE i \notin DOMAIN b /\ j \in DOMAIN b
    BY <1>10, <1>23, <2>1, <2>5
  <2>6. QED
    BY <2>2, <2>3, <2>4, <2>5
<1>24. \A k \in DOMAIN t : (\E i \in keep : t[k] = es[i] /\ t[k].seq < a[1].seq) \/ (\E i \in DOMAIN a : t[k] = a[i])
  <2>1. ASSUME NEW k \in DOMAIN t
        PROVE  (\E i \in keep : t[k] = es[i] /\ t[k].seq < a[1].seq) \/ (\E i \in DOMAIN a : t[k] = a[i])
    <3>1. CASE k \in DOMAIN b
      <4>1. t[k] = b[k]
        BY <1>10, <3>1
      <4>2. PICK i \in keep : b[k] = es[i]
        BY <1>6, <3>1
      <4>3. b[k].seq < a[1].seq
        BY <1>22, <3>1
      <4>4. QED
        BY <4>1, <4>2, <4>3
    <3>2. CASE k \notin DOMAIN b
      <4>1. k - Len(b) \in DOMAIN a /\ Len(b) + (k - Len(b)) = k
        BY <1>10, <3>2
      <4>2. QED
        BY <1>10, <4>1
    <3>3. QED
      BY <3>1, <3>2
  <2>2. QED
    BY <2>1
<1>25. \A k \in DOMAIN t : t[k].seq <= view.lastSeq
  <2>1. ASSUME NEW k \in DOMAIN t PROVE t[k].seq <= view.lastSeq
    <3>1. t[k] \in LoggedEvent /\ t[k].seq \in Nat /\ view.lastSeq \in Nat /\ a[1].seq <= view.lastSeq
      BY <1>0, <1>10, <1>19, <1>20, ThreadParts
    <3>2. t[k].seq < a[1].seq \/ \E i \in DOMAIN a : t[k] = a[i]
      BY <1>24
    <3>3. QED
      BY <1>19, <1>20, <3>1, <3>2
  <2>2. QED
    BY <2>1
<1>26. ASSUME ~torn, NEW k \in DOMAIN t, t[k] \notin threadLog
       PROVE  \E r \in threadLog : Undoes(r, t[k]) /\ view.lastSeq < r.seq
  <2>1. CASE \E i \in keep : t[k] = es[i]
    BY <1>2, <1>8, <1>26, <2>1
  <2>2. CASE \E i \in DOMAIN a : t[k] = a[i]
    BY <1>19, <1>26, <2>2
  <2>3. QED
    BY <1>24, <2>1, <2>2
<1>27. ASSUME ~torn, NEW d \in threadLog, Head(t).seq <= d.seq, d.seq <= view.lastSeq
       PROVE  \E k \in DOMAIN t : t[k] = d
  <2>1. d.seq \in Nat
    BY <1>0
  <2>2. CASE Head(a).seq <= d.seq
    <3>1. PICK i \in DOMAIN a : a[i] = d
      BY <1>19, <1>27, <2>2
    <3>2. QED
      BY <1>10, <3>1
  <2>3. CASE d.seq < Head(a).seq
    <3>1. b # <<>>
      BY <1>10, <1>20, <1>27, <2>1, <2>3
    <3>2. Head(t) = b[1] /\ 1 \in DOMAIN b
      BY <1>10, <3>1
    <3>3. PICK i \in keep : b[1] = es[i]
      BY <1>6, <3>2
    <3>4. es # <<>> /\ 1 \in DOMAIN es /\ Head(es) = es[1] /\ es[1].seq <= es[i].seq
      <4>1. es # <<>> /\ 1 \in DOMAIN es /\ Head(es) = es[1] /\ (i = 1 \/ 1 < i) /\ i \in DOMAIN es
        <5>1. i \in DOMAIN es
          BY <1>8
        <5>2. PICK n \in Nat : n = Len(es) /\ DOMAIN es = 1 .. n
          BY <1>2
        <5>3. n > 0 /\ (i = 1 \/ 1 < i)
          BY <5>1, <5>2
        <5>4. QED
          BY <1>2, <5>1, <5>2, <5>3
      <4>2. QED
        BY <1>2, <1>21, <4>1
    <3>5. Head(es).seq <= d.seq
      BY <1>8, <1>21, <1>27, <2>1, <3>2, <3>3, <3>4
    <3>6. PICK k \in DOMAIN es : es[k] = d
      BY <1>2, <1>27, <2>3, <3>4, <3>5
    <3>7. k \in keep
      BY <1>7, <2>3, <3>6
    <3>8. PICK l \in DOMAIN b : b[l] = d
      BY <1>6, <3>6, <3>7
    <3>9. QED
      BY <1>10, <3>8
  <2>4. QED
    BY <1>20, <2>1, <2>2, <2>3
<1>28. /\ \A i, j \in DOMAIN Shown' : i < j => Shown'[i].seq < Shown'[j].seq
       /\ \A i \in DOMAIN Shown' : Shown'[i].seq <= view'.lastSeq
       /\ ~torn' => \A i \in DOMAIN Shown' : Shown'[i] \in threadLog' \/
            \E r \in threadLog' : Undoes(r, Shown'[i]) /\ (view'.lastSeq < r.seq \/ Skipped(r)')
       /\ ~torn' /\ Shown' # <<>> =>
            \A d \in threadLog' : Head(Shown').seq <= d.seq /\ d.seq <= view'.lastSeq =>
              (\E i \in DOMAIN Shown' : Shown'[i] = d) \/ Skipped(d)'
  BY <1>0, <1>13, <1>14, <1>23, <1>25, <1>26, <1>27
<1>29. CopyIsFine'
  BY <1>28, Zenon DEF CopyIsFine, Undoes
<1>30. QED
  BY <1>15, <1>16, <1>17, <1>29 DEF ThreadInv

LEMMA ViewReadsStep == ASSUME ThreadInv, ViewReads PROVE ThreadInv'
<1>1. PICK m : m = Head(toView)
  OBVIOUS
<1>2. m.t \in {"event", "synced", "history"}
  BY <1>1, ReadParts, SentParts
<1>3. QED
  BY <1>1, <1>2, EventReadStep, SyncedReadStep, HistoryReadStep

LEMMA ThreadStarts == ThreadInit => ThreadInv
<1> SUFFICES ASSUME ThreadInit PROVE ThreadInv
  OBVIOUS
<1>1. /\ view.channel = "none" /\ view.events = <<>> /\ view.lastSeq = 0 /\ ~view.replaying /\ view.replay = <<>>
      /\ ~view.synced /\ threadLog = {} /\ lastSeqno = 0 /\ ~client /\ toThread = <<>> /\ toView = <<>>
  BY DEF ThreadInit
<1>2. ThreadTypeOK
  <2>1. <<>> \in Seq(LoggedEvent) /\ <<>> \in Seq(ClientMsg) /\ <<>> \in Seq(DaemonMsg) /\ 0 \in 0 .. MaxEvents
        /\ 0 \in 0 .. MaxChannels
    BY PageAssumption, EmptySeq
  <2>2. view \in ViewState
    BY <2>1 DEF ThreadInit, ViewState
  <2>3. QED
    BY <2>1, <2>2 DEF ThreadInit, ThreadTypeOK
<1>3. Shown = <<>>
  BY <1>1, <1>2, ShownParts
<1>4. Channels /\ Asked /\ LogIsFine /\ SentIsFine /\ PageIsFine
  BY <1>1 DEF Channels, Asked, LogIsFine, SentIsFine, PageIsFine
<1>5. CopyIsFine
  BY <1>1, <1>3 DEF CopyIsFine
<1>6. QED
  BY <1>2, <1>4, <1>5 DEF ThreadInv

LEMMA ThreadStep == ThreadInv /\ [ThreadNext]_threadVars => ThreadInv'
<1> SUFFICES ASSUME ThreadInv, [ThreadNext]_threadVars PROVE ThreadInv'
  OBVIOUS
<1>1. CASE Emit
  BY <1>1, EmitStep
<1>2. ASSUME NEW p \in threadLog, RewindTo(p) PROVE ThreadInv'
  BY <1>2, RewindStep
<1>3. CASE ServeThread
  BY <1>3, ServeThreadStep
<1>4. CASE DisconnectThread
  BY <1>4, DisconnectThreadStep
<1>5. CASE ConnectThread
  BY <1>5, ConnectThreadStep
<1>6. CASE ThreadOpens
  BY <1>6, ThreadOpensStep
<1>7. CASE ThreadCloses
  BY <1>7, ThreadClosesStep
<1>8. CASE ViewReads
  BY <1>8, ViewReadsStep
<1>9. CASE LoadEarlier
  BY <1>9, LoadEarlierStep
<1>10. CASE UNCHANGED threadVars
  <2>1. UNCHANGED <<threadLog, lastSeqno, client, toThread, toView, view, channels, torn>>
    BY <1>10 DEF threadVars
  <2>2. Shown' = Shown /\ \A d : (Skipped(d)' <=> Skipped(d)) /\ (Coming(d)' <=> Coming(d)) /\ (Overlooked(d)' <=> Overlooked(d))
    BY <2>1 DEF Shown, Skipped, Coming, Overlooked, Ends
  <2>3. ThreadTypeOK' /\ Channels' /\ Asked' /\ LogIsFine'
    BY <2>1 DEF ThreadInv, ThreadTypeOK, Channels, Asked, LogIsFine, Undoes
  <2>4. SentIsFine'
    BY <2>1, <2>2 DEF ThreadInv, SentIsFine, Undoes
  <2>5. PageIsFine'
    BY <2>1 DEF ThreadInv, PageIsFine, Undoes
  <2>6. CopyIsFine'
    BY <2>1, <2>2 DEF ThreadInv, CopyIsFine, Undoes
  <2>7. QED
    BY <2>3, <2>4, <2>5, <2>6 DEF ThreadInv
<1>11. QED
  BY <1>1, <1>2, <1>3, <1>4, <1>5, <1>6, <1>7, <1>8, <1>9, <1>10 DEF ThreadNext

\* A tab's copy, what is on its way to it and what it has asked for agree with the
\* daemon's log in every state: whatever the log has rolled back since is undone by an
\* event still to come, and nothing is missing that no gap accounts for.
THEOREM ThreadInvariant == ThreadSpec => []ThreadInv
<1>1. ThreadInit => ThreadInv
  BY ThreadStarts
<1>2. ThreadInv /\ [ThreadNext]_threadVars => ThreadInv'
  BY ThreadStep
<1>3. QED
  BY <1>1, <1>2, PTL DEF ThreadSpec

LEMMA CopyMatches == ThreadInv => ViewIsTheLog
<1> SUFFICES ASSUME ThreadInv PROVE ViewIsTheLog
  OBVIOUS
<1>1. ThreadTypeOK /\ Channels /\ SentIsFine /\ CopyIsFine
  BY DEF ThreadInv
<1>2. Shown = view.events \o view.replay
  BY DEF Shown
<1>3. \A d \in threadLog : Skipped(d) => Gap(view)
  BY DEF Skipped, Gap
<1>4. (Shown # <<>> /\ ~torn /\ ~Gap(view)) =>
        \A e \in threadLog : (Head(Shown).seq <= e.seq /\ e.seq <= view.lastSeq) => \E i \in DOMAIN Shown : Shown[i] = e
  BY <1>1, <1>3 DEF CopyIsFine
<1>5. (view.synced /\ client /\ toView = <<>> /\ ~torn) => \A i \in DOMAIN Shown : Shown[i] \in threadLog
  <2>1. SUFFICES ASSUME view.synced, client, toView = <<>>, ~torn, NEW i \in DOMAIN Shown, Shown[i] \notin threadLog
                 PROVE  FALSE
    OBVIOUS
  <2>2. ~view.replaying
    BY <1>1, <2>1 DEF Channels
  <2>3. PICK r \in threadLog : view.lastSeq < r.seq
    BY <1>1, <2>1, <2>2 DEF CopyIsFine, Skipped
  <2>4. Coming(r) \/ Overlooked(r)
    BY <1>1, <2>1, <2>3, ThreadParts DEF SentIsFine
  <2>5. QED
    BY <2>1, <2>2, <2>4 DEF Coming, Overlooked
<1>6. \A i, j \in DOMAIN Shown : (i < j => Shown[i].seq < Shown[j].seq)
  BY <1>1 DEF CopyIsFine
<1>7. QED
  BY <1>2, <1>4, <1>5, <1>6, Zenon DEF ViewIsTheLog

\* What a tab shows of a thread is the log, in order, from its first event on, and
\* without what was rolled back once everything sent has been read: over reconnects in
\* mid-replay, pages of history and rewinds, whatever the page sizes and the log.
THEOREM ThreadViewIsTheLog == ThreadSpec => []ViewIsTheLog
<1>1. ThreadSpec => []ThreadInv
  BY ThreadInvariant
<1>2. ThreadInv => ViewIsTheLog
  BY CopyMatches
<1>3. QED
  BY <1>1, <1>2, PTL
=============================================================================
