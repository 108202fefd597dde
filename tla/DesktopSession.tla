---------------------------- MODULE DesktopSession ----------------------------
(* Who sees a device's desktop: views of it in web tabs (apps/web's            *)
(* desktop-view.tsx, lib/desktop/connection.ts, lib/rtc-session.ts), the rtc    *)
(* sessions they open over their connections to the daemon (plugin/sessions.go, *)
(* plugins/desktop), and the one desktop session that the daemon runs           *)
(* (desktop/manager.go). An attempt of a view, its rtc session and its desktop  *)
(* session have one number. Media and input have a connection of their own,     *)
(* which may fail at any time; the retry that follows is one more attempt.      *)
EXTENDS Integers, FiniteSets, Sequences, SequencesExt

CONSTANTS
  Viewer,   \* views of the desktop, each in a tab of its own
  MaxTry,   \* bound on attempts of all views
  MaxLink   \* bound on connections to the daemon of each tab

ASSUME DesktopAssumption == Viewer # {} /\ MaxTry \in Nat /\ MaxLink \in Nat \ {0}

VARIABLES
  attempt,  \* by number, an attempt: one run of the view's effect
  attempts, \* attempts so far
  shows,    \* by view, the attempt it shows or waits for, 0 for none
  link,     \* by view, the number of its connection to the daemon
  gone,     \* connections that are lost and whose end the daemon has yet to notice
  requests, \* by view, what is on its way on its connection
  opener,   \* by attempt, how far its rtc.open has come
  rtc,      \* the registry's sessions
  stored,   \* the plugin's sessions
  toClose,  \* sessions that PeerClosed has collected
  closing,  \* by attempt, who has closed its rtc session and has yet to stop its desktop
  current,     \* Manager.sess, 0 for none
  desk,     \* by attempt, its desktop session: none, running, or how it ended
  unlisting \* desktop sessions that ended by themselves and still do sessionEnded

desktopVars == <<attempt, attempts, shows, link, gone, requests, opener, rtc, stored, toClose,
                 closing, current, desk, unlisting>>
viewVars == <<attempt, attempts, shows>>
wires == <<link, gone, requests>>
registry == <<rtc, stored, toClose, closing>>
manager == <<current, desk, unlisting>>

Try == 1 .. MaxTry
AttemptState == [by : Viewer, link : 0 .. MaxLink,
                 st : {"none", "asked", "cancelled", "shown", "closed", "failed"}]
DesktopRequest == [t : {"open", "close"}, a : Try]

DesktopInit ==
  /\ attempt = [a \in Try |-> [by |-> CHOOSE v \in Viewer : TRUE, link |-> 0, st |-> "none"]]
  /\ attempts = 0 /\ shows = [v \in Viewer |-> 0]
  /\ link = [v \in Viewer |-> 1] /\ gone = {} /\ requests = [v \in Viewer |-> <<>>]
  /\ opener = [a \in Try |-> "none"]
  /\ rtc = {} /\ stored = {} /\ toClose = {} /\ closing = [a \in Try |-> "no"]
  /\ current = 0 /\ desk = [a \in Try |-> "none"] /\ unlisting = {}

-----------------------------------------------------------------------------
(* The view. *)

\* The effect's cleanup: what is shown is closed, what is awaited will be.
CleanedUp(v) ==
  LET a == shows[v] IN
  IF a = 0 THEN attempt
  ELSE [attempt EXCEPT ![a].st = CASE @ = "asked" -> "cancelled" [] @ = "shown" -> "closed" [] OTHER -> @]

Goodbye(v) == IF shows[v] # 0 /\ attempt[shows[v]].st = "shown" THEN <<[t |-> "close", a |-> shows[v]]>> ELSE <<>>

\* Hidden, unmounted or left.
Hide(v) ==
  /\ shows[v] # 0
  /\ attempt' = CleanedUp(v) /\ shows' = [shows EXCEPT ![v] = 0]
  /\ requests' = [requests EXCEPT ![v] = @ \o Goodbye(v)]
  /\ UNCHANGED <<attempts, link, gone, opener, registry, manager>>

\* Shown, or reconnecting by itself or by hand: the effect runs again.
Show(v) ==
  /\ attempts < MaxTry
  /\ attempts' = attempts + 1
  /\ attempt' = [CleanedUp(v) EXCEPT ![attempts'] = [by |-> v, link |-> link[v], st |-> "asked"]]
  /\ shows' = [shows EXCEPT ![v] = attempts']
  /\ requests' = [requests EXCEPT ![v] = @ \o Goodbye(v) \o <<[t |-> "open", a |-> attempts']>>]
  /\ UNCHANGED <<link, gone, opener, registry, manager>>

Waits(a) == attempt[a].st \in {"asked", "cancelled"}

\* rtc.open is answered: the view shows it, or closes it if it was cleaned up
\* meanwhile or the answer does not fit.
Answered(a) ==
  /\ Waits(a) /\ opener[a] = "answered" /\ attempt[a].link = link[attempt[a].by]
  /\ \/ /\ attempt[a].st = "asked"
        /\ attempt' = [attempt EXCEPT ![a].st = "shown"] /\ UNCHANGED requests
     \/ /\ attempt' = [attempt EXCEPT ![a].st = "closed"]
        /\ requests' = [requests EXCEPT ![attempt[a].by] = Append(@, [t |-> "close", a |-> a])]
  /\ UNCHANGED <<attempts, shows, link, gone, opener, registry, manager>>

\* The call is refused or times out: there is no session to close.
CallFails(a) ==
  /\ Waits(a) /\ attempt' = [attempt EXCEPT ![a].st = "failed"]
  /\ UNCHANGED <<attempts, shows, wires, opener, registry, manager>>

\* The connection is lost, with what was on its way, and another is made. The view's own
\* connection is not touched.
LinkLost(v) ==
  /\ link[v] < MaxLink
  /\ link' = [link EXCEPT ![v] = @ + 1] /\ gone' = gone \cup {<<v, link[v]>>}
  /\ \E i \in 0 .. Len(requests[v]) :
       /\ requests' = [requests EXCEPT ![v] = <<>>]
       /\ opener' = [a \in Try |-> IF \E j \in 1 .. i : requests[v][j] = [t |-> "open", a |-> a]
                                   THEN "called" ELSE opener[a]]
  /\ attempt' = [a \in Try |-> IF attempt[a].by = v /\ Waits(a) THEN [attempt[a] EXCEPT !.st = "failed"]
                               ELSE attempt[a]]
  /\ UNCHANGED <<attempts, shows, registry, manager>>

-----------------------------------------------------------------------------
(* The registry of rtc sessions. *)

\* close, once: the registry forgets the session and Closed takes its desktop session's id.
Closes(a, who) ==
  /\ rtc' = rtc \ {a} /\ stored' = stored \ {a}
  /\ closing' = [closing EXCEPT ![a] = IF a \in stored THEN who ELSE "done"]

\* A connection's requests are handled in order, but for rtc.open, which has a goroutine.
Reads(v) ==
  /\ requests[v] # <<>>
  /\ \A a \in Try : attempt[a].by = v => closing[a] # "asked"
  /\ requests' = [requests EXCEPT ![v] = Tail(@)]
  /\ LET m == Head(requests[v]) IN
       \/ m.t = "open" /\ opener' = [opener EXCEPT ![m.a] = "called"] /\ UNCHANGED <<rtc, stored, closing>>
       \/ /\ m.t = "close" /\ UNCHANGED opener
          /\ IF m.a \in rtc /\ attempt[m.a].link = link[v] THEN Closes(m.a, "asked")
             ELSE UNCHANGED <<rtc, stored, closing>>
  /\ UNCHANGED <<viewVars, link, gone, toClose, manager>>

Registers(a) ==
  /\ opener[a] = "called" /\ opener' = [opener EXCEPT ![a] = "registered"]
  /\ rtc' = rtc \cup {a}
  /\ UNCHANGED <<viewVars, wires, stored, toClose, closing, manager>>

\* Fault: the answer goes out before the id is stored.
StoresLate(a) ==
  /\ \/ opener[a] = "started" /\ opener' = [opener EXCEPT ![a] = "answered"] /\ UNCHANGED stored
     \/ opener[a] = "answered" /\ desk[a] # "none" /\ stored' = stored \cup {a} /\ UNCHANGED opener
  /\ UNCHANGED <<viewVars, wires, rtc, toClose, closing, manager>>

\* Open keeps the desktop session's id, whoever has closed the session meanwhile, and answers.
Stores(a) ==
  /\ opener[a] = "started" /\ opener' = [opener EXCEPT ![a] = "answered"]
  /\ stored' = stored \cup {a}
  /\ UNCHANGED <<viewVars, wires, rtc, toClose, closing, manager>>

OpenFails(a) ==
  /\ opener[a] = "refused" /\ opener' = [opener EXCEPT ![a] = "failed"]
  /\ IF a \in rtc THEN Closes(a, "asked") ELSE UNCHANGED <<rtc, stored, closing>>
  /\ UNCHANGED <<viewVars, wires, toClose, manager>>

\* PeerClosed collects what the connection has opened, and closes one after another.
PeerClosed(v, n) ==
  /\ <<v, n>> \in gone /\ gone' = gone \ {<<v, n>>}
  /\ toClose' = toClose \cup {a \in rtc : attempt[a].by = v /\ attempt[a].link = n}
  /\ UNCHANGED <<viewVars, link, requests, opener, rtc, stored, closing, manager>>

PeerCloses(a) ==
  /\ a \in toClose /\ toClose' = toClose \ {a}
  /\ IF a \in rtc THEN Closes(a, "peer") ELSE UNCHANGED <<rtc, stored, closing>>
  /\ UNCHANGED <<viewVars, wires, opener, manager>>

-----------------------------------------------------------------------------
(* The manager. *)

\* Start: a session that runs is ended by the one that starts, and by one that cannot.
\* An unknown or disabled desktop is refused before that.
Starts(a) ==
  /\ opener[a] = "registered"
  /\ \/ /\ opener' = [opener EXCEPT ![a] = "refused"] /\ UNCHANGED <<current, desk>>
     \/ LET ended == [b \in Try |-> IF b = current /\ desk[b] = "running" THEN "taken" ELSE desk[b]] IN
          \/ /\ opener' = [opener EXCEPT ![a] = "started"]
             /\ current' = a /\ desk' = [ended EXCEPT ![a] = "running"]
          \/ opener' = [opener EXCEPT ![a] = "refused"] /\ current' = 0 /\ desk' = ended
  /\ UNCHANGED <<viewVars, wires, registry, unlisting>>

Ends(a, how) == desk' = [desk EXCEPT ![a] = IF @ = "running" THEN how ELSE @]

\* Fault: the session that runs is ended, whichever was meant.
StopsAny(a) ==
  /\ closing[a] \in {"asked", "peer"} /\ closing' = [closing EXCEPT ![a] = "done"]
  /\ IF current # 0 THEN Ends(current, "left") /\ current' = 0 ELSE UNCHANGED <<desk, current>>
  /\ UNCHANGED <<viewVars, wires, opener, rtc, stored, toClose, unlisting>>

\* Stop, of the desktop session that Closed has taken the id of.
Stops(a) ==
  /\ closing[a] \in {"asked", "peer"} /\ closing' = [closing EXCEPT ![a] = "done"]
  /\ IF current = a THEN Ends(a, "left") /\ current' = 0 ELSE UNCHANGED <<desk, current>>
  /\ UNCHANGED <<viewVars, wires, opener, rtc, stored, toClose, unlisting>>

\* CloseTab and CloseClient.
ClosedFor(v) ==
  /\ current # 0 /\ attempt[current].by = v
  /\ Ends(current, "closed") /\ current' = 0
  /\ UNCHANGED <<viewVars, wires, opener, registry, unlisting>>

\* Its connection has failed or was closed by the view, or its capture has failed.
Dies(a) ==
  /\ desk[a] = "running" /\ Ends(a, "died") /\ unlisting' = unlisting \cup {a}
  /\ UNCHANGED <<viewVars, wires, opener, registry, current>>

\* Fault: whichever is listed is taken off the list.
UnlistsAny(a) ==
  /\ a \in unlisting /\ unlisting' = unlisting \ {a}
  /\ current' = 0
  /\ UNCHANGED <<viewVars, wires, opener, registry, desk>>

\* sessionEnded.
Unlists(a) ==
  /\ a \in unlisting /\ unlisting' = unlisting \ {a}
  /\ current' = IF current = a THEN 0 ELSE current
  /\ UNCHANGED <<viewVars, wires, opener, registry, desk>>

-----------------------------------------------------------------------------

DesktopNext ==
  \/ \E v \in Viewer : Hide(v) \/ Show(v) \/ LinkLost(v) \/ Reads(v) \/ ClosedFor(v)
  \/ \E v \in Viewer, n \in 1 .. MaxLink : PeerClosed(v, n)
  \/ \E a \in Try : \/ Answered(a) \/ CallFails(a) \/ Registers(a) \/ Starts(a) \/ Stores(a) \/ OpenFails(a)
                    \/ PeerCloses(a) \/ Stops(a) \/ Dies(a) \/ Unlists(a)

DesktopSpec == DesktopInit /\ [][DesktopNext]_desktopVars

DesktopTypeOK ==
  /\ attempt \in [Try -> AttemptState] /\ attempts \in 0 .. MaxTry
  /\ shows \in [Viewer -> 0 .. MaxTry] /\ link \in [Viewer -> 1 .. MaxLink]
  /\ gone \subseteq (Viewer \X (1 .. MaxLink)) /\ requests \in [Viewer -> Seq(DesktopRequest)]
  /\ opener \in [Try -> {"none", "called", "registered", "started", "refused", "failed", "answered"}]
  /\ rtc \subseteq Try /\ stored \subseteq Try /\ toClose \subseteq Try /\ unlisting \subseteq Try
  /\ closing \in [Try -> {"no", "asked", "peer", "done"}]
  /\ current \in 0 .. MaxTry /\ desk \in [Try -> {"none", "running", "taken", "left", "closed", "died"}]

\* "Manager runs at most one remote desktop session at a time" (manager.go:31), and the one
\* that runs is the one it knows: the late end of another does not take it off.
OneDesktop == \A a \in Try : desk[a] = "running" => current = a

\* A view that is gone is not shown the desktop any longer, and nobody else is cut off by
\* its going: when it has closed its session and all that is under way has arrived, its
\* desktop session has ended; and none is ended as left whose view did not leave or lose
\* its connection.
StopsItsOwn ==
  \A a \in Try :
    LET v == attempt[a].by
        settled == requests[v] = <<>> /\ ~(\E n \in 1 .. MaxLink : <<v, n>> \in gone)
                   /\ toClose = {} /\ closing[a] \in {"no", "done"}
    IN /\ attempt[a].st = "closed" /\ settled => desk[a] # "running"
       /\ desk[a] = "left" => attempt[a].st = "closed" \/ attempt[a].link < link[v]

\* The desktop is shown to the one view that has taken it last, for as long as it stays.
DesktopIsTheirs == OneDesktop /\ StopsItsOwn
=============================================================================
