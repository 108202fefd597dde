----------------------------- MODULE DevicePeer -----------------------------
(* One tab's connection to one device (apps/web/src/lib/peer.ts): the WebRTC  *)
(* negotiation through the hub, its retries, and the calls made over it.      *)
(* The hub is what the tab sees of it; the daemon is its signalling side      *)
(* (daemon/internal/peer/peer.go). A negotiation is known by its sid.         *)
EXTENDS Integers, FiniteSets, Sequences, SequencesExt

CONSTANTS
  Call,      \* calls the tab makes, each once
  MaxSid,    \* bound on negotiations begun
  MaxFault   \* bound on lost connections, lost hub sockets, presence changes and user actions

ASSUME BoundAssumption == MaxSid \in Nat /\ MaxFault \in Nat

VARIABLES
  hub,       \* the tab's hub: its socket, and whether it shows the device online
  peer,      \* the DevicePeer
  toDaemon,  \* signals on their way, relayed in order
  toTab,
  daemon,    \* by sid, the daemon's peer
  sids,      \* negotiations begun
  faults

vars == <<hub, peer, toDaemon, toTab, daemon, sids, faults>>

Sid == 1 .. MaxSid
State == {"idle", "connecting", "connected", "failed", "offline"}
\* The two kinds of answer's company: a candidate found before it and one found after.
Cand == {"early", "late"}

Hub == [open : BOOLEAN, known : BOOLEAN, online : BOOLEAN]
Signal == [t : {"offer", "answer", "bye", "offline"}, sid : Sid]
          \cup [t : {"candidate"}, sid : Sid, c : Cand]
\* ice: the newest negotiation waits for the ICE servers. made: createOffer and
\* setLocalDescription are done. A call has the sid it went out on.
Peer == [state : State, viewers : 0 .. 1, pc : 0 .. MaxSid, ice : BOOLEAN, made : BOOLEAN,
         sink : 0 .. MaxSid, remote : {"none", "setting", "set"}, queued : SUBSET Cand,
         applied : SUBSET Cand, connectTimer : BOOLEAN, reconnectTimer : BOOLEAN,
         calls : [Call -> [st : {"none", "waiting", "done", "failed"}, sid : 0 .. MaxSid]], out : Seq(Signal)]
\* A peer the daemon has for a sid: its held candidates, and whether ICE has connected.
Daemon == {"none", "new", "answered", "connected", "closed"}

Init ==
  /\ hub \in {h \in Hub : h.known => h.open}
  /\ peer = [state |-> "idle", viewers |-> 0, pc |-> 0, ice |-> FALSE, made |-> FALSE,
             sink |-> 0, remote |-> "none", queued |-> {}, applied |-> {},
             connectTimer |-> FALSE, reconnectTimer |-> FALSE,
             calls |-> [c \in Call |-> [st |-> "none", sid |-> 0]], out |-> <<>>]
  /\ toDaemon = <<>> /\ toTab = <<>>
  /\ daemon = [s \in Sid |-> "none"]
  /\ sids = 0 /\ faults = 0

-----------------------------------------------------------------------------
(* DevicePeer's methods, as functions of the peer p and the hub h. *)

Send(p, h, m) == IF h.open THEN [p EXCEPT !.out = Append(@, m)] ELSE p

\* teardown: a bye if the hub can take one; every pending call is rejected.
Teardown(p, h) ==
  LET q == [p EXCEPT !.connectTimer = FALSE, !.reconnectTimer = FALSE, !.sink = 0, !.pc = 0,
                     !.made = FALSE, !.remote = "none", !.queued = {}, !.applied = {},
                     !.calls = [c \in Call |-> IF @[c].st = "waiting" THEN [@[c] EXCEPT !.st = "failed"]
                                                                 ELSE @[c]]]
  IN IF p.pc # 0 THEN Send(q, h, [t |-> "bye", sid |-> p.pc]) ELSE q

To(p, h, state) == [Teardown(p, h) EXCEPT !.state = state]
Fail(p, h) == To(p, h, "failed")

\* kick: a negotiation starts by asking for the ICE servers.
Kick(p, h) ==
  IF p.state # "connecting" \/ p.pc # 0 \/ ~h.open \/ ~h.known THEN p
  ELSE IF h.online THEN [p EXCEPT !.ice = TRUE]
  ELSE [p EXCEPT !.state = "offline"]

Ensure(p, h) ==
  IF p.viewers = 0 \/ p.state \in {"connected", "connecting", "failed"} THEN p
  ELSE IF h.known /\ ~h.online THEN [p EXCEPT !.state = "offline"]
  ELSE Kick([p EXCEPT !.state = "connecting"], h)

\* Fault: a lost connection is not made again.
OnDropWaits(p, h) ==
  IF p.state # "connected" THEN Fail(p, h)
  ELSE To(p, h, IF p.viewers = 0 THEN "idle" ELSE "connecting")

OnDrop(p, h) ==
  IF p.state # "connected" THEN Fail(p, h)
  ELSE IF p.viewers = 0 THEN To(p, h, "idle")
  ELSE [To(p, h, "connecting") EXCEPT !.reconnectTimer = TRUE]

Restart(p, h) == Ensure(To(p, h, "idle"), h)

\* Fault: a negotiation outlives the hub's socket that its sink went with.
OnHubChangeKeeps(p, h) ==
  IF h.known /\ ~h.online
  THEN IF p.state \in {"offline", "connected"} \/ (p.state = "idle" /\ p.viewers = 0)
       THEN p ELSE To(p, h, "offline")
  ELSE CASE h.known /\ p.state = "offline" -> Ensure([p EXCEPT !.state = "idle"], h)
         [] p.state = "connecting" -> Kick(p, h)
         [] OTHER -> p

OnHubChange(p, h) ==
  IF h.known /\ ~h.online
  THEN IF p.state \in {"offline", "connected"} \/ (p.state = "idle" /\ p.viewers = 0)
       THEN p ELSE To(p, h, "offline")
  ELSE CASE h.known /\ p.state = "offline" -> Ensure([p EXCEPT !.state = "idle"], h)
         [] p.state = "connecting" ->
              Kick(IF ~h.open /\ p.pc # 0 THEN Teardown(p, h) ELSE p, h)
         [] OTHER -> p

-----------------------------------------------------------------------------

\* The peer becomes p; what it sent goes to the hub, which answers for a device
\* whose daemon is not there.
Becomes(p) ==
  /\ peer' = [p EXCEPT !.out = <<>>]
  /\ toDaemon' = toDaemon \o p.out
Only(p) == Becomes(p) /\ UNCHANGED <<hub, toTab, daemon, sids, faults>>
Fault(p) ==
  /\ faults < MaxFault /\ faults' = faults + 1
  /\ Becomes(p) /\ UNCHANGED <<hub, toTab, daemon, sids>>

(* What the page does. *)

Acquire ==
  /\ peer.viewers = 0
  /\ Only(Ensure([peer EXCEPT !.viewers = 1,
                              !.state = IF @ = "failed" THEN "idle" ELSE @], hub))

Release == peer.viewers = 1 /\ Fault([peer EXCEPT !.viewers = 0])

Retry == Fault(Restart(peer, hub))

\* checkAlive, after the app was in the background. A probe that fails later is Drop.
CheckAlive ==
  /\ peer.viewers > 0
  /\ \/ peer.state = "failed" /\ Fault(Restart(peer, hub))
     \/ /\ peer.state = "connecting" /\ peer.pc = 0
        /\ Fault(Kick([peer EXCEPT !.reconnectTimer = FALSE], hub))

\* call: over an open control channel only.
MakeCall(c) ==
  /\ peer.calls[c].st = "none"
  /\ Only([peer EXCEPT !.calls[c] =
       [st |-> IF peer.state = "connected" THEN "waiting" ELSE "failed", sid |-> peer.pc]])

(* The hub. *)

\* Its onopen, then the presence it is sent, then updates.
HubOpens ==
  /\ ~hub.open
  /\ hub' = [hub EXCEPT !.open = TRUE, !.known = FALSE]
  /\ Becomes(OnHubChange(peer, hub'))
  /\ UNCHANGED <<toTab, daemon, sids, faults>>

Presence(on) ==
  /\ hub.open
  /\ IF hub.known THEN hub.online # on /\ faults < MaxFault /\ faults' = faults + 1
                  ELSE UNCHANGED faults
  /\ hub' = [hub EXCEPT !.known = TRUE, !.online = on]
  /\ Becomes(OnHubChange(peer, hub'))
  /\ UNCHANGED <<toTab, daemon, sids>>

\* Its onclose: the sinks are cleared first, and what was under way is lost: the
\* daemon's answers go to a connection that is gone.
HubDrops ==
  /\ hub.open /\ faults < MaxFault
  /\ faults' = faults + 1
  /\ hub' = [hub EXCEPT !.open = FALSE, !.known = FALSE]
  /\ peer' = OnHubChange([peer EXCEPT !.sink = 0], hub')
  /\ toTab' = <<>>
  /\ \E k \in 0 .. Len(toDaemon) : toDaemon' = SubSeq(toDaemon, 1, k)
  /\ UNCHANGED <<daemon, sids>>

(* The negotiation. *)

\* Fault: no timer on the negotiation.
IceReadyUntimed ==
  /\ peer.ice
  /\ IF peer.state # "connecting" \/ peer.pc # 0
     THEN Only([peer EXCEPT !.ice = FALSE])
     ELSE /\ sids < MaxSid
          /\ sids' = sids + 1
          /\ Becomes([Teardown(peer, hub) EXCEPT !.ice = FALSE, !.pc = sids', !.sink = sids'])
          /\ UNCHANGED <<hub, toTab, daemon, faults>>

\* negotiate after its wait: unless superseded, a new connection with a new sid.
IceReady ==
  /\ peer.ice
  /\ IF peer.state # "connecting" \/ peer.pc # 0
     THEN Only([peer EXCEPT !.ice = FALSE])
     ELSE /\ sids < MaxSid
          /\ sids' = sids + 1
          /\ Becomes([Teardown(peer, hub) EXCEPT !.ice = FALSE, !.pc = sids', !.sink = sids',
                                                 !.connectTimer = TRUE])
          /\ UNCHANGED <<hub, toTab, daemon, faults>>

\* createOffer and setLocalDescription are done, or have thrown.
OfferReady ==
  /\ peer.pc # 0 /\ ~peer.made
  /\ \/ Only(Send([peer EXCEPT !.made = TRUE], hub, [t |-> "offer", sid |-> peer.pc]))
     \/ Fault(Fail(peer, hub))

ConnectTimeout == peer.connectTimer /\ Only(Fail(peer, hub))

ReconnectFires ==
  /\ peer.reconnectTimer
  /\ Only(Kick([peer EXCEPT !.reconnectTimer = FALSE], hub))

\* onSignal and onHubError: a signal for the sid whose sink is registered.
Candidate(p, c) == IF p.remote = "set" THEN [p EXCEPT !.applied = @ \cup {c}]
                                       ELSE [p EXCEPT !.queued = @ \cup {c}]
OnSignal(p, m) ==
  IF m.sid # p.sink \/ p.sink # p.pc THEN p
  ELSE CASE m.t = "answer" -> [p EXCEPT !.remote = "setting"]
         [] m.t = "candidate" -> Candidate(p, m.c)
         [] m.t = "bye" -> OnDrop(p, hub)
         [] m.t = "offline" -> To(p, hub, "offline")

ReadSignal ==
  /\ hub.open /\ toTab # <<>>
  /\ Becomes(OnSignal(peer, Head(toTab)))
  /\ toTab' = Tail(toTab)
  /\ UNCHANGED <<hub, daemon, sids, faults>>

\* setRemoteDescription is done: the queued candidates are added. Of a connection
\* closed in the meantime it never is.
RemoteSet ==
  /\ peer.remote = "setting"
  /\ Only([peer EXCEPT !.remote = "set", !.applied = @ \cup peer.queued, !.queued = {}])

\* ICE connects the two, and the control channel opens.
ControlOpens ==
  /\ peer.state = "connecting" /\ peer.remote = "set" /\ peer.applied # {}
  /\ daemon[peer.pc] = "answered"
  /\ Only([peer EXCEPT !.state = "connected", !.connectTimer = FALSE])

\* The connection fails or stays disconnected, a probe goes unanswered, or the
\* control channel closes with the daemon's side.
Drop ==
  /\ peer.pc # 0 /\ peer.made
  /\ IF daemon[peer.pc] = "closed" THEN Only(OnDrop(peer, hub)) ELSE Fault(OnDrop(peer, hub))

(* Calls over the control channel. *)

CallAnswered(c) ==
  /\ peer.calls[c] = [st |-> "waiting", sid |-> peer.pc] /\ daemon[peer.pc] # "closed"
  /\ Only([peer EXCEPT !.calls[c].st = "done"])
CallTimeout(c) == peer.calls[c].st = "waiting" /\ Only([peer EXCEPT !.calls[c].st = "failed"])

-----------------------------------------------------------------------------
(* The daemon's HandleSignal. Candidates found before the answer is sent are     *)
(* held until it is. A bye closes the peer. An offer for a device whose daemon    *)
(* is not connected is answered by the hub.                                     *)

DaemonReads ==
  /\ toDaemon # <<>>
  /\ toDaemon' = Tail(toDaemon)
  /\ LET m == Head(toDaemon)
         Reply(ms) == toTab' = IF hub.open THEN toTab \o ms ELSE toTab
         cand(c) == [t |-> "candidate", sid |-> m.sid, c |-> c]
     IN \/ /\ m.t = "offer" /\ daemon' = [daemon EXCEPT ![m.sid] = "answered"]
           /\ \E early \in SUBSET {cand("early")} :
                Reply(<<[t |-> "answer", sid |-> m.sid]>> \o SetToSeq(early) \o <<cand("late")>>)
        \/ /\ m.t = "offer" /\ daemon' = daemon
           /\ Reply(<<[t |-> "bye", sid |-> m.sid]>>)
        \/ /\ m.t = "offer" /\ ~hub.online /\ daemon' = daemon
           /\ Reply(<<[t |-> "offline", sid |-> m.sid]>>)
        \/ /\ m.t = "bye" /\ UNCHANGED toTab
           /\ daemon' = [daemon EXCEPT ![m.sid] = IF @ = "none" THEN @ ELSE "closed"]
  /\ UNCHANGED <<hub, peer, sids, faults>>

\* The daemon's side fails or is closed (a restart, an ICE failure, its session gone).
DaemonCloses(s) ==
  /\ daemon[s] = "answered"
  /\ daemon' = [daemon EXCEPT ![s] = "closed"]
  /\ UNCHANGED <<hub, peer, toDaemon, toTab, sids, faults>>

-----------------------------------------------------------------------------

Next ==
  \/ Acquire \/ Release \/ Retry \/ CheckAlive \/ \E c \in Call : MakeCall(c)
  \/ HubOpens \/ (\E on \in BOOLEAN : Presence(on)) \/ HubDrops
  \/ IceReady \/ OfferReady \/ ConnectTimeout \/ ReconnectFires
  \/ ReadSignal \/ RemoteSet \/ ControlOpens \/ Drop
  \/ (\E c \in Call : CallAnswered(c) \/ CallTimeout(c))
  \/ DaemonReads \/ \E s \in Sid : DaemonCloses(s)

Spec == Init /\ [][Next]_vars

\* Timers fire, the browser's own promises settle, and the hub reconnects and is
\* sent its presence. Nothing is asked of the daemon or of the network between.
Fairness ==
  /\ WF_vars(IceReady) /\ WF_vars(ConnectTimeout) /\ WF_vars(ReconnectFires)
  /\ WF_vars(HubOpens) /\ WF_vars(\E on \in BOOLEAN : ~hub.known /\ Presence(on))

FairSpec == Spec /\ Fairness

-----------------------------------------------------------------------------

TypeOK ==
  /\ hub \in Hub
  /\ peer \in Peer
  /\ toDaemon \in Seq(Signal) /\ toTab \in Seq(Signal)
  /\ daemon \in [Sid -> Daemon]
  /\ sids \in 0 .. MaxSid /\ faults \in 0 .. MaxFault

\* A peer that says it is connecting is never stuck: it has a connection under way
\* and a timer on it, a negotiation waiting for ICE servers, a reconnect timer, or
\* a hub whose next change makes it start (peer.ts: "onHubChange retries").
ConnectingMoves ==
  peer.state = "connecting" =>
    \/ peer.pc # 0 /\ peer.connectTimer
    \/ peer.ice \/ peer.reconnectTimer
    \/ ~hub.open \/ ~hub.known

\* Whatever waits, waits on the connection that is there now. A negotiation over an
\* open hub has its answer's sink registered: the hub forgets its sinks when its
\* socket drops, and a peer that missed that would sit out its timeout. A call that
\* waits went out on the connection that is up: one made over a connection that has
\* since been replaced was rejected.
WaitsOnPresent ==
  /\ peer.state = "connecting" /\ peer.pc # 0 /\ hub.open => peer.sink = peer.pc
  /\ \A c \in Call : peer.calls[c].st = "waiting" =>
       peer.state = "connected" /\ peer.calls[c].sid = peer.pc

\* What a tab is waiting for is there, and something ends the wait.
NeverStuck == ConnectingMoves /\ WaitsOnPresent

\* Connecting ends, whatever the daemon and the network do.
ConnectingEnds == []<>(peer.state # "connecting" \/ sids = MaxSid)
=============================================================================
