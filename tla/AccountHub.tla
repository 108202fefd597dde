----------------------------- MODULE AccountHub -----------------------------
(* One account's hub: the Durable Object that holds a WebSocket for every     *)
(* daemon and browser tab (apps/worker/src/hub.ts), with the tab's end of it   *)
(* (apps/web/src/lib/hub.ts) and as much of a daemon as the hub can see.      *)
(* The object runs one handler at a time, but another may run whenever one    *)
(* awaits the database: such a handler is several actions.                    *)
EXTENDS Integers, FiniteSets, Sequences, SequencesExt

CONSTANTS
  Device,    \* daemons
  Client,    \* browser tabs
  Dialer,    \* those that make offers, and may be signed out
  Rpc,       \* requests of the Worker to daemons
  Thread,    \* what a tab may show
  MaxConn,   \* bound on sockets of one device
  MaxTab,    \* bound on sockets of one tab
  MaxNap,    \* bound on the times a daemon's network fails it
  None

ASSUME ConnAssumption == MaxConn \in Nat \ {0} /\ MaxTab \in Nat \ {0} /\ MaxNap \in Nat /\ Dialer \subseteq Client
ASSUME KindAssumption == Device \cap Client = {} /\ None \notin Thread \cup Rpc
ASSUME DataAssumption == IsFiniteSet(Device) /\ IsFiniteSet(Client)

VARIABLES
  sock,      \* the object's sockets, by owner and number, with their attachments
  inbox,     \* by socket, what was sent on it and not yet read at the other end
  alarm,     \* whether a sweep is scheduled
  sweep,     \* handlers inside closeSilentDevices: the sockets each has yet to look at
  accepting, \* device sockets whose fetch still awaits the database
  offer,     \* by tab, how far the handler of its offer has come
  pending,   \* by request, the device it waits for
  result,    \* by request, how it ended
  session,   \* by tab, whether its session is in the database, deleted, or also revoked here
  tab,       \* by tab: its Hub
  held,      \* by device, the socket its daemon holds, 0 for none
  naps

hubVars == <<sock, inbox, alarm, sweep, accepting, offer, pending, result, session, tab, held, naps>>

DeviceSock == Device \X (1 .. MaxConn)
ClientSock == Client \X (1 .. MaxTab)
Sock == DeviceSock \cup ClientSock

\* closing: the object has closed it, and its webSocketClose is still to run.
SockState == [st : {"none", "open", "closing", "gone"}, silent : BOOLEAN, rpc : BOOLEAN,
              viewing : Thread \cup {None}]
HubToClient ==
  [t : {"presence"}, online : SUBSET Device]
  \cup [t : {"presence.update"}, device : Device, online : BOOLEAN]
  \cup [t : {"signal", "offline"}]
HubToDaemon == [t : {"rpc"}, id : Rpc] \cup [t : {"signal"}, from : ClientSock]
               \cup [t : {"client.revoked"}, conn : ClientSock]
Outcome == {"none", "ok", "offline", "unsupported", "timeout"}
Handler == Client \cup {"alarm"}

\* online: the snapshot; shown: the thread the page shows; sent: what the
\* hub was last told of it; upgrade: the Worker has let the connection through.
TabState ==
  [n : 0 .. MaxTab, status : {"idle", "connecting", "open", "closed"}, upgrade : BOOLEAN,
   online : SUBSET Device, shown : Thread \cup {None},
   sent : Thread \cup {None}, sink : BOOLEAN]

HubInit ==
  /\ sock = [s \in Sock |-> [st |-> "none", silent |-> FALSE, rpc |-> FALSE, viewing |-> None]]
  /\ inbox = [s \in Sock |-> <<>>]
  /\ alarm = FALSE
  /\ sweep = [h \in Handler |-> None]
  /\ accepting = {}
  /\ offer = [c \in Client |-> None]
  /\ pending = [r \in Rpc |-> None]
  /\ result = [r \in Rpc |-> "none"]
  /\ session = [c \in Client |-> "in"]
  /\ tab = [c \in Client |->
       [n |-> 0, status |-> "idle", upgrade |-> FALSE, online |-> {},
        shown |-> None, sent |-> None, sink |-> FALSE]]
  /\ held = [d \in Device |-> 0]
  /\ naps = 0

-----------------------------------------------------------------------------
(* What the handlers are made of. Each takes the sockets as they are then. *)

IsDevice(s) == s[1] \in Device
Live(sk, s) == sk[s].st = "open" /\ (IsDevice(s) => ~sk[s].silent)
SocketsOf(sk, d) == {s \in {d} \X (1 .. MaxConn) : Live(sk, s)}
OnlineDevices(sk) == {d \in Device : SocketsOf(sk, d) # {}}

\* send: to a socket that is no longer open, nothing; on one whose other end has let
\* go of it nobody reads.
Read(s) == IF IsDevice(s) THEN held[s[1]] = s[2] ELSE tab[s[1]].n = s[2]
SendTo(sk, box, S, m) ==
  [s \in Sock |-> IF s \in S /\ sk[s].st = "open" /\ Read(s) THEN Append(box[s], m) ELSE box[s]]
Broadcast(sk, box, m) == SendTo(sk, box, ClientSock, m)
PresenceAt(d, on) == [t |-> "presence.update", device |-> d, online |-> on]
Closed(sk, S) == [s \in Sock |-> IF s \in S /\ sk[s].st = "open"
                                 THEN [sk[s] EXCEPT !.st = "closing"] ELSE sk[s]]

\* Fault: another socket of the device is not looked for.
OnGoneOfAny(sk, s) ==
  LET fails == {r \in Rpc : pending[r] = s[1]}
  IN /\ pending' = [r \in Rpc |-> IF r \in fails THEN None ELSE pending[r]]
     /\ result' = [r \in Rpc |-> IF r \in fails THEN "offline" ELSE result[r]]
     /\ inbox' = [Broadcast(sk, inbox, PresenceAt(s[1], FALSE)) EXCEPT ![s] = <<>>]

\* Fault: the requests to the device are left waiting.
OnGoneKeepsRpcs(sk, s) ==
  /\ UNCHANGED <<pending, result>>
  /\ inbox' = [IF ~IsDevice(s) \/ SocketsOf(sk, s[1]) \ {s} # {} THEN inbox
               ELSE Broadcast(sk, inbox, PresenceAt(s[1], FALSE)) EXCEPT ![s] = <<>>]

\* onGone of socket s: nothing if another socket of the device is live. Its wait
\* for the database leaves nothing to do.
OnGone(sk, s) ==
  IF ~IsDevice(s) \/ SocketsOf(sk, s[1]) \ {s} # {}
  THEN inbox' = [inbox EXCEPT ![s] = <<>>] /\ UNCHANGED <<pending, result>>
  ELSE LET fails == {r \in Rpc : pending[r] = s[1]}
       IN /\ pending' = [r \in Rpc |-> IF r \in fails THEN None ELSE pending[r]]
          /\ result' = [r \in Rpc |-> IF r \in fails THEN "offline" ELSE result[r]]
          /\ inbox' = [Broadcast(sk, inbox, PresenceAt(s[1], FALSE)) EXCEPT ![s] = <<>>]

HubQuiet == UNCHANGED <<alarm, sweep, accepting, offer, session>>
RpcQuiet == UNCHANGED <<pending, result>>
TabsQuiet == UNCHANGED tab
DevicesQuiet == UNCHANGED <<held, naps>>

-----------------------------------------------------------------------------
(* Daemons and their sockets. *)

\* fetch for a device, up to its wait for touchDevice: the old sockets are closed.
AcceptDevice(d) ==
  LET used == {n \in 1 .. MaxConn : sock[<<d, n>>].st # "none"}
      s == <<d, Cardinality(used) + 1>>
      old == {<<d, n>> : n \in used}
      sk == [Closed(sock, old) EXCEPT ![s].st = "open"]
  IN /\ Cardinality(used) < MaxConn
     /\ held[d] = 0
     /\ sock' = sk
     /\ inbox' = Broadcast(sk, inbox, PresenceAt(d, TRUE))
     /\ accepting' = accepting \cup {s}
     /\ held' = [held EXCEPT ![d] = s[2]]
     /\ UNCHANGED <<alarm, sweep, offer, session, naps>> /\ RpcQuiet /\ TabsQuiet

\* The rest of fetch: the sweep is scheduled unless one is.
Accepted(s) ==
  /\ s \in accepting
  /\ accepting' = accepting \ {s}
  /\ alarm' = TRUE
  /\ UNCHANGED <<sock, inbox, sweep, offer, session>> /\ RpcQuiet /\ TabsQuiet /\ DevicesQuiet

\* A daemon acts on a socket that it holds, that is open and carries what it sends.
Holds(s) == held[s[1]] = s[2] /\ s \notin accepting /\ sock[s].st = "open" /\ ~sock[s].silent

\* Its hello: an old version is turned away, else the features are attached.
Hello(s) ==
  /\ Holds(s) /\ ~sock[s].rpc
  /\ \/ sock' = [sock EXCEPT ![s].rpc = TRUE]
     \/ sock' = Closed(sock, {s})
  /\ UNCHANGED inbox /\ HubQuiet /\ RpcQuiet /\ TabsQuiet /\ DevicesQuiet

\* The daemon answers a request. The answer is taken if the request still waits for
\* this device.
AnswerRpc(s, r) ==
  /\ Holds(s) /\ inbox[s] # <<>> /\ Head(inbox[s]) = [t |-> "rpc", id |-> r]
  /\ inbox' = [inbox EXCEPT ![s] = Tail(@)]
  /\ IF pending[r] = s[1]
     THEN /\ pending' = [pending EXCEPT ![r] = None]
          /\ result' = [result EXCEPT ![r] = "ok"]
     ELSE RpcQuiet
  /\ UNCHANGED sock /\ HubQuiet /\ TabsQuiet /\ DevicesQuiet

\* The daemon answers an offer, and the hub passes that to the socket it came from.
AnswerSignal(s, from) ==
  /\ Holds(s) /\ inbox[s] # <<>> /\ Head(inbox[s]) = [t |-> "signal", from |-> from]
  /\ inbox' = SendTo(sock, [inbox EXCEPT ![s] = Tail(@)], {from}, [t |-> "signal"])
  /\ UNCHANGED sock /\ HubQuiet /\ RpcQuiet /\ TabsQuiet /\ DevicesQuiet

\* The daemon closes what a revoked socket opened.
ReadRevoked(s, conn) ==
  /\ Holds(s) /\ inbox[s] # <<>> /\ Head(inbox[s]) = [t |-> "client.revoked", conn |-> conn]
  /\ inbox' = [inbox EXCEPT ![s] = Tail(@)]
  /\ UNCHANGED sock /\ HubQuiet /\ RpcQuiet /\ TabsQuiet /\ DevicesQuiet

\* The laptop sleeps or its network goes, and nothing comes through for a minute.
Nap(s) ==
  /\ sock[s].st = "open" /\ ~sock[s].silent /\ held[s[1]] = s[2] /\ naps < MaxNap
  /\ naps' = naps + 1
  /\ sock' = [sock EXCEPT ![s].silent = TRUE]
  /\ UNCHANGED <<inbox, held>> /\ HubQuiet /\ RpcQuiet /\ TabsQuiet

\* It wakes on the same socket, or nobody is left to ping on it.
Pings(s) ==
  /\ sock[s].st = "open" /\ sock[s].silent = (held[s[1]] = s[2])
  /\ sock' = [sock EXCEPT ![s].silent = ~@]
  /\ UNCHANGED inbox /\ HubQuiet /\ RpcQuiet /\ TabsQuiet /\ DevicesQuiet

\* The daemon gives up on its socket; the object may learn of it now or never.
DaemonDrops(d) ==
  /\ held[d] # 0
  /\ held' = [held EXCEPT ![d] = 0]
  /\ UNCHANGED <<sock, inbox, naps>> /\ HubQuiet /\ RpcQuiet /\ TabsQuiet

\* webSocketClose or webSocketError: of a socket the object closed, or of one
\* whose other end has gone.
SocketGone(s) ==
  /\ \/ sock[s].st = "closing"
     \/ sock[s].st = "open" /\ IsDevice(s) /\ held[s[1]] # s[2] /\ ~sock[s].silent
     \/ sock[s].st = "open" /\ ~IsDevice(s)
  /\ LET sk == [sock EXCEPT ![s] = [st |-> "gone", silent |-> FALSE, rpc |-> FALSE, viewing |-> None]]
     IN sock' = sk /\ OnGone(sk, s)
  /\ held' = IF IsDevice(s) /\ held[s[1]] = s[2] THEN [held EXCEPT ![s[1]] = 0] ELSE held
  /\ tab' = IF ~IsDevice(s) /\ tab[s[1]].n = s[2] /\ tab[s[1]].status \in {"connecting", "open"}
            THEN [tab EXCEPT ![s[1]].status = "closed", ![s[1]].sink = FALSE]
            ELSE tab
  /\ UNCHANGED naps /\ HubQuiet

-----------------------------------------------------------------------------
(* closeSilentDevices: each socket it closes is waited for. *)

SweepStarts(h) == sweep' = [sweep EXCEPT ![h] = {s \in DeviceSock : sock[s].st = "open"}]

SweepCloses(h, s) ==
  /\ sweep[h] # None /\ s \in sweep[h] /\ sock[s].st = "open" /\ sock[s].silent
  /\ LET sk == Closed(sock, {s}) IN sock' = sk /\ OnGone(sk, s)
  /\ sweep' = [sweep EXCEPT ![h] = @ \ {s}]
  /\ UNCHANGED <<alarm, accepting, offer, session>> /\ TabsQuiet /\ DevicesQuiet

SweepDone(h) == sweep[h] # None /\ \A s \in sweep[h] : ~(sock[s].st = "open" /\ sock[s].silent)

Alarm ==
  /\ alarm /\ sweep["alarm"] = None
  /\ alarm' = FALSE
  /\ SweepStarts("alarm")
  /\ UNCHANGED <<sock, inbox, accepting, offer, session>> /\ RpcQuiet /\ TabsQuiet /\ DevicesQuiet

\* Fault: the next sweep is not scheduled.
AlarmEndsForGood ==
  /\ SweepDone("alarm")
  /\ sweep' = [sweep EXCEPT !["alarm"] = None]
  /\ UNCHANGED <<sock, inbox, alarm, accepting, offer, session>> /\ RpcQuiet /\ TabsQuiet /\ DevicesQuiet

\* The next sweep is scheduled while any daemon is connected.
AlarmEnds ==
  /\ SweepDone("alarm")
  /\ sweep' = [sweep EXCEPT !["alarm"] = None]
  /\ alarm' = (alarm \/ \E s \in DeviceSock : sock[s].st = "open")
  /\ UNCHANGED <<sock, inbox, accepting, offer, session>> /\ RpcQuiet /\ TabsQuiet /\ DevicesQuiet

-----------------------------------------------------------------------------
(* Requests of the Worker. *)

DeviceRpc(r, d) ==
  /\ pending[r] = None /\ result[r] = "none"
  /\ IF SocketsOf(sock, d) = {}
     THEN result' = [result EXCEPT ![r] = "offline"] /\ UNCHANGED <<pending, inbox>>
     ELSE \E s \in SocketsOf(sock, d) :
            IF ~sock[s].rpc
            THEN result' = [result EXCEPT ![r] = "unsupported"] /\ UNCHANGED <<pending, inbox>>
            ELSE /\ pending' = [pending EXCEPT ![r] = d]
                 /\ inbox' = SendTo(sock, inbox, {s}, [t |-> "rpc", id |-> r])
                 /\ UNCHANGED result
  /\ UNCHANGED sock /\ HubQuiet /\ TabsQuiet /\ DevicesQuiet

RpcTimeout(r) ==
  /\ pending[r] # None
  /\ pending' = [pending EXCEPT ![r] = None]
  /\ result' = [result EXCEPT ![r] = "timeout"]
  /\ UNCHANGED <<sock, inbox>> /\ HubQuiet /\ TabsQuiet /\ DevicesQuiet

RevokeDevice(d) ==
  LET sk == Closed(sock, {d} \X (1 .. MaxConn))
  IN /\ \E s \in {d} \X (1 .. MaxConn) : sock[s].st = "open"
     /\ sock' = sk
     /\ inbox' = Broadcast(sk, inbox, PresenceAt(d, FALSE))
     /\ HubQuiet /\ RpcQuiet /\ TabsQuiet /\ DevicesQuiet

-----------------------------------------------------------------------------
(* Tabs: the Hub of apps/web/src/lib/hub.ts and its socket. *)

Here(c) == <<c, tab[c].n>>

\* start and connect; the Worker then looks the session up.
Connect(c) ==
  /\ tab[c].status \in {"idle", "closed"} /\ tab[c].n < MaxTab /\ session[c] = "in"
  /\ tab' = [tab EXCEPT ![c].status = "connecting", ![c].n = @ + 1, ![c].upgrade = TRUE]
  /\ UNCHANGED <<sock, inbox>> /\ HubQuiet /\ RpcQuiet /\ DevicesQuiet

\* fetch for a tab: what is online is the first thing it is told.
AcceptClient(c) ==
  /\ tab[c].status = "connecting" /\ tab[c].upgrade
  /\ sock' = [sock EXCEPT ![Here(c)].st = "open"]
  /\ inbox' = [inbox EXCEPT ![Here(c)] = <<[t |-> "presence", online |-> OnlineDevices(sock)]>>]
  /\ tab' = [tab EXCEPT ![c].upgrade = FALSE]
  /\ HubQuiet /\ RpcQuiet /\ DevicesQuiet

\* syncViewing: what the page shows is reported when the socket is open; the hub
\* reads it before anything the tab sends later.
SyncViewing(x, s) ==
  IF x.status = "open" /\ x.shown # x.sent
  THEN /\ tab' = [tab EXCEPT ![s[1]] = [x EXCEPT !.sent = x.shown]]
       /\ sock' = [sock EXCEPT ![s].viewing = IF sock[s].st = "open" THEN x.shown ELSE @]
  ELSE tab' = [tab EXCEPT ![s[1]] = x] /\ UNCHANGED sock

\* Fault: what the last connection was told is taken to hold of the new one.
OpenedAsBefore(c) ==
  /\ tab[c].status = "connecting" /\ sock[Here(c)].st = "open"
  /\ SyncViewing([tab[c] EXCEPT !.status = "open"], Here(c))
  /\ UNCHANGED inbox /\ HubQuiet /\ RpcQuiet /\ DevicesQuiet

\* onopen: a new connection starts out viewing nothing.
Opened(c) ==
  /\ tab[c].status = "connecting" /\ sock[Here(c)].st = "open"
  /\ SyncViewing([tab[c] EXCEPT !.status = "open", !.sent = None], Here(c))
  /\ UNCHANGED inbox /\ HubQuiet /\ RpcQuiet /\ DevicesQuiet

SetThread(c, th) ==
  /\ tab[c].n > 0 /\ tab[c].shown # th
  /\ SyncViewing([tab[c] EXCEPT !.shown = th], Here(c))
  /\ UNCHANGED inbox /\ HubQuiet /\ RpcQuiet /\ DevicesQuiet

\* handle: presence, and signals for the negotiation that waits for them.
Handle(c) ==
  /\ tab[c].status = "open" /\ inbox[Here(c)] # <<>>
  /\ LET m == Head(inbox[Here(c)])
     IN tab' = [tab EXCEPT ![c] =
          CASE m.t = "presence" -> [@ EXCEPT !.online = m.online]
            [] m.t = "presence.update" ->
                 [@ EXCEPT !.online = IF m.online THEN @ \cup {m.device} ELSE @ \ {m.device}]
            [] OTHER -> [@ EXCEPT !.sink = FALSE]]
  /\ inbox' = [inbox EXCEPT ![Here(c)] = Tail(@)]
  /\ UNCHANGED sock /\ HubQuiet /\ RpcQuiet /\ DevicesQuiet

\* No pong: the tab lets go of a socket that may look open to the hub for minutes.
PongTimeout(c) ==
  /\ tab[c].status = "open" /\ tab[c].n < MaxTab
  /\ tab' = [tab EXCEPT ![c].status = "connecting", ![c].sink = FALSE,
                        ![c].n = @ + 1, ![c].upgrade = session[c] = "in"]
  /\ UNCHANGED <<sock, inbox>> /\ HubQuiet /\ RpcQuiet /\ DevicesQuiet

\* checkSession after a close, or a connection refused: without a session the hub stops.
Unauthorized(c) ==
  /\ tab[c].status = "closed" \/ (tab[c].status = "connecting" /\ ~tab[c].upgrade
                                  /\ sock[Here(c)].st = "none")
  /\ session[c] # "in"
  /\ tab' = [tab EXCEPT ![c].status = "idle", ![c].online = {}, ![c].sink = FALSE]
  /\ UNCHANGED <<sock, inbox>> /\ HubQuiet /\ RpcQuiet /\ DevicesQuiet

-----------------------------------------------------------------------------
(* An offer: the session is read from the database, then silent daemons are closed. *)

SendOffer(c) ==
  /\ tab[c].status = "open" /\ offer[c] = None /\ ~tab[c].sink /\ sock[Here(c)].st = "open"
  /\ offer' = [offer EXCEPT ![c] = <<Here(c), "reading">>]
  /\ tab' = [tab EXCEPT ![c].sink = TRUE]
  /\ UNCHANGED <<sock, inbox, alarm, sweep, accepting, session>> /\ RpcQuiet /\ DevicesQuiet

ReadSession(c) ==
  /\ offer[c] # None /\ offer[c][2] = "reading"
  /\ offer' = [offer EXCEPT ![c][2] = IF session[c] = "in" THEN "valid" ELSE "invalid"]
  /\ UNCHANGED <<sock, inbox, alarm, sweep, accepting, session>> /\ RpcQuiet /\ TabsQuiet /\ DevicesQuiet

\* Fault: an offer of a session that is gone is relayed.
SessionIgnored(c) ==
  /\ offer[c] # None /\ offer[c][2] \in {"valid", "invalid"}
  /\ SweepStarts(c)
  /\ offer' = [offer EXCEPT ![c][2] = "sweeping"]
  /\ UNCHANGED <<sock, inbox, alarm, accepting, session>> /\ RpcQuiet /\ TabsQuiet /\ DevicesQuiet

SessionChecked(c) ==
  /\ offer[c] # None /\ offer[c][2] \in {"valid", "invalid"}
  /\ IF offer[c][2] = "valid"
     THEN /\ SweepStarts(c)
          /\ offer' = [offer EXCEPT ![c][2] = "sweeping"]
          /\ UNCHANGED sock
     ELSE /\ sock' = Closed(sock, {offer[c][1]})
          /\ offer' = [offer EXCEPT ![c] = None]
          /\ UNCHANGED sweep
  /\ UNCHANGED <<inbox, alarm, accepting, session>> /\ RpcQuiet /\ TabsQuiet /\ DevicesQuiet

Relay(c, d) ==
  /\ offer[c] # None /\ offer[c][2] = "sweeping" /\ SweepDone(c)
  /\ sweep' = [sweep EXCEPT ![c] = None]
  /\ offer' = [offer EXCEPT ![c] = None]
  /\ LET s == offer[c][1]
     IN IF SocketsOf(sock, d) = {}
        THEN inbox' = SendTo(sock, inbox, {s}, [t |-> "offline"])
        ELSE \E to \in SocketsOf(sock, d) :
               inbox' = SendTo(sock, inbox, {to}, [t |-> "signal", from |-> s])
  /\ UNCHANGED <<sock, alarm, accepting, session>> /\ RpcQuiet /\ TabsQuiet /\ DevicesQuiet

-----------------------------------------------------------------------------
(* Sign-out: the session's row goes first, then the hub is told. *)

SignOut(c) ==
  /\ session[c] = "in"
  /\ session' = [session EXCEPT ![c] = "deleted"]
  /\ UNCHANGED <<sock, inbox, alarm, sweep, accepting, offer>> /\ RpcQuiet /\ TabsQuiet /\ DevicesQuiet

RevokeSessions(c) ==
  /\ session[c] = "deleted"
  /\ session' = [session EXCEPT ![c] = "revoked"]
  /\ LET conns == {s \in {c} \X (1 .. MaxTab) : sock[s].st = "open"}
         sk == Closed(sock, conns)
     IN /\ sock' = sk
        /\ inbox' = [s \in Sock |->
             IF IsDevice(s) /\ sk[s].st = "open"
             THEN inbox[s] \o SetToSeq({[t |-> "client.revoked", conn |-> k] : k \in conns})
             ELSE inbox[s]]
  /\ UNCHANGED <<alarm, sweep, accepting, offer>> /\ RpcQuiet /\ TabsQuiet /\ DevicesQuiet

-----------------------------------------------------------------------------

DeviceStep ==
  \/ \E d \in Device : AcceptDevice(d) \/ DaemonDrops(d) \/ RevokeDevice(d)
  \/ \E s \in DeviceSock : Accepted(s) \/ Hello(s) \/ Nap(s) \/ Pings(s)
  \/ \E r \in Rpc : RpcTimeout(r) \/ \E d \in Device : DeviceRpc(r, d)
  \/ \E r \in Rpc, s \in DeviceSock : AnswerRpc(s, r)
  \/ \E s \in Sock : SocketGone(s)
SweepStep ==
  Alarm \/ AlarmEnds \/ \E h \in Handler, s \in DeviceSock : SweepCloses(h, s)
TabStep(c) ==
  \/ Connect(c) \/ AcceptClient(c) \/ Opened(c) \/ Handle(c) \/ PongTimeout(c)
  \/ \E th \in Thread \cup {None} : SetThread(c, th)
DialerStep(c) ==
  \/ SendOffer(c) \/ ReadSession(c) \/ SessionChecked(c) \/ \E d \in Device : Relay(c, d)
  \/ SignOut(c) \/ RevokeSessions(c) \/ Unauthorized(c)
  \/ \E s \in DeviceSock, n \in 1 .. MaxTab : AnswerSignal(s, <<c, n>>) \/ ReadRevoked(s, <<c, n>>)

HubNext == DeviceStep \/ SweepStep \/ (\E c \in Client : TabStep(c)) \/ \E c \in Dialer : DialerStep(c)

HubSpec == HubInit /\ [][HubNext]_hubVars

\* The platform calls a due alarm and a closed socket's handler, ends every wait
\* for the database, and delivers what was sent on a socket that is up.
HubFairness ==
  /\ WF_hubVars(Alarm) /\ WF_hubVars(AlarmEnds)
  /\ \A s \in DeviceSock : /\ WF_hubVars(Accepted(s)) /\ WF_hubVars(SweepCloses("alarm", s))
                            /\ WF_hubVars(held[s[1]] # s[2] /\ Pings(s))
  /\ \A s \in Sock : WF_hubVars(SocketGone(s) /\ sock[s].st = "closing")
  /\ \A c \in Client : WF_hubVars(Handle(c))

HubFairSpec == HubSpec /\ HubFairness

-----------------------------------------------------------------------------

HubTypeOK ==
  /\ sock \in [Sock -> SockState]
  /\ inbox \in [Sock -> Seq(HubToClient \cup HubToDaemon)]
  /\ alarm \in BOOLEAN
  /\ sweep \in [Handler -> (SUBSET DeviceSock) \cup {None}]
  /\ accepting \subseteq DeviceSock
  /\ offer \in [Client -> {None} \cup (ClientSock \X {"reading", "valid", "invalid", "sweeping"})]
  /\ \A c \in Client : offer[c] # None => offer[c][1][1] = c
  /\ pending \in [Rpc -> Device \cup {None}]
  /\ result \in [Rpc -> Outcome]
  /\ session \in [Client -> {"in", "deleted", "revoked"}]
  /\ tab \in [Client -> TabState]
  /\ held \in [Device -> 0 .. MaxConn]
  /\ naps \in 0 .. MaxNap

\* What a message tells a tab of device d.
About(m, d) == m.t = "presence" \/ (m.t = "presence.update" /\ m.device = d)
SaysOnline(m, d) == IF m.t = "presence" THEN d \in m.online ELSE m.online

\* Whether d is shown by who shows on, once all of box has been read: the last message
\* about it counts.
WillBeShown(d, on, box) ==
  LET said == {i \in DOMAIN box : About(box[i], d)}
  IN IF said = {} THEN d \in on
     ELSE \E i \in said : SaysOnline(box[i], d) /\ \A j \in said : j <= i

\* What tab c will show as online once it has read what it was sent.
WillShow(c) == {d \in Device : WillBeShown(d, tab[c].online, inbox[Here(c)])}

Connected(c) == tab[c].status = "open" /\ sock[Here(c)].st = "open"

\* A device that a connected tab shows, or is about to, has a socket here, or one
\* whose close is still to be handled. Conversely a daemon with a live socket is
\* shown, as long as none has gone quiet and come back. The close of a replaced
\* socket, a sweep, a removal and the real close all report a device, in any order.
PresenceIsTrue ==
  \A c \in Client : Connected(c) =>
    /\ \A d \in WillShow(c) : \E n \in 1 .. MaxConn : sock[<<d, n>>].st \in {"open", "closing"}
    /\ naps = 0 => \A d \in Device : \A s \in SocketsOf(sock, d) : held[d] = s[2] => d \in WillShow(c)

\* A request waits only while its device has a socket, one whose close is still to be
\* handled counted: a device that goes, however its disconnect, its sweep and a
\* replacement meet, leaves none waiting. It need not be the socket that the request was
\* sent over: one that was sent over a replaced socket is left to its timeout, unless the
\* device goes before.
RpcHasSocket ==
  \A r \in Rpc : pending[r] # None =>
    \E n \in 1 .. MaxConn : sock[<<pending[r], n>>].st \in {"open", "closing"}

\* The replacement, the silence and the return of a daemon's sockets leave both true.
HubKnowsWhoIsHere == PresenceIsTrue /\ RpcHasSocket

\* The hub knows which thread a connected tab shows (a push about it is skipped).
ViewingIsTrue ==
  \A c \in Client : Connected(c) => sock[Here(c)].viewing = tab[c].shown

Signals(s) == Cardinality({i \in DOMAIN inbox[s] : inbox[s][i].t = "signal"})

\* Once its sessions are revoked here, a tab is sent no answer of a daemon, not even
\* to an offer whose session was read before, or over a socket accepted after.
SignedOutStaysOut ==
  [][\A c \in Client, n \in 1 .. MaxTab :
       session[c] = "revoked" => Signals(<<c, n>>)' <= Signals(<<c, n>>)]_hubVars

\* A daemon that is never heard of again does not stay online for a connected tab.
SilentGoesOffline ==
  \A c \in Client, d \in Device :
    ~ <>[](Connected(c) /\ d \in tab[c].online /\ SocketsOf(sock, d) = {})
=============================================================================
