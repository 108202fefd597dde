-------------------------------- MODULE Tunnel --------------------------------
(* One connection of a web tab to a port of a device. The desktop shell's     *)
(* proxy (apps/desktop/src/proxy.ts, main.ts) hands it to the app's page, the *)
(* page (apps/web/src/lib/desktop-tunnels.ts) to the daemon on a tcp: channel, *)
(* and the daemon (daemon/internal/plugins/tunnel) to the port. Of the bytes it *)
(* is only told how many chunks the tab has written and who has yet to pass    *)
(* them on; what the port says only fills the queues, and is left out.         *)
EXTENDS Integers, Sequences, FiniteSets

CONSTANTS
  MaxUp,      \* bound on chunks the tab writes
  HighWater,  \* HIGH_WATER, in chunks
  LowWater,   \* bufferedAmountLowThreshold
  MaxLoad     \* bound on reloads of the app's page and on frames it loads

ASSUME WaterAssumption == HighWater \in Nat /\ LowWater \in 0 .. HighWater
ASSUME TunnelAssumption == {MaxUp, MaxLoad} \subseteq Nat

VARIABLES
  stream,    \* the shell's TunnelStream
  toPage,    \* what the shell has sent to the page
  fromPage,  \* what the page has sent to the shell
  loading,   \* the app's page, or a frame in it, is loading (isLoading)
  loads,
  relay,     \* what the page keeps for the connection
  line,      \* the channel's transport
  up,        \* what the page has sent on the channel
  down,      \* what the daemon has sent on it
  serve,     \* the daemon's serve
  dropped    \* history: the shell dropped a message for a page that was there

tunnelVars == <<stream, toPage, fromPage, loading, loads, relay, line, up, down, serve, dropped>>

ToPageMsg == [t : {"open", "data", "close"}]
FromPageMsg == [t : {"opened"}] \cup [t : {"closed"}, error : BOOLEAN] \cup [t : {"pause"}, on : BOOLEAN]
\* fin: the channel's end, after all that was sent before it was closed.
UpMsg == [t : {"dial", "data", "fin"}]
DownMsg == [t : {"open", "end", "error", "fin"}]

\* held: a write waits for its callback.
StreamState == [st : {"none", "opening", "open", "gone"}, paused : BOOLEAN, held : BOOLEAN, wrote : 0 .. MaxUp]
\* holds: the tunnel holds the device's connection. ch: it has a channel; open, that
\* is; isOpen, the port too. low: bufferedamountlow is about to fire.
RelayState == [st : {"none", "waiting", "over"}, holds : BOOLEAN, ch : BOOLEAN, open : BOOLEAN,
               isOpen : BOOLEAN, low : BOOLEAN]
\* watch: the goroutine that waits for the channel's context is still there. A
\* connection is broken once a write to it has failed.
ServeState == [ctx : {"none", "live", "done"}, watch : BOOLEAN, dial : {"no", "dialing", "pumping", "over"},
               conn : {"none", "open", "broken", "closed"}]

NoRelay == [st |-> "none", holds |-> FALSE, ch |-> FALSE, open |-> FALSE, isOpen |-> FALSE, low |-> FALSE]

TunnelInit ==
  /\ stream = [st |-> "none", paused |-> FALSE, held |-> FALSE, wrote |-> 0]
  /\ toPage = <<>> /\ fromPage = <<>> /\ loading = FALSE /\ loads = 0
  /\ relay = NoRelay
  /\ line = "none" /\ up = <<>> /\ down = <<>>
  /\ serve = [ctx |-> "none", watch |-> FALSE, dial |-> "no", conn |-> "none"]
  /\ dropped = FALSE

shellVars == <<stream, toPage, fromPage, loading, loads>>
wireVars == <<line, up, down>>

-----------------------------------------------------------------------------
(* The shell. *)

\* main.ts's send: nothing is sent while anything in the app's window loads.
Sends(m) ==
  /\ toPage' = IF loading THEN toPage ELSE Append(toPage, m)
  /\ dropped' = (dropped \/ (loading /\ (relay.st # "none" \/ toPage # <<>>)))

Open ==
  /\ stream.st = "none"
  /\ stream' = [stream EXCEPT !.st = "opening"]
  /\ Sends([t |-> "open"])
  /\ fromPage' = IF loading THEN Append(fromPage, [t |-> "closed", error |-> TRUE]) ELSE fromPage
  /\ UNCHANGED <<loading, loads, relay, wireVars, serve>>

\* open's timer, and Duplex.destroy: the proxy's client has gone.
Destroy ==
  /\ stream.st \in {"opening", "open"}
  /\ stream' = [stream EXCEPT !.st = "gone"]
  /\ Sends([t |-> "close"])
  /\ UNCHANGED <<fromPage, loading, loads, relay, wireVars, serve>>

Write ==
  /\ stream.st = "open" /\ ~stream.held /\ stream.wrote < MaxUp
  /\ stream' = [stream EXCEPT !.wrote = @ + 1, !.held = stream.paused]
  /\ Sends([t |-> "data"])
  /\ UNCHANGED <<fromPage, loading, loads, relay, wireVars, serve>>

\* Tunnels' opened, pause and closed.
ShellReads ==
  /\ fromPage # <<>>
  /\ fromPage' = Tail(fromPage)
  /\ LET m == Head(fromPage)
         opening == stream.st = "opening"
         refused == opening /\ m.t = "closed"
     IN /\ stream' = CASE opening /\ m.t = "opened" -> [stream EXCEPT !.st = "open"]
                       [] refused -> [stream EXCEPT !.st = "gone"]
                       [] stream.st = "open" /\ m.t = "pause" ->
                            [stream EXCEPT !.paused = m.on, !.held = @ /\ m.on]
                       [] stream.st = "open" /\ m.t = "closed" -> [stream EXCEPT !.st = "gone"]
                       [] OTHER -> stream
        /\ IF refused THEN Sends([t |-> "close"]) ELSE UNCHANGED <<toPage, dropped>>
  /\ UNCHANGED <<loading, loads, relay, wireVars, serve>>

\* A frame in the app's page loads (a plugin's, a dashboard's), or something has loaded.
FrameLoads ==
  /\ ~loading /\ loads < MaxLoad
  /\ loading' = TRUE /\ loads' = loads + 1
  /\ UNCHANGED <<stream, toPage, fromPage, relay, wireVars, serve, dropped>>

Loaded ==
  /\ loading /\ loading' = FALSE
  /\ UNCHANGED <<stream, toPage, fromPage, loads, relay, wireVars, serve, dropped>>

-----------------------------------------------------------------------------
(* The channel. *)

Up(m) == up' = IF line = "up" THEN Append(up, m) ELSE up
Down(msgs) == down' = IF line = "up" THEN down \o msgs ELSE down
\* bufferedAmount.
Unsent(q) == Cardinality({i \in DOMAIN q : q[i].t = "data"})

\* The network fails, or an end goes: what was under way arrives up to some point.
Cuts(upTo, downTo) ==
  /\ line' = "lost"
  /\ up' = IF line = "up" THEN SubSeq(up, 1, upTo) \o <<[t |-> "fin"]>> ELSE up
  /\ down' = IF line = "up" THEN SubSeq(down, 1, downTo) \o <<[t |-> "fin"]>> ELSE down

LineLost ==
  /\ line = "up"
  /\ \E i \in 0 .. Len(up), j \in 0 .. Len(down) : Cuts(i, j)
  /\ UNCHANGED <<shellVars, relay, serve, dropped>>

\* The app's page reloads or crashes: closeAll, and whatever the page had is gone.
AppReloads ==
  /\ loads < MaxLoad
  /\ loads' = loads + 1 /\ loading' = TRUE
  /\ stream' = IF stream.st \in {"opening", "open"} THEN [stream EXCEPT !.st = "gone"] ELSE stream
  /\ toPage' = <<>> /\ fromPage' = <<>>
  /\ relay' = [NoRelay EXCEPT !.st = "over"]
  /\ \E i \in 0 .. Len(up) : Cuts(i, 0)
  /\ UNCHANGED <<serve, dropped>>

-----------------------------------------------------------------------------
(* The page. *)

\* end: the channel's handlers are taken off and it is closed.
TunnelEnded(error) ==
  /\ relay' = [NoRelay EXCEPT !.st = "over"]
  /\ IF relay.ch THEN Up([t |-> "fin"]) ELSE UNCHANGED up
  /\ fromPage' = Append(fromPage, [t |-> "closed", error |-> error])

\* Fault: it is held for all that is unsent.
SendDataHolds ==
  /\ Up([t |-> "data"])
  /\ fromPage' = IF Unsent(up') > 0 THEN Append(fromPage, [t |-> "pause", on |-> TRUE]) ELSE fromPage

SendData ==
  /\ Up([t |-> "data"])
  /\ fromPage' = IF Unsent(up') > HighWater THEN Append(fromPage, [t |-> "pause", on |-> TRUE]) ELSE fromPage

PageReads ==
  /\ toPage # <<>>
  /\ toPage' = Tail(toPage)
  /\ LET m == Head(toPage) IN
       \/ /\ m.t = "open"
          /\ relay' = [relay EXCEPT !.st = "waiting", !.holds = TRUE]
          /\ UNCHANGED <<fromPage, up>>
       \/ /\ m.t = "data"
          /\ IF relay.ch /\ relay.open THEN SendData ELSE UNCHANGED <<fromPage, up>>
          /\ UNCHANGED relay
       \/ /\ m.t = "close"
          /\ relay' = [relay EXCEPT !.holds = FALSE, !.ch = FALSE]
          /\ IF relay.ch THEN Up([t |-> "fin"]) ELSE UNCHANGED up
          /\ UNCHANGED fromPage
  /\ UNCHANGED <<stream, loading, loads, line, down, serve, dropped>>

\* connected has resolved: unless it was closed meanwhile, the channel is opened.
PeerConnected ==
  /\ relay.st = "waiting"
  /\ relay' = [relay EXCEPT !.st = "over", !.ch = relay.holds]
  /\ line' = IF relay.holds THEN "up" ELSE line
  /\ UNCHANGED <<shellVars, up, down, serve, dropped>>

\* connected has rejected or timed out, or openChannel has thrown.
PeerFails ==
  /\ relay.st = "waiting"
  /\ TunnelEnded(TRUE)
  /\ UNCHANGED <<stream, toPage, loading, loads, line, down, serve, dropped>>

\* onopen: the daemon serves the channel, or refuses it.
ChannelOpens ==
  /\ relay.ch /\ ~relay.open /\ line = "up"
  /\ relay' = [relay EXCEPT !.open = TRUE]
  /\ Up([t |-> "dial"])
  /\ \/ serve' = [serve EXCEPT !.ctx = "live", !.watch = TRUE] /\ UNCHANGED down
     \/ Down(<<[t |-> "fin"]>>) /\ UNCHANGED serve
  /\ UNCHANGED <<shellVars, line, dropped>>

\* onmessage and onclose. The page's close takes only onclose off.
PageHears ==
  /\ down # <<>>
  /\ down' = Tail(down)
  /\ LET m == Head(down) IN
       \/ ~relay.ch /\ UNCHANGED <<relay, fromPage, up>>
       \/ /\ relay.ch /\ m.t = "open"
          /\ relay' = [relay EXCEPT !.isOpen = TRUE]
          /\ fromPage' = Append(fromPage, [t |-> "opened"]) /\ UNCHANGED up
       \/ relay.ch /\ m.t = "end" /\ TunnelEnded(FALSE)
       \/ relay.ch /\ m.t = "error" /\ TunnelEnded(TRUE)
       \/ relay.ch /\ m.t = "fin" /\ TunnelEnded(~relay.isOpen)
  /\ UNCHANGED <<stream, toPage, loading, loads, line, serve, dropped>>

LowFires ==
  /\ relay.low
  /\ relay' = [relay EXCEPT !.low = FALSE]
  /\ fromPage' = IF relay.ch THEN Append(fromPage, [t |-> "pause", on |-> FALSE]) ELSE fromPage
  /\ UNCHANGED <<stream, toPage, loading, loads, wireVars, serve, dropped>>

-----------------------------------------------------------------------------
(* The daemon. *)

\* OnMessage, and OnClose, which cancels the channel's context.
DaemonHears ==
  /\ up # <<>> /\ serve.ctx # "none"
  /\ up' = Tail(up)
  /\ relay' = [relay EXCEPT !.low = @ \/ (relay.ch /\ Unsent(up) = LowWater + 1 /\ Unsent(up') = LowWater)]
  /\ LET m == Head(up) IN
       \/ m.t = "fin" /\ serve' = [serve EXCEPT !.ctx = "done"] /\ UNCHANGED down
       \/ m.t = "dial" /\ serve' = [serve EXCEPT !.dial = "dialing"] /\ UNCHANGED down
       \/ m.t = "data" /\ serve.conn = "open" /\ UNCHANGED <<serve, down>>
       \/ /\ m.t = "data" /\ serve.conn # "none"  \* the write fails
          /\ serve' = [serve EXCEPT !.conn = IF @ = "open" THEN "broken" ELSE @]
          /\ Down(<<[t |-> "fin"]>>)
  /\ UNCHANGED <<shellVars, line, dropped>>

\* The connection is there. (The shell writes nothing before it hears "open", so nothing
\* that came earlier is pending.)
DialConnects ==
  /\ serve' = [serve EXCEPT !.dial = "pumping", !.conn = "open"]
  /\ Down(<<[t |-> "open"]>>)

\* Fault: a channel that closed while it dialed is not looked for.
DialedLate ==
  /\ serve.dial = "dialing" /\ DialConnects
  /\ UNCHANGED <<shellVars, relay, line, up, dropped>>

\* The dial goroutine: connected, unless the channel has closed meanwhile.
Dialed ==
  /\ serve.dial = "dialing"
  /\ \/ serve.ctx = "done" /\ serve' = [serve EXCEPT !.dial = "over"] /\ UNCHANGED down
     \/ serve.ctx = "live" /\ DialConnects
  /\ UNCHANGED <<shellVars, relay, line, up, dropped>>

DialFails ==
  /\ serve.dial = "dialing"
  /\ serve' = [serve EXCEPT !.dial = "over"]
  /\ Down(<<[t |-> "error"], [t |-> "fin"]>>)
  /\ UNCHANGED <<shellVars, relay, line, up, dropped>>

\* pump returns: the port has closed its side, or ours is closed.
PumpEnds ==
  /\ serve.dial = "pumping"
  /\ serve' = [serve EXCEPT !.dial = "over", !.conn = "closed"]
  /\ Down(<<[t |-> "end"], [t |-> "fin"]>>)
  /\ UNCHANGED <<shellVars, relay, line, up, dropped>>

\* The goroutine that waits for the context.
WatchEnds ==
  /\ serve.watch /\ serve.ctx = "done"
  /\ serve' = [serve EXCEPT !.watch = FALSE, !.conn = IF @ = "none" THEN @ ELSE "closed"]
  /\ UNCHANGED <<shellVars, relay, wireVars, dropped>>

-----------------------------------------------------------------------------

TunnelNext ==
  \/ Open \/ Destroy \/ Write \/ ShellReads \/ FrameLoads \/ Loaded \/ LineLost \/ AppReloads
  \/ PageReads \/ PeerConnected \/ PeerFails \/ ChannelOpens \/ PageHears \/ LowFires
  \/ DaemonHears \/ Dialed \/ DialFails \/ PumpEnds \/ WatchEnds

TunnelSpec == TunnelInit /\ [][TunnelNext]_tunnelVars

TunnelTypeOK ==
  /\ stream \in StreamState /\ relay \in RelayState /\ serve \in ServeState
  /\ toPage \in Seq(ToPageMsg) /\ fromPage \in Seq(FromPageMsg)
  /\ line \in {"none", "up", "lost"} /\ up \in Seq(UpMsg) /\ down \in Seq(DownMsg)
  /\ {loading, dropped} \subseteq BOOLEAN /\ loads \in 0 .. MaxLoad

\* A connection that the tab has let go of is let go of all along the way, once what is
\* under way has arrived: the page no longer holds the device's connection, the
\* daemon no longer the port, whatever was being awaited, dialed or written. Not
\* claimed once the shell has dropped a message for a page that was there (main.ts sends
\* nothing while anything of the window loads).
TunnelsLetGo ==
  (/\ stream.st = "gone" /\ ~dropped
   /\ toPage = <<>> /\ fromPage = <<>> /\ up = <<>> /\ down = <<>> /\ serve.dial # "dialing"
   /\ ~(serve.watch /\ serve.ctx = "done"))
  => ~relay.holds /\ serve.conn \in {"none", "closed"}

\* Whether the tab's writing is held, once the shell has read ms of the page.
PausesIn(ms) == {i \in DOMAIN ms : ms[i].t = "pause"}
WillHold(paused, ms) ==
  \/ paused /\ PausesIn(ms) = {}
  \/ \E i \in PausesIn(ms) : ms[i].on /\ \A j \in PausesIn(ms) : j <= i

\* A tab whose writing is held will be let go on: what it was held for is still
\* unsent, or the event that it has been sent is on its way, unless the channel is lost.
PauseEnds ==
  /\ stream.held => stream.paused
  /\ stream.st = "open" /\ relay.ch /\ line = "up" /\ WillHold(stream.paused, fromPage)
     => Unsent(up) > LowWater \/ relay.low

\* Nothing is held for good: neither what the tab has let go of, nor its writing.
HoldsEnd == TunnelsLetGo /\ PauseEnds
=============================================================================
