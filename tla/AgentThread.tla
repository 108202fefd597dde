---------------------------- MODULE AgentThread ----------------------------
(* A tab's copy of one agent thread (apps/web/src/lib/agent.ts): a channel    *)
(* replays the daemon's log after the last event seen, live events follow,    *)
(* older ones come in pages. The copy outlives the channels that feed it. The *)
(* daemon's end (agent/session.go) handles one request at a time.             *)
EXTENDS Integers, FiniteSets, Sequences

CONSTANTS
  FirstPage,    \* FIRST_PAGE
  EarlierPage,  \* EARLIER_PAGE
  ReplayLimit,  \* replayLimit: the most the daemon replays
  MaxEvents,    \* bound on events ever logged
  MaxChannels   \* bound on channels opened

ASSUME PageAssumption ==
  /\ FirstPage \in Nat \ {0} /\ EarlierPage \in Nat \ {0} /\ ReplayLimit \in Nat \ {0}
  /\ MaxEvents \in Nat /\ MaxChannels \in Nat

VARIABLES
  threadLog,  \* the daemon's log
  lastSeqno,  \* events ever logged
  client,     \* whether the daemon has the tab's channel among its clients
  toThread,   \* what the tab has sent on its channel
  toView,     \* what the daemon has sent on it
  view,       \* the tab's AgentThreadStore
  channels,   \* channels opened
  torn        \* history: a replay over the daemon's cap was cut short

threadVars == <<threadLog, lastSeqno, client, toThread, toView, view, channels, torn>>

Seqno == 1 .. MaxEvents
\* An event: a rewind if from is not 0, of everything since the event from.
LoggedEvent == [seq : Seqno, from : 0 .. MaxEvents]
ClientMsg == [t : {"attach"}, after : 0 .. MaxEvents, limit : Nat \ {0}]
             \cup [t : {"history"}, before : Seqno, limit : Nat \ {0}]
DaemonMsg == [t : {"event"}, event : LoggedEvent] \cup [t : {"synced"}, truncated : BOOLEAN]
             \cup [t : {"history"}, events : Seq(LoggedEvent), more : BOOLEAN]
\* replaying: replay is not null.
ViewState ==
  [channel : {"none", "opening", "open", "closed"}, events : Seq(LoggedEvent), lastSeq : 0 .. MaxEvents,
   replaying : BOOLEAN, replay : Seq(LoggedEvent), replayFrom : 0 .. MaxEvents, synced : BOOLEAN,
   truncated : BOOLEAN, loadingEarlier : BOOLEAN]

ThreadInit ==
  /\ threadLog = {} /\ lastSeqno = 0
  /\ client = FALSE /\ toThread = <<>> /\ toView = <<>>
  /\ view = [channel |-> "none", events |-> <<>>, lastSeq |-> 0, replaying |-> FALSE,
             replay |-> <<>>, replayFrom |-> 0, synced |-> FALSE, truncated |-> FALSE,
             loadingEarlier |-> FALSE]
  /\ channels = 0 /\ torn = FALSE

-----------------------------------------------------------------------------
(* The daemon. *)

Broadcast1(e) == toView' = IF client THEN Append(toView, [t |-> "event", event |-> e]) ELSE toView

\* emit: a new event is logged, and sent to whoever is attached.
Emit ==
  /\ lastSeqno < MaxEvents
  /\ LET e == [seq |-> lastSeqno + 1, from |-> 0]
     IN threadLog' = threadLog \cup {e} /\ Broadcast1(e)
  /\ lastSeqno' = lastSeqno + 1
  /\ UNCHANGED <<client, toThread, view, channels, torn>>

\* rewind: logged before the cut, so that seqs keep counting up from it.
RewindTo(p) ==
  /\ lastSeqno < MaxEvents /\ p \in threadLog /\ p.from = 0
  /\ LET e == [seq |-> lastSeqno + 1, from |-> p.seq]
     IN threadLog' = {x \in threadLog : x.seq < p.seq} \cup {e} /\ Broadcast1(e)
  /\ lastSeqno' = lastSeqno + 1
  /\ UNCHANGED <<client, toThread, view, channels, torn>>

\* A set of numbers from the least on, and what is left of es when only the places of
\* keep are kept (SetToSortSeq and SelectSeq, without their recursion).
InOrder(S) == [k \in 1 .. Cardinality(S) |-> CHOOSE n \in S : Cardinality({m \in S : m < n}) = k - 1]
Where(es, keep) == [k \in 1 .. Cardinality(keep) |-> es[InOrder(keep)[k]]]

\* AgentEvents: the newest events of S, oldest first.
Newest(S, limit) ==
  LET newest == {e \in S : Cardinality({f \in S : f.seq > e.seq}) < limit}
      seqs == InOrder({e.seq : e \in newest})
  IN [k \in DOMAIN seqs |-> CHOOSE e \in newest : e.seq = seqs[k]]

\* attach: the replay, then live events.
ServeAttach(m) ==
  LET S == {e \in threadLog : e.seq > m.after}
      page == Newest(S, m.limit)
  IN /\ client' = TRUE
     /\ toView' = toView \o [i \in DOMAIN page |-> [t |-> "event", event |-> page[i]]]
                         \o <<[t |-> "synced", truncated |-> Len(page) < Cardinality(S)]>>

ServeHistory(m) ==
  LET S == {e \in threadLog : e.seq < m.before}
      page == Newest(S, m.limit)
  IN /\ toView' = Append(toView, [t |-> "history", events |-> page, more |-> Len(page) < Cardinality(S)])
     /\ UNCHANGED client

ServeThread ==
  /\ view.channel = "open" /\ toThread # <<>>
  /\ LET m == Head(toThread) IN IF m.t = "attach" THEN ServeAttach(m) ELSE ServeHistory(m)
  /\ toThread' = Tail(toThread)
  /\ UNCHANGED <<threadLog, lastSeqno, view, channels, torn>>

-----------------------------------------------------------------------------
(* AgentThreadStore. *)

\* A replay that leaves a gap behind what the tab had.
Gap(v) == v.replaying /\ v.replayFrom > 0 /\ v.replay # <<>>
          /\ \E e \in threadLog : v.replayFrom < e.seq /\ e.seq < Head(v.replay).seq

\* Fault: a replay that was cut short is dropped.
DisconnectedDrops(v) ==
  [v EXCEPT !.channel = "none", !.replaying = FALSE, !.replay = <<>>]

\* disconnect: what a cut-short replay delivered is kept, lastSeq already counts it.
Disconnected(v) ==
  [v EXCEPT !.channel = "none", !.replaying = FALSE, !.replay = <<>>, !.events = @ \o v.replay]

Wires == client' = FALSE /\ toThread' = <<>> /\ toView' = <<>>

DisconnectThread ==
  /\ view.channel # "none"
  /\ view' = Disconnected(view) /\ Wires
  /\ torn' = (torn \/ Gap(view))
  /\ UNCHANGED <<threadLog, lastSeqno, channels>>

\* connect, which may find the device not connected.
ConnectThread ==
  /\ channels < MaxChannels /\ channels' = channels + 1
  /\ \E ch \in {"opening", "none"} : view' = [Disconnected(view) EXCEPT !.channel = ch]
  /\ Wires
  /\ torn' = (torn \/ Gap(view))
  /\ UNCHANGED <<threadLog, lastSeqno>>

\* onOpen: attach after the last event seen.
ThreadOpens ==
  /\ view.channel = "opening"
  /\ view' = [view EXCEPT !.channel = "open", !.replaying = TRUE, !.replay = <<>>, !.replayFrom = view.lastSeq,
                          !.synced = FALSE, !.loadingEarlier = FALSE]
  /\ toThread' = <<[t |-> "attach", after |-> view.lastSeq,
                    limit |-> IF view.lastSeq > 0 THEN ReplayLimit ELSE FirstPage]>>
  /\ UNCHANGED <<threadLog, lastSeqno, client, toView, channels, torn>>

\* onClose: the replay stays until the next connect.
ThreadCloses ==
  /\ view.channel \in {"opening", "open"}
  /\ view' = [view EXCEPT !.channel = "closed"] /\ Wires
  /\ UNCHANGED <<threadLog, lastSeqno, channels, torn>>

Kept(es, r) == Where(es, {i \in DOMAIN es : es[i].seq < r.from \/ es[i].seq >= r.seq})

OnEvent(v, e) ==
  IF e.seq <= v.lastSeq THEN v
  ELSE LET w == IF e.from = 0 THEN v
                ELSE [v EXCEPT !.events = Kept(@, e), !.replay = Kept(@, e)]
       IN IF v.replaying THEN [w EXCEPT !.lastSeq = e.seq, !.replay = Append(@, e)]
                         ELSE [w EXCEPT !.lastSeq = e.seq, !.events = Append(@, e)]

\* Too much was missed to fill the gap: start over from the newest events.
OnSynced(v, truncated) ==
  LET gap == truncated /\ v.replayFrom > 0
  IN [v EXCEPT !.replaying = FALSE, !.replay = <<>>, !.synced = TRUE,
               !.events = IF gap THEN v.replay ELSE @ \o v.replay,
               !.truncated = gap \/ @ \/ truncated]

OnHistory(v, m) ==
  LET older == Where(m.events, {i \in DOMAIN m.events : v.events = <<>> \/ m.events[i].seq < Head(v.events).seq})
  IN [v EXCEPT !.events = older \o @, !.truncated = m.more, !.loadingEarlier = FALSE]

ViewReads ==
  /\ view.channel = "open" /\ toView # <<>>
  /\ LET m == Head(toView)
     IN view' = CASE m.t = "event" -> OnEvent(view, m.event)
                  [] m.t = "synced" -> OnSynced(view, m.truncated)
                  [] m.t = "history" -> OnHistory(view, m)
  /\ toView' = Tail(toView)
  /\ UNCHANGED <<threadLog, lastSeqno, client, toThread, channels, torn>>

LoadEarlier ==
  /\ view.events # <<>> /\ view.truncated /\ ~view.loadingEarlier /\ view.synced
  /\ view.channel = "open"
  /\ toThread' = Append(toThread, [t |-> "history", before |-> Head(view.events).seq, limit |-> EarlierPage])
  /\ view' = [view EXCEPT !.loadingEarlier = TRUE]
  /\ UNCHANGED <<threadLog, lastSeqno, client, toView, channels, torn>>

ThreadNext ==
  \/ Emit \/ (\E p \in threadLog : RewindTo(p)) \/ ServeThread
  \/ DisconnectThread \/ ConnectThread \/ ThreadOpens \/ ThreadCloses
  \/ ViewReads \/ LoadEarlier

ThreadSpec == ThreadInit /\ [][ThreadNext]_threadVars

-----------------------------------------------------------------------------

ThreadTypeOK ==
  /\ threadLog \subseteq LoggedEvent /\ lastSeqno \in 0 .. MaxEvents
  /\ client \in BOOLEAN
  /\ toThread \in Seq(ClientMsg) /\ toView \in Seq(DaemonMsg)
  /\ view \in ViewState
  /\ channels \in 0 .. MaxChannels /\ torn \in BOOLEAN

\* What the tab shows, or will at the end of a replay that goes on, is in order,
\* nothing twice. Unless a replay that left a gap was cut short, it has no hole, and
\* once everything sent has been read, nothing in it that the daemon rolled back:
\* over reconnects in mid-replay, pages of history and rewinds in any order.
ViewIsTheLog ==
  LET shown == view.events \o view.replay
      Has(e) == \E i \in DOMAIN shown : shown[i] = e
  IN /\ \A i, j \in DOMAIN shown : (i < j => shown[i].seq < shown[j].seq)
     /\ (shown # <<>> /\ ~torn /\ ~Gap(view)) =>
          \A e \in threadLog : (Head(shown).seq <= e.seq /\ e.seq <= view.lastSeq) => Has(e)
     /\ (view.synced /\ client /\ toView = <<>> /\ ~torn) => \A i \in DOMAIN shown : shown[i] \in threadLog
=============================================================================
