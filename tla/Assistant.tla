------------------------------ MODULE Assistant ------------------------------
(* The assistant's conversation: the Durable Object that keeps its log and   *)
(* lends one tab the right to run turns (apps/worker/src/assistant.ts), and   *)
(* each tab's copy of the log and its runner (apps/web/src/lib/assistant).    *)
(* A connection is a pair <<tab, n>>; what its two ends have sent and not yet *)
(* read is toServer[c] and, for a tab's present connection, toTab[t].         *)
EXTENDS Integers, FiniteSets, Sequences, SequencesExt

CONSTANTS
  Tab,       \* browser tabs
  Prompt,    \* what users ask, each once
  MaxSeq,    \* bound on entries ever logged
  MaxConn,   \* bound on connections of all tabs
  MaxClear,  \* bound on clears asked for
  MaxFault,  \* bound on answers that come too late and on agents that throw
  None       \* no connection

ASSUME BoundAssumption ==
  MaxSeq \in Nat /\ MaxConn \in Nat \ {0} /\ MaxClear \in Nat
  /\ MaxFault \in Nat
ASSUME NoneAssumption == None \notin Tab \X (1 .. MaxConn)
ASSUME TabAssumption == IsFiniteSet(Tab)

VARIABLES
  db,        \* what the Durable Object stores
  open,      \* connections whose socket is open at the server
  toServer,  \* by connection, what the server has yet to read
  toTab,     \* by tab, what the tab has yet to read
  tab,       \* by tab: its AssistantSync and its AssistantRunner
  asked,     \* history: prompts asked
  lost,      \* history: prompts that went down with a connection
  clears,    \* clears asked for
  faults     \* late answers and thrown errors

vars == <<db, open, toServer, toTab, tab, asked, lost, clears, faults>>

Conn == Tab \X (1 .. MaxConn)
Seqs == 1 .. MaxSeq
\* A logged entry: a compaction if it stands for the entries through a seq.
Entry == [seq : Seqs, through : 0 .. MaxSeq]
Db == [log : SUBSET Entry, last : 0 .. MaxSeq, cleared : 0 .. MaxSeq,
       runner : Conn \cup {None}]
Stage == {"idle", "claiming", "turn", "saving", "summarizing", "folding"}

ToServer ==
  [t : {"attach"}, after : 0 .. MaxSeq] \cup [t : {"append"}, through : 0 .. MaxSeq]
  \cup [t : {"claim", "release", "clear"}]
  \cup [t : {"steer"}, p : Prompt] \cup [t : {"history"}, before : Seqs]
ToTab ==
  [t : {"hello"}, runner : Conn \cup {None}, cleared : 0 .. MaxSeq]
  \cup [t : {"entries"}, entries : SUBSET Entry, initial : BOOLEAN]
  \cup [t : {"synced", "appended", "clearFailed"}] \cup [t : {"runner"}, runner : Conn \cup {None}]
  \cup [t : {"steer", "noRunner"}, p : Prompt]
  \cup [t : {"cleared"}, through : 0 .. MaxSeq]
  \cup [t : {"history"}, entries : SUBSET Entry, more : BOOLEAN]

\* status .. appends are the snapshot and promises of AssistantSync, stage .. queue
\* the runner and its agent. took, dropped and torn are history: prompts the agent
\* was given here, prompts the user was refused or stopped, and whether a connection
\* ended before its replay, when the tab had heard of entries past those it missed.
\* out is what an action has the tab send.
TabState ==
  [n : 0 .. MaxConn, status : {"closed", "connecting", "open"}, me : Conn \cup {None},
   runner : Conn \cup {None}, entries : SUBSET Entry, synced : BOOLEAN,
   hasEarlier : BOOLEAN, loading : BOOLEAN, clearedThrough : 0 .. MaxSeq,
   claiming : BOOLEAN, clearing : BOOLEAN, appends : Nat,
   stage : Stage, text : SUBSET Prompt, queue : SUBSET Prompt, fold : 0 .. MaxSeq,
   took : SUBSET Prompt, dropped : SUBSET Prompt, torn : BOOLEAN, out : Seq(ToServer)]

Init ==
  /\ db = [log |-> {}, last |-> 0, cleared |-> 0, runner |-> None]
  /\ open = {}
  /\ toServer = [c \in Conn |-> <<>>]
  /\ toTab = [t \in Tab |-> <<>>]
  /\ tab = [t \in Tab |->
       [n |-> 0, status |-> "closed", me |-> None, runner |-> None, entries |-> {},
        synced |-> FALSE, hasEarlier |-> FALSE, loading |-> FALSE, clearedThrough |-> 0,
        claiming |-> FALSE, clearing |-> FALSE, appends |-> 0,
        stage |-> "idle", text |-> {}, queue |-> {}, fold |-> 0,
        took |-> {}, dropped |-> {}, torn |-> FALSE, out |-> <<>>]]
  /\ asked = {} /\ lost = {}
  /\ clears = 0 /\ faults = 0

-----------------------------------------------------------------------------
(* The tab: AssistantSync. *)

Seqnos(es) == {e.seq : e \in es}
Largest(S) == CHOOSE n \in S \cup {0} : \A m \in S : m <= n
Least(S) == CHOOSE n \in S : \A m \in S : n <= m

Present(t) == <<t, tab[t].n>>
IsRunner(x) == x.me # None /\ x.runner = x.me

\* send returns false, and drops the message, unless the socket is open.
Send(x, m) == IF x.status = "open" THEN [x EXCEPT !.out = Append(@, m)] ELSE x

Release(x) == IF IsRunner(x) THEN Send(x, [t |-> "release"]) ELSE x

AppendEntry(x, through) ==
  IF x.status = "open"
  THEN [Send(x, [t |-> "append", through |-> through]) EXCEPT !.appends = @ + 1]
  ELSE x

(* The tab: AssistantRunner. A prompt and its replies are one entry. *)

\* The end of run: what is left in the agent's queue stays there.
Finish(x) == [Release(x) EXCEPT !.stage = "idle", !.text = {}]

\* run, once claim has said yes: the context is built and the agent takes the prompt.
StartTurn(x) ==
  AppendEntry([x EXCEPT !.stage = "turn", !.took = @ \cup x.text, !.text = {}], 0)

\* Fault: a prompt whose claim was denied is let go of.
GiveUpSilently(x) == Finish(x)

\* run, once claim has said no: the prompt goes to whoever runs the turn.
GiveUp(x) ==
  Finish(IF x.status = "open"
         THEN Send(x, [t |-> "steer", p |-> CHOOSE p \in x.text : TRUE])
         ELSE [x EXCEPT !.dropped = @ \cup x.text])

\* run: while busy the prompt joins the agent's queue.
Run(x, p) ==
  IF x.stage # "idle" THEN [x EXCEPT !.queue = @ \cup {p}]
  ELSE LET y == [x EXCEPT !.stage = "claiming", !.text = {p}]
       IN CASE IsRunner(y) -> StartTurn(y)
            [] ~IsRunner(y) /\ y.status = "open" ->
                 [Send(y, [t |-> "claim"]) EXCEPT !.claiming = TRUE]
            [] OTHER -> GiveUp(y)

\* prompt: another tab's turn takes it as its next message.
Ask(x, p) ==
  IF x.runner # None /\ x.runner # x.me /\ x.status = "open"
  THEN Send(x, [t |-> "steer", p |-> p])
  ELSE Run(x, p)

\* The promise of claim settles with granted.
Claimed(x, granted) ==
  IF ~x.claiming THEN x
  ELSE LET y == [x EXCEPT !.claiming = FALSE]
       IN IF granted THEN StartTurn(y) ELSE GiveUp(y)

-----------------------------------------------------------------------------
(* handle: the tab reads a message. The promises that a message settles run   *)
(* on after the snapshot is updated.                                          *)

\* Fault: what was cleared while the tab was away is kept.
OnHelloKeeps(x, m, c) ==
  [x EXCEPT !.me = c, !.runner = m.runner, !.clearedThrough = m.cleared]

OnHello(x, m, c) ==
  [x EXCEPT !.me = c, !.runner = m.runner, !.clearedThrough = m.cleared,
            !.entries = {e \in @ : e.seq > m.cleared}]

OnEntries(x, m) ==
  LET es == x.entries \cup m.entries
  IN [x EXCEPT !.entries = es,
               !.hasEarlier = IF m.initial /\ x.entries = {}
                              THEN es # {} /\ Least(Seqnos(es)) > x.clearedThrough + 1
                              ELSE @]

OnRunner(x, r) ==
  Claimed([x EXCEPT !.runner = r], r # None /\ r = x.me)

OnCleared(x, m) ==
  [x EXCEPT !.entries = {e \in @ : e.seq > m.through}, !.hasEarlier = FALSE,
            !.clearing = FALSE, !.clearedThrough = m.through]

Handled(x, m, c) ==
  CASE m.t = "hello" -> OnHello(x, m, c)
    [] m.t = "entries" -> OnEntries(x, m)
    [] m.t = "synced" -> [x EXCEPT !.synced = TRUE]
    [] m.t = "history" ->
         [x EXCEPT !.loading = FALSE, !.entries = @ \cup m.entries, !.hasEarlier = m.more]
    [] m.t = "appended" -> [x EXCEPT !.appends = IF @ = 0 THEN 0 ELSE @ - 1]
    [] m.t = "runner" -> OnRunner(x, m.runner)
    [] m.t \in {"steer", "noRunner"} -> Run(x, m.p)
    [] m.t = "cleared" -> OnCleared(x, m)
    [] m.t = "clearFailed" -> [x EXCEPT !.clearing = FALSE]

-----------------------------------------------------------------------------
(* Steps of a tab. *)

\* The tab becomes x; what x has to send is sent.
Becomes(t, x) ==
  /\ tab' = [tab EXCEPT ![t] = [x EXCEPT !.out = <<>>]]
  /\ toServer' = IF x.out = <<>> THEN toServer
                 ELSE [toServer EXCEPT ![Present(t)] = @ \o x.out]

TabOnly(t, x) == Becomes(t, x) /\ UNCHANGED <<db, open, toTab, asked, lost, clears, faults>>

Fault(t, x) ==
  /\ faults < MaxFault /\ faults' = faults + 1
  /\ Becomes(t, x) /\ UNCHANGED <<db, open, toTab, asked, lost, clears>>

Prompts(ms) == {m.p : m \in {k \in ToSet(ms) : k.t \in {"steer", "noRunner"}}}

Connect(t) ==
  /\ tab[t].status = "closed" /\ Cardinality({c \in Conn : c[2] <= tab[c[1]].n}) < MaxConn
  /\ LET c == <<t, tab[t].n + 1>>
         r == IF db.runner \in open THEN db.runner ELSE None
     IN /\ tab' = [tab EXCEPT ![t].n = @ + 1, ![t].status = "connecting"]
        /\ open' = open \cup {c}
        /\ toTab' = [toTab EXCEPT ![t] =
             <<[t |-> "hello", runner |-> r, cleared |-> db.cleared]>>]
  /\ UNCHANGED <<db, toServer, asked, lost, clears, faults>>

\* onopen: attach after the last entry known, if any is.
Opened(t) ==
  /\ tab[t].status = "connecting"
  /\ TabOnly(t, Send([tab[t] EXCEPT !.status = "open", !.synced = FALSE],
                     [t |-> "attach", after |-> Largest(Seqnos(tab[t].entries))]))

Read(t) ==
  /\ tab[t].status = "open" /\ toTab[t] # <<>>
  /\ Becomes(t, Handled(tab[t], Head(toTab[t]), Present(t)))
  /\ toTab' = [toTab EXCEPT ![t] = Tail(@)]
  /\ UNCHANGED <<db, open, asked, lost, clears, faults>>

\* An entry of the log is missing between two of the tab's copy.
Holed(t) ==
  \E e \in db.log \ tab[t].entries :
    \E first, later \in tab[t].entries : first.seq < e.seq /\ e.seq < later.seq

\* onclose: the promises are settled, and what run then does is part of it. The
\* server has received the first k of what was on its way.
Disconnect(t) ==
  /\ tab[t].status # "closed"
  /\ LET c == Present(t)
         x == [tab[t] EXCEPT !.status = "closed", !.synced = FALSE, !.me = None, !.runner = None,
                             !.appends = 0, !.clearing = FALSE, !.loading = FALSE,
                             !.torn = @ \/ (~tab[t].synced /\ Holed(t))]
     IN /\ tab' = [tab EXCEPT ![t] = Claimed(x, FALSE)]
        /\ \E k \in 0 .. Len(toServer[c]) :
             /\ toServer' = [toServer EXCEPT ![c] = SubSeq(@, 1, k)]
             /\ lost' = lost \cup Prompts(toTab[t])
                            \cup Prompts(SubSeq(toServer[c], k + 1, Len(toServer[c])))
        /\ toTab' = [toTab EXCEPT ![t] = <<>>]
  /\ UNCHANGED <<db, open, asked, clears, faults>>

AskPrompt(t, p) ==
  /\ p \notin asked
  /\ asked' = asked \cup {p}
  /\ Becomes(t, Ask(tab[t], p))
  /\ UNCHANGED <<db, open, toTab, lost, clears, faults>>

\* The agent's loop takes the next prompt of its queue.
TakeQueued(t) ==
  /\ tab[t].stage = "turn"
  /\ \E p \in tab[t].queue :
       TabOnly(t, AppendEntry([tab[t] EXCEPT !.queue = @ \ {p}, !.took = @ \cup {p}], 0))

\* The loop has ended with nothing queued: run waits for what it appended.
TurnEnds(t) ==
  /\ tab[t].stage = "turn" /\ tab[t].queue = {}
  /\ TabOnly(t, [tab[t] EXCEPT !.stage = "saving"])

\* The agent throws: run's catch and finally.
TurnThrows(t) ==
  /\ tab[t].stage \in {"turn", "summarizing"}
  /\ Fault(t, Finish(tab[t]))

Stop(t) ==
  /\ tab[t].stage # "idle"
  /\ TabOnly(t, [tab[t] EXCEPT !.dropped = @ \cup tab[t].queue, !.queue = {},
                               !.stage = IF @ = "turn" THEN "saving" ELSE @])

\* compactIfNeeded: the summary will stand for the messages through fold.
Saved(t) ==
  /\ tab[t].stage = "saving" /\ tab[t].appends = 0
  /\ LET x == tab[t]
         latest == Largest({e.through : e \in x.entries})
         ms == {e \in x.entries : e.through = 0 /\ e.seq > latest}
     IN \/ TabOnly(t, Finish(x))
        \/ \E e \in ms :
             /\ \E later \in ms : later.seq > e.seq
             /\ TabOnly(t, [x EXCEPT !.stage = "summarizing", !.fold = e.seq])

\* The summary has come; without a connection append throws.
Summarized(t) ==
  /\ tab[t].stage = "summarizing"
  /\ LET x == [tab[t] EXCEPT !.fold = 0]
     IN TabOnly(t, IF x.status = "open"
                   THEN [AppendEntry(x, tab[t].fold) EXCEPT !.stage = "folding"]
                   ELSE Finish(x))

Folded(t) ==
  /\ tab[t].stage = "folding" /\ tab[t].appends = 0
  /\ TabOnly(t, Finish(tab[t]))

\* Answers that do not come within REPLY_TIMEOUT_MS.
ClaimTimeout(t) == tab[t].claiming /\ Fault(t, Claimed(tab[t], FALSE))
AppendTimeout(t) == tab[t].appends > 0 /\ Fault(t, [tab[t] EXCEPT !.appends = 0])
ClearTimeout(t) == tab[t].clearing /\ Fault(t, [tab[t] EXCEPT !.clearing = FALSE])

Clear(t) ==
  /\ clears < MaxClear /\ ~tab[t].clearing /\ tab[t].status = "open"
  /\ clears' = clears + 1
  /\ Becomes(t, Send([tab[t] EXCEPT !.clearing = TRUE], [t |-> "clear"]))
  /\ UNCHANGED <<db, open, toTab, asked, lost, faults>>

LoadEarlier(t) ==
  /\ tab[t].hasEarlier /\ ~tab[t].loading /\ tab[t].entries # {} /\ tab[t].status = "open"
  /\ TabOnly(t, Send([tab[t] EXCEPT !.loading = TRUE],
                     [t |-> "history", before |-> Least(Seqnos(tab[t].entries))]))

-----------------------------------------------------------------------------
(* Steps of the Durable Object, each one message or one closed socket. *)

Runner == IF db.runner \in open THEN db.runner ELSE None

\* The tabs whose present connection is among cs.
At(cs) == {t \in Tab : tab[t].status # "closed" /\ Present(t) \in cs}
Post(cs, ms) == [t \in Tab |-> IF t \in At(cs) THEN toTab[t] \o ms ELSE toTab[t]]

Receives(c, kind) == c \in open /\ toServer[c] # <<>> /\ Head(toServer[c]).t = kind
Consume(c) ==
  /\ toServer' = [toServer EXCEPT ![c] = Tail(@)]
  /\ UNCHANGED <<open, tab, asked, clears, faults>>

\* setRunner: everybody is told.
SetRunner(r) ==
  /\ db' = [db EXCEPT !.runner = r]
  /\ toTab' = Post(open, <<[t |-> "runner", runner |-> r]>>)

\* Fault: off by one after the last entry the tab has.
ReplaySkips(after) ==
  LET folds == {e \in db.log : e.through > 0}
      last == CHOOSE e \in folds : \A f \in folds : f.seq <= e.seq
  IN CASE after > 0 -> {e \in db.log : e.seq > after + 1}
       [] after = 0 /\ folds # {} -> {last} \cup {e \in db.log : e.seq > last.through}
       [] OTHER -> db.log

\* The rows attach replays: those after a seq, or from the latest compaction on.
Replay(after) ==
  LET folds == {e \in db.log : e.through > 0}
      last == CHOOSE e \in folds : \A f \in folds : f.seq <= e.seq
  IN CASE after > 0 -> {e \in db.log : e.seq > after}
       [] after = 0 /\ folds # {} -> {last} \cup {e \in db.log : e.seq > last.through}
       [] OTHER -> db.log

Attach(c) ==
  /\ Receives(c, "attach") /\ Consume(c)
  /\ LET rows == Replay(Head(toServer[c]).after)
     IN toTab' = Post({c}, (IF rows = {} THEN <<>>
                            ELSE <<[t |-> "entries", entries |-> rows, initial |-> TRUE]>>)
                           \o <<[t |-> "synced"]>>)
  /\ UNCHANGED <<db, lost>>

History(c) ==
  /\ Receives(c, "history") /\ Consume(c)
  /\ toTab' = Post({c}, <<[t |-> "history", more |-> FALSE,
                          entries |-> {e \in db.log : e.seq < Head(toServer[c]).before}]>>)
  /\ UNCHANGED <<db, lost>>

AppendRow(c) ==
  /\ Receives(c, "append") /\ Consume(c) /\ db.last < MaxSeq
  /\ LET e == [seq |-> db.last + 1, through |-> Head(toServer[c]).through]
         told == <<[t |-> "entries", entries |-> {e}, initial |-> FALSE]>>
     IN /\ db' = [db EXCEPT !.log = @ \cup {e}, !.last = @ + 1]
        /\ toTab' = [t \in Tab |-> Post(open, (IF t \in At({c}) THEN <<[t |-> "appended"]>> ELSE <<>>)
                                              \o told)[t]]
  /\ UNCHANGED lost

Claim(c) ==
  /\ Receives(c, "claim") /\ Consume(c)
  /\ IF Runner \notin {None, c}
     THEN toTab' = Post({c}, <<[t |-> "runner", runner |-> Runner]>>) /\ UNCHANGED db
     ELSE SetRunner(c)
  /\ UNCHANGED lost

ReleaseRow(c) ==
  /\ Receives(c, "release") /\ Consume(c)
  /\ IF Runner = c THEN SetRunner(None) ELSE UNCHANGED <<db, toTab>>
  /\ UNCHANGED lost

\* A prompt is relayed to the runner's socket, whoever is still behind it.
Steer(c) ==
  /\ Receives(c, "steer") /\ Consume(c)
  /\ LET p == Head(toServer[c]).p
         none == Runner \in {None, c}
         to == IF none THEN c ELSE Runner
     IN /\ toTab' = Post({to}, <<[t |-> IF none THEN "noRunner" ELSE "steer", p |-> p]>>)
        /\ lost' = IF At({to}) = {} THEN lost \cup {p} ELSE lost
  /\ UNCHANGED db

ClearRows(c) ==
  /\ Receives(c, "clear") /\ Consume(c)
  /\ IF Runner # None
     THEN toTab' = Post({c}, <<[t |-> "clearFailed"]>>) /\ UNCHANGED db
     ELSE LET last == IF db.log = {} THEN db.cleared ELSE Largest(Seqnos(db.log))
          IN /\ db' = [db EXCEPT !.log = {}, !.cleared = last]
             /\ toTab' = Post(open, <<[t |-> "cleared", through |-> last]>>)
  /\ UNCHANGED lost

\* webSocketClose. Whether the platform still calls the closing socket open when
\* its handler runs is not for this code to say: if not, gone finds no runner.
Gone(c) ==
  /\ c \in open /\ toServer[c] = <<>>
  /\ At({c}) = {}
  /\ open' = open \ {c}
  /\ \/ /\ db.runner = c
        /\ db' = [db EXCEPT !.runner = None]
        /\ toTab' = Post(open', <<[t |-> "runner", runner |-> None]>>)
     \/ UNCHANGED <<db, toTab>>
  /\ UNCHANGED <<toServer, tab, asked, lost, clears, faults>>

-----------------------------------------------------------------------------

TabStep(t) ==
  \/ Connect(t) \/ Opened(t) \/ Read(t) \/ Disconnect(t)
  \/ \E p \in Prompt : AskPrompt(t, p)
  \/ TakeQueued(t) \/ TurnEnds(t) \/ TurnThrows(t) \/ Stop(t)
  \/ Saved(t) \/ Summarized(t) \/ Folded(t)
  \/ ClaimTimeout(t) \/ AppendTimeout(t) \/ ClearTimeout(t)
  \/ Clear(t) \/ LoadEarlier(t)

ServerStep(c) ==
  \/ Attach(c) \/ History(c) \/ AppendRow(c) \/ Claim(c) \/ ReleaseRow(c)
  \/ Steer(c) \/ ClearRows(c) \/ Gone(c)

Next == (\E t \in Tab : TabStep(t)) \/ (\E c \in Conn : ServerStep(c))

Spec == Init /\ [][Next]_vars

-----------------------------------------------------------------------------

TypeOK ==
  /\ db \in Db
  /\ open \subseteq Conn
  /\ toServer \in [Conn -> Seq(ToServer)]
  /\ toTab \in [Tab -> Seq(ToTab)]
  /\ tab \in [Tab -> TabState]
  /\ asked \subseteq Prompt /\ lost \subseteq Prompt
  /\ clears \in 0 .. MaxClear /\ faults \in 0 .. MaxFault

\* Entries on their way to a tab.
Coming(t) == UNION {m.entries : m \in {k \in ToSet(toTab[t]) : k.t \in {"entries", "history"}}}

\* A tab that has attached has no hole in its copy of the log: every entry of the
\* log after its first is there or on its way (sync.ts asks only for what follows
\* its last entry, and broadcasts reach it from the moment its socket is accepted:
\* one of those, read by a connection that does not live to read its replay, is the
\* hole that stays).
NothingMissing ==
  \A t \in Tab : tab[t].synced /\ ~tab[t].torn =>
    \A e \in db.log : \/ e \in tab[t].entries \cup Coming(t)
                     \/ /\ tab[t].entries # {}
                        /\ \A first \in tab[t].entries : first.seq > e.seq

\* A cleared entry is not shown again: a connected tab that still has one is about
\* to be told, by the clear itself or by the hello of its new connection.
ClearedStaysCleared ==
  \A t \in Tab : tab[t].status = "open" =>
    \A e \in tab[t].entries \cup Coming(t) :
      \/ e.seq > db.cleared
      \/ \E m \in ToSet(toTab[t]) : \/ (m.t = "cleared" /\ m.through >= e.seq)
                                   \/ (m.t = "hello" /\ m.cleared >= e.seq)

\* A tab's copy is the log: whole, and nothing that was cleared.
CopyIsTheLog == NothingMissing /\ ClearedStaysCleared

Waiting(p) ==
  \/ \E t \in Tab : p \in tab[t].text \cup tab[t].queue \cup Prompts(toTab[t])
  \/ \E c \in Conn : p \in Prompts(toServer[c])

\* No prompt vanishes: one that was asked waits somewhere, was given to an agent,
\* was refused or stopped in front of its user, or went down with a connection; and
\* no two agents were given it.
PromptsAccounted ==
  /\ \A p \in asked : \/ Waiting(p) \/ p \in lost
                       \/ \E t \in Tab : p \in tab[t].took \cup tab[t].dropped
  /\ \A s, t \in Tab : s # t => tab[s].took \cap tab[t].took = {}
=============================================================================
