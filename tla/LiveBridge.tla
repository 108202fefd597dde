----------------------------- MODULE LiveBridge -----------------------------
(* Between GPT-Live, which holds a spoken conversation, and the assistant's    *)
(* agent (apps/web/src/lib/assistant/live-bridge.ts). What either side says    *)
(* comes as pieces on the session's timeline, late and in no order between the *)
(* sides; a hand-off says where on it the agent's work was asked for.          *)
EXTENDS Integers, Sequences, SequencesExt, FiniteSetsExt

CONSTANTS
  UtteranceGap,     \* UTTERANCE_GAP_MS, like the others in steps of the clock
  OwnAnswer,        \* OWN_ANSWER_MS
  DelegationSlack,  \* DELEGATION_SLACK_MS
  Settle,           \* DELEGATION_SETTLE_MS and DELEGATION_SETTLE_SENTENCE_MS
  WaitMax,          \* DELEGATION_WAIT_MAX_MS
  MaxTime,          \* bound on the clock
  MaxSpan,          \* bound on the utterances of one side
  MaxHandOff        \* bound on hand-offs

ASSUME BridgeAssumption ==
  /\ {UtteranceGap, OwnAnswer, DelegationSlack, WaitMax, MaxTime, MaxSpan, MaxHandOff} \subseteq Nat
  /\ Settle \subseteq 0 .. WaitMax

VARIABLES
  you,          \* what the user said
  it,           \* what GPT-Live said
  clock,        \* now() - t0
  lastHeardAt,
  settling,     \* the settle timer: when it is due, since when, and where the hand-off was
  answerDue,    \* the answer timer, -1 for none
  delegation,   \* whether a hand-off is open
  handOffs,     \* history: hand-offs so far
  closed

bridgeVars == <<you, it, clock, lastHeardAt, settling, answerDue, delegation, handOffs, closed>>

Moment == 0 .. MaxTime
Never == -1
\* told: history, who was told of it.
Span == [start : Moment, end : Moment, used : BOOLEAN, told : SUBSET {"agent", "chat"}]
NotSettling == [due |-> Never, since |-> 0, at |-> 0]
Ever == MaxTime + 2

BridgeInit ==
  /\ you = <<>> /\ it = <<>> /\ clock = 0 /\ lastHeardAt = -WaitMax
  /\ settling = NotSettling /\ answerDue = Never
  /\ delegation = FALSE /\ handOffs = 0 /\ closed = FALSE

-----------------------------------------------------------------------------

\* add: a piece joins the last utterance if it follows closely.
Joins(spans, start) ==
  spans # <<>> /\ ~Last(spans).used /\ start - Last(spans).end < UtteranceGap
Add(spans, start, end) ==
  IF Joins(spans, start)
  THEN [spans EXCEPT ![Len(spans)].end = Max({@, end})]
  ELSE Append(spans, [start |-> start, end |-> end, used |-> FALSE, told |-> {}])

Use(spans, which) == [i \in DOMAIN spans |-> [spans[i] EXCEPT !.used = @ \/ i \in which]]
Tell(spans, which, whom) ==
  [i \in DOMAIN spans |-> [spans[i] EXCEPT !.told = IF i \in which THEN @ \cup {whom} ELSE @]]

\* What GPT-Live said after utterance u, before the user spoke again.
RepliesTo(y, i, u, before) ==
  LET later == {x \in DOMAIN y : y[x].start > y[u].end}
      next == IF later = {} THEN Ever ELSE y[Min(later)].start
  IN {r \in DOMAIN i : /\ ~i[r].used /\ i[r].start >= y[u].start
                       /\ i[r].start < Min({next, before})}

\* flushAnswered: each of the user's utterances before a time goes to the chat with
\* its replies. A reply that is one to several goes with the first.
FlushAnswered(y, i, before) ==
  LET due == {u \in DOMAIN y : ~y[u].used /\ y[u].end < before}
      Replies(u) == RepliesTo(y, i, u, before)
      answered == {u \in due : \E r \in Replies(u) : \A w \in due : w < u => r \notin Replies(w)}
  IN [you |-> Tell(Use(y, answered), answered, "chat"), it |-> Use(i, UNION {Replies(u) : u \in due})]

\* checkAnswered, once a piece has been added.
CheckAnswered(y, i) ==
  IF i = <<>> THEN you' = y /\ it' = i /\ answerDue' = Never
  ELSE IF Last(i).end + OwnAnswer <= clock
       THEN LET f == FlushAnswered(y, i, Last(i).end + 1)
            IN you' = f.you /\ it' = f.it /\ answerDue' = Never
       ELSE you' = y /\ it' = i /\ answerDue' = Last(i).end + OwnAnswer

Open(y) == {u \in DOMAIN y : ~y[u].used}
Mine(at) == {u \in Open(you) : you[u].start <= at + DelegationSlack}

\* Fault: GPT-Live's answer counts though the user has not spoken since.
CutoffOfAll(at) == Max({Never} \cup {it[r].end : r \in DOMAIN it})

\* The end of GPT-Live's last answer to the words before the newest.
Cutoff(at) ==
  LET mine == Mine(at)
  IN IF mine = {} THEN Never
     ELSE Max({Never} \cup {it[r].end : r \in {r \in DOMAIN it : it[r].end <= you[Max(mine)].start}})

\* The words up to the hand-off at this time go to the agent, but for those answered.
\* One without words is closed; d tells whether it is open still.
HandOver(at, d) ==
  LET mine == Mine(at)
      cutoff == Cutoff(at)
      f == FlushAnswered(you, it, cutoff)
      task == {u \in mine : ~f.you[u].used /\ f.you[u].start >= cutoff}
  IN /\ you' = Tell(Use(f.you, mine), task, "agent")
     /\ it' = f.it
     /\ settling' = NotSettling
     /\ delegation' = (d /\ task # {})

\* settle: unless the transcript is still growing, and for too long. Words that end
\* a sentence need less.
Settles(since, at, d) ==
  \E settle \in Settle :
    IF clock - lastHeardAt < settle /\ clock - since < WaitMax
    THEN /\ settling' = [due |-> lastHeardAt + settle, since |-> since, at |-> at]
         /\ delegation' = d /\ UNCHANGED <<you, it>>
    ELSE HandOver(at, d)

-----------------------------------------------------------------------------

Tick ==
  /\ ~closed /\ clock < MaxTime /\ clock' = clock + 1
  /\ UNCHANGED <<you, it, lastHeardAt, settling, answerDue, delegation, handOffs, closed>>

\* A side's next piece: after its last, and not of the future.
Follows(spans, start, end) ==
  /\ start <= end /\ end <= clock /\ (spans # <<>> => Last(spans).end <= start)
  /\ Joins(spans, start) \/ Len(spans) < MaxSpan

HearYou(start, end) ==
  /\ ~closed /\ Follows(you, start, end)
  /\ lastHeardAt' = clock
  /\ CheckAnswered(Add(you, start, end), it)
  /\ UNCHANGED <<clock, settling, delegation, handOffs, closed>>

HearIt(start, end) ==
  /\ ~closed /\ Follows(it, start, end)
  /\ CheckAnswered(you, Add(it, start, end))
  /\ UNCHANGED <<clock, lastHeardAt, settling, delegation, handOffs, closed>>

AnswerTimer ==
  /\ ~closed /\ answerDue # Never /\ clock >= answerDue
  /\ CheckAnswered(you, it)
  /\ UNCHANGED <<clock, lastHeardAt, settling, delegation, handOffs, closed>>

\* session.delegation.created
HandOff(at) ==
  /\ ~closed /\ handOffs < MaxHandOff /\ at <= clock
  /\ handOffs' = handOffs + 1
  /\ Settles(clock, at, TRUE)
  /\ UNCHANGED <<clock, lastHeardAt, answerDue, closed>>

SettleTimer ==
  /\ ~closed /\ settling.due # Never /\ clock >= settling.due
  /\ Settles(settling.since, settling.at, delegation)
  /\ UNCHANGED <<clock, lastHeardAt, answerDue, handOffs, closed>>

\* The agent's turn is over.
TurnEnded ==
  /\ ~closed /\ delegation /\ delegation' = FALSE
  /\ UNCHANGED <<you, it, clock, lastHeardAt, settling, answerDue, handOffs, closed>>

\* close, and session.closed before it.
CloseBridge ==
  /\ ~closed /\ closed' = TRUE
  /\ LET f == FlushAnswered(you, it, Ever) IN you' = f.you /\ it' = f.it
  /\ settling' = NotSettling /\ answerDue' = Never
  /\ UNCHANGED <<clock, lastHeardAt, delegation, handOffs>>

BridgeNext ==
  \/ Tick \/ AnswerTimer \/ SettleTimer \/ TurnEnded \/ CloseBridge
  \/ \E start, end \in Moment : HearYou(start, end) \/ HearIt(start, end)
  \/ \E at \in Moment : HandOff(at)

BridgeSpec == BridgeInit /\ [][BridgeNext]_bridgeVars

-----------------------------------------------------------------------------

BridgeTypeOK ==
  /\ you \in Seq(Span) /\ it \in Seq(Span) /\ clock \in Moment /\ lastHeardAt \in Int
  /\ settling \in [due : Int, since : Moment, at : Moment] /\ answerDue \in Int
  /\ delegation \in BOOLEAN /\ handOffs \in 0 .. MaxHandOff /\ closed \in BOOLEAN

\* What the user said goes to the agent or to the chat, never to both. It goes to
\* neither, and is put aside by a hand-off, only if GPT-Live has spoken since it began
\* and the user has said something newer: a hand-off never loses the words it is for.
WordsGoOnce ==
  \A u \in DOMAIN you :
    /\ you[u].told # {"agent", "chat"}
    /\ you[u].used /\ you[u].told = {} =>
         \E r \in DOMAIN it, v \in DOMAIN you :
           it[r].end > you[u].start /\ you[v].start > you[u].start /\ you[v].start >= it[r].start
==============================================================================
