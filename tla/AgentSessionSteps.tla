------------------------- MODULE AgentSessionSteps -------------------------
(***************************************************************************)
(* Theorems about the steps of AgentSession: the session implements its    *)
(* log's contract (ThreadLog), an interrupted turn is logged as such,      *)
(* claude is closed for cause, and the status clients see is the true one. *)
(***************************************************************************)
EXTENDS AgentSessionProofs

(* What the log is told when the session's record goes from x to y.        *)
Rest(x, y) ==
  /\ y.alive = x.alive /\ y.begun = x.begun /\ y.turnActive = x.turnActive
  /\ y.seen = x.seen /\ y.outcomes = x.outcomes /\ y.ended = x.ended

Began(x, y) ==
  /\ x.alive /\ x.begun = 0 /\ y.begun # 0 /\ y.turnActive
  /\ y.alive = x.alive /\ y.seen = x.seen /\ y.outcomes = x.outcomes

Asked(x, y) ==
  /\ x.alive /\ y.begun # 0 /\ y.turnActive /\ y.alive = x.alive /\ y.outcomes = x.outcomes
  /\ \E r \in Request \ x.seen : y.seen = x.seen \cup {r}

Settled(x, y) ==
  /\ x.alive /\ y.alive = x.alive /\ y.begun = x.begun /\ y.turnActive = x.turnActive /\ y.seen = x.seen
  /\ \E r \in x.pending :
       y.outcomes = [q \in Request |-> IF q = r THEN x.outcomes[q] + 1 ELSE x.outcomes[q]]

Ended(x, y) ==
  /\ x.alive /\ x.begun # 0 /\ y.begun = 0 /\ y.alive = x.alive /\ y.seen = x.seen
  /\ y.outcomes = [q \in Request |-> IF q \in x.pending THEN x.outcomes[q] + 1 ELSE x.outcomes[q]]
  /\ x.interrupted => y.ended = "interrupted"

(* claude reports an end though it was in no turn.                         *)
EndedNone(x, y) ==
  /\ ~x.turnActive /\ y.alive = x.alive /\ y.begun = x.begun
  /\ y.seen = x.seen /\ y.outcomes = x.outcomes

Closed(x, y) ==
  /\ x.alive /\ ~y.alive /\ y.begun = x.begun /\ y.seen = x.seen /\ y.outcomes = x.outcomes

Moves(x, y) ==
  Rest(x, y) \/ Began(x, y) \/ Asked(x, y) \/ Settled(x, y) \/ Ended(x, y)
  \/ EndedNone(x, y) \/ Closed(x, y)

(* A claude was launched no later than it was noted, and noted no later    *)
(* than g.                                                                 *)
Aged(x, g) == x.proc # "none" => Harness \/ (x.started <= x.gen /\ x.gen <= g)

(* What clients see of x is what x is.                                     *)
Fresh(x) ==
  /\ x.proc # "none" => x.status = StatusOf(x)
  /\ x.running = (x.proc # "none")
  /\ x.idle => x.status = "idle"

(* The steps that may close a claude of the current generation.            *)
MayClose ==
  Restart \/ Interrupt \/ IdleTimeout \/ ClaudeExits \/ \E files \in BOOLEAN : Rewind(files)

(* A claude that runs goes on, is closed for cause or goes with the session. *)
Spared(x, g) ==
  s.proc = "live" => \/ x.proc = "live" /\ x.gen = s.gen
                     \/ x.proc = "exited" /\ x.gen = s.gen /\ (s.gen # g \/ MayClose)
                     \/ x.proc = "none" /\ ~x.alive

(* What the steps need and keep beyond IInv: the status is true whenever   *)
(* the loop waits, and a claude that is being stopped has exited.          *)
Stepping(x, where) ==
  /\ x.alive /\ where = "loop" => Fresh(x)
  /\ x.alive /\ where # "loop" => x.proc = "exited"

NInv ==
  /\ IInv
  /\ Stepping(s, doing)
  /\ Aged(s, gen)

(* x may follow the session s in a step that ends in generation g.         *)
Follows(x, g) == Moves(s, x) /\ Aged(x, g) /\ Spared(x, g)

-----------------------------------------------------------------------------
(* What the helpers do to the log and to claude.                           *)

LEMMA ChangedFields ==
  ASSUME NEW x \in Session, NEW g
  PROVE  /\ Rest(x, Changed(x, g))
         /\ Fresh(Changed(x, g))
         /\ Changed(x, g).gen = x.gen /\ Changed(x, g).started = x.started
         /\ \/ Changed(x, g).proc = x.proc
            \/ x.proc # "none" /\ Changed(x, g).proc = "exited" /\ x.gen # g
<1> DEFINE st == StatusOf(x)
           z == Shown(x)
           c == CloseProc(z)
           y == Changed(x, g)
<1>1. y = z \/ (y = c /\ x.proc # "none" /\ g # x.gen)
  BY DEF Changed
<1>2. /\ z.alive = x.alive /\ z.begun = x.begun /\ z.turnActive = x.turnActive /\ z.proc = x.proc
      /\ z.pending = x.pending /\ z.seen = x.seen /\ z.outcomes = x.outcomes /\ z.ended = x.ended
      /\ z.gen = x.gen /\ z.started = x.started
      /\ z.status = st /\ z.idle = (st = "idle") /\ z.running = (x.proc # "none")
  BY DEF Shown, Session
<1>3. x.proc = "none" => st = x.status
  BY DEF StatusOf
<1>4. StatusOf(z) = st
  BY <1>2, <1>3 DEF StatusOf
<1>5. /\ c.alive = z.alive /\ c.begun = z.begun /\ c.turnActive = z.turnActive /\ c.proc = "exited"
      /\ c.pending = z.pending /\ c.seen = z.seen /\ c.outcomes = z.outcomes /\ c.ended = z.ended
      /\ c.gen = z.gen /\ c.started = z.started
      /\ c.status = z.status /\ c.idle = z.idle /\ c.running = z.running
  BY DEF CloseProc, Shown, Session
<1> HIDE DEF z, c, y
<1>6. CASE y = z
  <2>1. Fresh(y)
    BY <1>2, <1>4, <1>6 DEF Fresh, st
  <2> QED BY <1>2, <1>6, <2>1 DEF Rest, y
<1>7. CASE y = c /\ x.proc # "none" /\ g # x.gen
  <2>1. StatusOf(c) = st
    BY <1>2, <1>5, <1>7 DEF StatusOf, st
  <2>2. Fresh(y)
    BY <1>2, <1>5, <1>7, <2>1 DEF Fresh, st
  <2> QED BY <1>2, <1>5, <1>7, <2>2 DEF Rest, y
<1> QED BY <1>1, <1>6, <1>7

LEMMA EnsureFields ==
  ASSUME NEW x \in Session, NEW g, NEW y \in EnsureProc(x, g)
  PROVE  /\ Rest(x, y)
         /\ \/ y = x
            \/ x.proc = "none" /\ y.proc = "none" /\ ~y.running /\ ~y.idle
            \/ x.proc = "none" /\ y.proc = "live" /\ y.started = gen /\ (Harness \/ y.gen = g)
<1> DEFINE z == [x EXCEPT !.shown = "starting", !.running = FALSE, !.idle = FALSE]
           h == IF Harness THEN x.gen ELSE g
           e == [z EXCEPT !.status = "error"]
           u == [z EXCEPT !.status = "idle", !.proc = "live", !.args = TRUE, !.gen = h, !.started = gen]
<1>1. y = x \/ (x.proc = "none" /\ (y = e \/ y = u))
  BY DEF EnsureProc, Session
<1>2. /\ z.alive = x.alive /\ z.begun = x.begun /\ z.turnActive = x.turnActive
      /\ z.seen = x.seen /\ z.outcomes = x.outcomes /\ z.ended = x.ended /\ z.proc = x.proc
      /\ z.running = FALSE /\ z.idle = FALSE
      /\ DOMAIN z = DOMAIN x
  BY DEF Session
<1>3. /\ e.alive = z.alive /\ e.begun = z.begun /\ e.turnActive = z.turnActive
      /\ e.seen = z.seen /\ e.outcomes = z.outcomes /\ e.ended = z.ended /\ e.proc = z.proc
      /\ e.running = z.running /\ e.idle = z.idle
  BY DEF Session
<1>4. /\ u.alive = z.alive /\ u.begun = z.begun /\ u.turnActive = z.turnActive
      /\ u.seen = z.seen /\ u.outcomes = z.outcomes /\ u.ended = z.ended /\ u.proc = "live"
      /\ u.started = gen /\ u.gen = h
  BY DEF Session
<1> HIDE DEF z, e, u
<1>5. CASE y = x
  BY <1>5 DEF Rest
<1>6. CASE x.proc = "none" /\ y = e
  BY <1>2, <1>3, <1>6 DEF Rest
<1>7. CASE x.proc = "none" /\ y = u
  BY <1>2, <1>4, <1>7 DEF Rest
<1> QED BY <1>1, <1>5, <1>6, <1>7

LEMMA BeginFields ==
  ASSUME NEW x \in Session
  PROVE  /\ BeginTurn(x).alive = x.alive /\ BeginTurn(x).seen = x.seen
         /\ BeginTurn(x).outcomes = x.outcomes /\ BeginTurn(x).begun = x.begun + 1
         /\ BeginTurn(x).turnActive /\ BeginTurn(x).proc = x.proc
         /\ BeginTurn(x).gen = x.gen /\ BeginTurn(x).started = x.started
BY DEF BeginTurn, Session

LEMMA CloseFields ==
  ASSUME NEW x \in Session
  PROVE  /\ Rest(x, CloseProc(x)) /\ CloseProc(x).proc = "exited"
         /\ CloseProc(x).gen = x.gen /\ CloseProc(x).started = x.started
         /\ CloseProc(x).pending = x.pending /\ CloseProc(x).status = x.status
         /\ CloseProc(x).running = x.running /\ CloseProc(x).idle = x.idle
BY DEF CloseProc, Session, Rest

LEMMA EndFields ==
  ASSUME NEW x \in Session, NEW how
  PROVE  /\ EndTurn(x, how).alive = x.alive /\ EndTurn(x, how).seen = x.seen
         /\ EndTurn(x, how).begun = 0 /\ ~EndTurn(x, how).turnActive
         /\ EndTurn(x, how).ended = how /\ EndTurn(x, how).proc = x.proc
         /\ EndTurn(x, how).gen = x.gen /\ EndTurn(x, how).started = x.started
         /\ EndTurn(x, how).outcomes =
              [q \in Request |-> IF q \in x.pending THEN x.outcomes[q] + 1 ELSE x.outcomes[q]]
<1> DEFINE z == Resolve(x, x.pending)
           o == [q \in Request |-> IF q \in x.pending THEN x.outcomes[q] + 1 ELSE x.outcomes[q]]
           y == EndTurn(x, how)
<1>1. z = [x EXCEPT !.pending = {}, !.outcomes = o]
  BY DEF Resolve
<1>2. /\ z.alive = x.alive /\ z.seen = x.seen /\ z.proc = x.proc
      /\ z.gen = x.gen /\ z.started = x.started /\ z.outcomes = o
      /\ DOMAIN z = DOMAIN x
  BY <1>1 DEF Session
<1>3. y = [z EXCEPT
     !.turnActive = FALSE, !.interrupted = FALSE, !.doneAfterTurn = FALSE, !.recapping = FALSE,
     !.begun = 0, !.ended = how, !.done = @ \/ (x.doneAfterTurn /\ how = "completed")]
  BY DEF EndTurn
<1> HIDE DEF z, o
<1>4. "turnActive" \in DOMAIN z /\ "begun" \in DOMAIN z /\ "ended" \in DOMAIN z
  BY <1>2 DEF Session
<1>5. /\ y.alive = z.alive /\ y.seen = z.seen /\ y.proc = z.proc /\ y.gen = z.gen
      /\ y.started = z.started /\ y.outcomes = z.outcomes
      /\ y.begun = 0 /\ y.turnActive = FALSE /\ y.ended = how
  BY <1>3, <1>4
<1> QED BY <1>2, <1>5 DEF o

-----------------------------------------------------------------------------
(* How a helper carries what may follow s.                                 *)

(* Only what neither the log nor clients see has changed, and claude is    *)
(* as it was.                                                              *)
Aside(x, y) ==
  /\ Rest(x, y) /\ y.proc = x.proc /\ y.gen = x.gen /\ y.started = x.started
  /\ y.pending = x.pending /\ y.status = x.status /\ y.running = x.running /\ y.idle = x.idle

LEMMA RestFollows ==
  ASSUME NEW x, NEW y, NEW g, Follows(x, g), Rest(x, y),
         y.proc = x.proc, y.gen = x.gen, y.started = x.started
  PROVE  Follows(y, g)
<1>1. Moves(s, y)
  BY DEF Follows, Moves, Rest, Began, Asked, Settled, Ended, EndedNone, Closed
<1>2. Aged(y, g) /\ Spared(y, g)
  BY DEF Follows, Aged, Spared, Rest
<1> QED BY <1>1, <1>2 DEF Follows

LEMMA ChangedFollows ==
  ASSUME NEW x \in Session, NEW g, Follows(x, g)
  PROVE  Follows(Changed(x, g), g) /\ Fresh(Changed(x, g))
<1> DEFINE y == Changed(x, g)
<1>1. /\ Rest(x, y) /\ Fresh(y) /\ y.gen = x.gen /\ y.started = x.started
      /\ \/ y.proc = x.proc
         \/ x.proc # "none" /\ y.proc = "exited" /\ x.gen # g
  BY ChangedFields
<1> HIDE DEF y
<1>2. CASE y.proc = x.proc
  BY <1>1, <1>2, RestFollows DEF y
<1>3. CASE x.proc # "none" /\ y.proc = "exited" /\ x.gen # g
  <2>1. Moves(s, y)
    BY <1>1 DEF Follows, Moves, Rest, Began, Asked, Settled, Ended, EndedNone, Closed
  <2>2. Aged(y, g) /\ Spared(y, g)
    BY <1>1, <1>3 DEF Follows, Aged, Spared, Rest
  <2> QED BY <1>1, <2>1, <2>2 DEF Follows, y
<1> QED BY <1>1, <1>2, <1>3

(* claude is started in a session whose log is as it was.                  *)
LEMMA EnsureFollows ==
  ASSUME NEW x \in Session, NEW g \in Nat, gen \in Nat, gen <= g, Follows(x, g), x.alive,
         s.proc = "live" => x.proc = "live",
         NEW y \in EnsureProc(x, g)
  PROVE  Follows(y, g) /\ Rest(x, y)
<1>1. /\ Rest(x, y)
      /\ \/ y = x
         \/ x.proc = "none" /\ y.proc = "none"
         \/ x.proc = "none" /\ y.proc = "live" /\ y.started = gen /\ (Harness \/ y.gen = g)
  BY EnsureFields
<1>2. CASE y = x
  BY <1>1, <1>2
<1>3. CASE x.proc = "none" /\ (y.proc = "none" \/ (y.started = gen /\ (Harness \/ y.gen = g)))
  <2>1. Aged(y, g) /\ Spared(y, g)
    BY <1>3, HarnessAssumption DEF Aged, Spared
  <2>2. Moves(s, y)
    BY <1>1 DEF Follows, Moves, Rest, Began, Asked, Settled, Ended, EndedNone, Closed
  <2> QED BY <1>1, <2>1, <2>2 DEF Follows
<1> QED BY <1>1, <1>2, <1>3

LEMMA AsideFollows ==
  ASSUME NEW x, NEW y, NEW g, Follows(x, g), Aside(x, y)
  PROVE  Follows(y, g) /\ (Fresh(x) => Fresh(y))
<1>1. Follows(y, g)
  BY RestFollows DEF Aside
<1>2. StatusOf(y) = StatusOf(x)
  BY DEF Aside, Rest, StatusOf
<1>3. Fresh(x) => Fresh(y)
  BY <1>2 DEF Aside, Fresh
<1> QED BY <1>1, <1>3

LEMMA BeginFollows ==
  ASSUME NEW x \in Session, NEW g, Follows(x, g), Rest(s, x), x.alive, Sound(x), ~x.turnActive
  PROVE  Follows(BeginTurn(x), g)
<1> DEFINE y == BeginTurn(x)
<1>1. /\ y.alive = x.alive /\ y.seen = x.seen /\ y.outcomes = x.outcomes /\ y.begun = x.begun + 1
      /\ y.turnActive /\ y.proc = x.proc /\ y.gen = x.gen /\ y.started = x.started
  BY BeginFields
<1> HIDE DEF y
<1>2. x.begun = 0
  BY DEF Sound
<1>3. Began(s, y)
  BY <1>1, <1>2 DEF Began, Rest
<1>4. Aged(y, g) /\ Spared(y, g)
  BY <1>1 DEF Follows, Aged, Spared
<1> QED BY <1>3, <1>4 DEF Follows, Moves, y

LEMMA JoinFollows ==
  ASSUME NEW x \in Session, NEW g, Follows(x, g), Rest(s, x), x.alive, Sound(x)
  PROVE  Follows(JoinTurn(x), g)
<1> DEFINE y == [x EXCEPT !.doneAfterTurn = FALSE, !.joined = TRUE]
<1>1. CASE x.turnActive
  <2>1. Aside(x, y)
    BY DEF Session, Aside, Rest
  <2> HIDE DEF y
  <2> QED BY <1>1, <2>1, AsideFollows DEF JoinTurn, y
<1>2. CASE ~x.turnActive
  BY <1>2, BeginFollows DEF JoinTurn
<1>3. x.turnActive \in BOOLEAN
  BY DEF Session
<1> QED BY <1>1, <1>2, <1>3

LEMMA InTurnFollows ==
  ASSUME NEW x \in Session, NEW g, Follows(x, g), Rest(s, x), x.alive, Sound(x)
  PROVE  Follows(InTurn(x), g)
BY BeginFollows DEF InTurn, Session

LEMMA ToldAside ==
  ASSUME NEW x \in Session, NEW events
  PROVE  Aside(x, Told(x, events))
BY DEF Told, Session, Aside, Rest

(* What every step starts from and has to end with.                        *)
Does == Follows(s', gen') /\ Stepping(s', doing')

LEMMA SelfFollows ==
  ASSUME NInv, NEW g \in Nat, gen <= g
  PROVE  Follows(s, g) /\ Rest(s, s)
<1>1. Rest(s, s)
  BY DEF Rest
<1>2. s.started \in Nat /\ s.gen \in Nat /\ gen \in Nat
  BY Known DEF NInv, Session
<1>3. Aged(s, g)
  BY <1>2 DEF NInv, Aged
<1>4. Spared(s, g)
  <2>1. s.proc = "live" => s.proc = "live" /\ s.gen = s.gen
    OBVIOUS
  <2> QED BY <2>1 DEF Spared
<1> QED BY <1>1, <1>3, <1>4 DEF Follows, Moves

LEMMA Grows ==
  ASSUME NInv, NEW x, MayStart(x)
  PROVE  gen' \in Nat /\ gen \in Nat /\ gen <= gen'
BY Known DEF NInv, MayStart

LEMMA PlainDoes ==
  ASSUME NEW x, Follows(x, gen'), Stepping(x, doing'), NEW n, Becomes(x, n)
  PROVE  Does
BY DEF Does, Becomes

LEMMA PushedDoes ==
  ASSUME NEW x \in Session, Follows(x, gen'), doing' = "loop", NEW n, Becomes(Changed(x, gen'), n)
  PROVE  Does
<1>1. Follows(Changed(x, gen'), gen') /\ Fresh(Changed(x, gen'))
  BY ChangedFollows
<1> QED BY <1>1, PlainDoes DEF Stepping

(* A step that leaves the session's record alone.                          *)
LEMMA IdleDoes ==
  ASSUME NInv, s' = s, doing' = doing, gen' \in Nat, gen <= gen'
  PROVE  Does
BY SelfFollows DEF Does, NInv

-----------------------------------------------------------------------------
(* The commands.                                                           *)

LEMMA SendDoes ==
  ASSUME NInv, NEW x \in Session, Sound(x), x.alive, Aside(s, x), Ready, doing' = doing,
         NEW kind, NEW push \in BOOLEAN, push \/ kind # "files", Send(x, kind, push)
  PROVE  Does
<1> DEFINE Push(z) == IF push THEN Changed(z, gen') ELSE z
           q == ~x.turnActive /\ kind = "recap"
           y == [x EXCEPT !.recapping = q]
<1>1. doing = "loop" /\ Fresh(s)
  BY DEF Ready, NInv, Stepping
<1>2. MayStart(y)
  BY DEF Send
<1>3. gen' \in Nat /\ gen \in Nat /\ gen <= gen'
  BY <1>2, Grows
<1>4. Follows(x, gen') /\ Fresh(x)
  BY <1>1, <1>3, SelfFollows, AsideFollows
<1>5. q \in BOOLEAN
  OBVIOUS
<1>6. PICK z \in EnsureProc(y, gen') :
        \/ z.proc = "none" /\ Becomes(Push([z EXCEPT !.recapping = FALSE]), 0)
        \/ z.proc # "none" /\ kind = "files" /\ Becomes(Push(z), 0)
        \/ /\ z.proc # "none"
           /\ LET w == Changed(JoinTurn(z), gen')
              IN \/ w.proc = "live" /\ w.recapping /\ Becomes(Push(w), 1)
                 \/ w.proc = "live" /\ ~w.recapping
                    /\ Becomes(Push([Told(w, w.held) EXCEPT !.done = FALSE]), 1)
                 \/ w.proc = "exited" /\ Becomes(Push(w), 0)
  BY DEF Send
<1> HIDE DEF q
<1>7. y \in Session /\ Aside(x, y) /\ Alike(x, y)
  BY ZenonT(60), <1>5 DEF Session, Aside, Rest, Alike
<1> HIDE DEF y
<1>8. /\ Follows(y, gen') /\ Fresh(y) /\ Sound(y) /\ y.alive /\ Rest(s, y)
      /\ s.proc = "live" => y.proc = "live"
  BY <1>4, <1>7, AsideFollows, AlikeSound DEF Aside, Alike, Rest
<1>9. z \in Session /\ Sound(z) /\ Follows(z, gen') /\ z.alive /\ Rest(s, z)
  <2>1. z \in Session /\ Sound(z)
    BY <1>3, <1>7, <1>8, EnsureProcSound
  <2>2. Follows(z, gen') /\ Rest(y, z)
    BY <1>3, <1>7, <1>8, EnsureFollows
  <2> QED BY <1>8, <2>1, <2>2 DEF Rest
<1>10. ASSUME NEW v \in Session, Follows(v, gen'), push \/ Fresh(v), NEW n, Becomes(Push(v), n)
       PROVE  Does
  <2>1. CASE push
    BY <1>1, <1>10, <2>1, PushedDoes
  <2>2. CASE ~push
    BY <1>1, <1>10, <2>2, PlainDoes DEF Stepping
  <2> QED BY <2>1, <2>2
<1> HIDE DEF Push
<1>11. CASE z.proc = "none" /\ Becomes(Push([z EXCEPT !.recapping = FALSE]), 0)
  <2> DEFINE v == [z EXCEPT !.recapping = FALSE]
  <2>1. v \in Session /\ Aside(z, v)
    BY ZenonT(60), <1>9 DEF Session, Aside, Rest
  <2> HIDE DEF v
  <2>2. Fresh(z)
    <3>1. z = y \/ (~z.running /\ ~z.idle)
      BY <1>7, <1>11, EnsureFields
    <3>2. z.running \in BOOLEAN
      BY <1>9 DEF Session
    <3> QED BY <1>8, <1>11, <3>1, <3>2 DEF Fresh
  <2>3. Follows(v, gen') /\ Fresh(v)
    BY <1>9, <2>1, <2>2, AsideFollows
  <2> QED BY <1>10, <1>11, <2>1, <2>3 DEF v
<1>12. CASE z.proc # "none" /\ kind = "files" /\ Becomes(Push(z), 0)
  BY <1>9, <1>10, <1>12
<1>13. CASE /\ z.proc # "none"
            /\ LET w == Changed(JoinTurn(z), gen')
               IN \/ w.proc = "live" /\ w.recapping /\ Becomes(Push(w), 1)
                  \/ w.proc = "live" /\ ~w.recapping
                     /\ Becomes(Push([Told(w, w.held) EXCEPT !.done = FALSE]), 1)
                  \/ w.proc = "exited" /\ Becomes(Push(w), 0)
  <2> DEFINE j == JoinTurn(z)
             w == Changed(j, gen')
             u == Told(w, w.held)
             v == [u EXCEPT !.done = FALSE]
  <2>1. j \in Session /\ Sound(j) /\ Follows(j, gen')
    BY <1>9, <1>13, JoinTurnSound, JoinFollows
  <2>2. \/ Becomes(Push(w), 1) \/ Becomes(Push(w), 0) \/ Becomes(Push(v), 1)
    BY <1>13
  <2> HIDE DEF j
  <2>3. w \in Session /\ Sound(w) /\ Follows(w, gen') /\ Fresh(w)
    BY <2>1, ChangedSound, ChangedFollows
  <2> HIDE DEF w
  <2>4. u \in Session /\ Follows(u, gen') /\ Fresh(u)
    <3>1. w.held \in SUBSET Event
      BY <2>3 DEF Session
    <3> QED BY <2>3, <3>1, ToldSound, ToldAside, AsideFollows
  <2> HIDE DEF u
  <2>5. v \in Session /\ Aside(u, v)
    BY ZenonT(60), <2>4 DEF Session, Aside, Rest
  <2> HIDE DEF v
  <2>6. Follows(v, gen') /\ Fresh(v)
    BY <2>4, <2>5, AsideFollows
  <2> QED BY <1>10, <2>2, <2>3, <2>5, <2>6
<1> QED BY <1>6, <1>11, <1>12, <1>13

LEMMA SendPromptDoes ==
  ASSUME NInv, NEW kind, SendPrompt(kind)
  PROVE  Does
<1> DEFINE x == [s EXCEPT !.refreshRetries = 0]
<1>1. x \in Session /\ Alike(s, x) /\ Aside(s, x)
  BY Known DEF NInv, Session, Alike, Aside, Rest
<1>2. Send(x, kind, TRUE) /\ Ready /\ s.alive /\ doing' = doing
  BY DEF SendPrompt, Ready
<1> HIDE DEF x
<1>3. Sound(x) /\ x.alive
  BY <1>1, <1>2, AlikeSound DEF NInv, IInv, Alike
<1> QED BY <1>1, <1>2, <1>3, SendDoes

(* claude is started if need be, and a turn with it.                       *)
LEMMA StartedDoes ==
  ASSUME NInv, NEW x \in Session, Sound(x), x.alive, Rest(s, x), doing' = "loop",
         gen' \in Nat, gen \in Nat, gen <= gen', Follows(x, gen'), s.proc = "live" => x.proc = "live",
         NEW y \in EnsureProc(x, gen'), NEW n,
         \/ Becomes(Changed(y, gen'), n)
         \/ y.proc # "none" /\ Becomes(Changed(InTurn(y), gen'), n)
         \/ y.proc # "none" /\ Becomes(Changed(Told(InTurn(y), y.held), gen'), n)
  PROVE  Does
<1>1. y \in Session /\ Sound(y)
  BY EnsureProcSound
<1>2. Follows(y, gen') /\ Rest(x, y)
  BY EnsureFollows
<1>3. Rest(s, y) /\ y.alive
  BY <1>2 DEF Rest
<1>4. CASE Becomes(Changed(y, gen'), n)
  BY <1>1, <1>2, <1>4, PushedDoes
<1>5. CASE y.proc # "none"
  <2> DEFINE b == InTurn(y)
             u == Told(b, y.held)
  <2>1. b \in Session /\ Sound(b) /\ Follows(b, gen')
    BY <1>1, <1>2, <1>3, <1>5, InTurnSound, InTurnFollows
  <2>2. Becomes(Changed(y, gen'), n) \/ Becomes(Changed(b, gen'), n) \/ Becomes(Changed(u, gen'), n)
    OBVIOUS
  <2> HIDE DEF b
  <2>3. u \in Session /\ Follows(u, gen')
    <3>1. y.held \in SUBSET Event
      BY <1>1 DEF Session
    <3> QED BY <2>1, <3>1, ToldSound, ToldAside, AsideFollows
  <2> HIDE DEF u
  <2> QED BY <1>4, <2>1, <2>2, <2>3, PushedDoes
<1> QED BY <1>4, <1>5

LEMMA ProcessEventDoes ==
  ASSUME NInv, NEW e \in Event, NEW wake \in BOOLEAN, ProcessEvent(e, wake)
  PROVE  Does
<1> DEFINE h == s.held \cup {e}
           keep == [s EXCEPT !.held = h]
           told == Told(s, {e})
<1>1. s.alive /\ doing' = doing /\ doing = "loop" /\ gen \in Nat
  BY Known DEF ProcessEvent, Ready, NInv
<1>2. s \in Session /\ Sound(s) /\ h \in SUBSET Event
  BY Known DEF NInv, IInv, Session
<1>3. \/ Becomes(Changed(keep, gen), 0) /\ gen' = gen
      \/ Becomes(Changed(told, gen), 1) /\ gen' = gen
      \/ /\ ~(s.turnActive /\ s.proc # "none")
         /\ MayStart(keep)
         /\ \E z \in EnsureProc(keep, gen') :
              \/ z.proc = "none" /\ Becomes(Changed(z, gen'), 0)
              \/ z.proc = "live" /\ Becomes(Changed(Told(BeginTurn(z), z.held), gen'), 1)
              \/ z.proc = "exited" /\ Becomes(Changed(BeginTurn(z), gen'), 0)
  BY DEF ProcessEvent
<1> HIDE DEF h
<1>4. keep \in Session /\ Alike(s, keep) /\ Aside(s, keep)
  BY <1>2 DEF Session, Alike, Aside, Rest
<1> HIDE DEF keep
<1>5. CASE Becomes(Changed(keep, gen), 0) /\ gen' = gen
  <2>1. Follows(keep, gen')
    BY <1>1, <1>4, <1>5, SelfFollows, AsideFollows
  <2> QED BY <1>1, <1>4, <1>5, <2>1, PushedDoes
<1>6. CASE Becomes(Changed(told, gen), 1) /\ gen' = gen
  <2>1. told \in Session /\ Aside(s, told)
    BY <1>2, ToldSound, ToldAside
  <2> HIDE DEF told
  <2>2. Follows(told, gen')
    BY <1>1, <1>6, <2>1, SelfFollows, AsideFollows
  <2> QED BY <1>1, <1>6, <2>1, <2>2, PushedDoes
<1>7. CASE /\ ~(s.turnActive /\ s.proc # "none")
           /\ MayStart(keep)
           /\ \E z \in EnsureProc(keep, gen') :
                \/ z.proc = "none" /\ Becomes(Changed(z, gen'), 0)
                \/ z.proc = "live" /\ Becomes(Changed(Told(BeginTurn(z), z.held), gen'), 1)
                \/ z.proc = "exited" /\ Becomes(Changed(BeginTurn(z), gen'), 0)
  <2>1. gen' \in Nat /\ gen <= gen'
    BY <1>7, Grows
  <2>2. PICK z \in EnsureProc(keep, gen') :
                \/ z.proc = "none" /\ Becomes(Changed(z, gen'), 0)
                \/ z.proc = "live" /\ Becomes(Changed(Told(BeginTurn(z), z.held), gen'), 1)
                \/ z.proc = "exited" /\ Becomes(Changed(BeginTurn(z), gen'), 0)
    BY <1>7
  <2>3. Sound(keep) /\ keep.alive /\ Rest(s, keep) /\ ~keep.turnActive
    BY <1>1, <1>2, <1>4, <1>7, AlikeSound DEF Alike, Aside, Sound
  <2>4. Follows(keep, gen')
    BY <1>4, <2>1, SelfFollows, AsideFollows
  <2>5. InTurn(z) = BeginTurn(z)
    BY <1>4, <2>3, EnsureFields DEF InTurn, Rest
  <2>6. \E n : \/ Becomes(Changed(z, gen'), n)
               \/ z.proc # "none" /\ Becomes(Changed(InTurn(z), gen'), n)
               \/ z.proc # "none" /\ Becomes(Changed(Told(InTurn(z), z.held), gen'), n)
    BY <2>2, <2>5
  <2> QED BY <1>1, <1>4, <2>1, <2>3, <2>4, <2>6, StartedDoes DEF Aside
<1> QED BY <1>3, <1>5, <1>6, <1>7

LEMMA ContinueDoes ==
  ASSUME NInv, ContinueTurn
  PROVE  Does
<1>1. s.alive /\ doing' = "loop" /\ MayStart(s) /\ s \in Session /\ Sound(s)
  BY Known DEF ContinueTurn, Ready, NInv, IInv
<1>2. gen' \in Nat /\ gen \in Nat /\ gen <= gen' /\ Follows(s, gen') /\ Rest(s, s)
  BY <1>1, Grows, SelfFollows
<1>3. PICK y \in EnsureProc(s, gen') : \E n \in Nat :
         \/ Becomes(Changed(y, gen'), n)
         \/ y.proc # "none" /\ Becomes(Changed(InTurn(y), gen'), n)
  BY DEF ContinueTurn, InTurn
<1> QED BY <1>1, <1>2, <1>3, StartedDoes

(* claude is closed at the user's wish or because it is idle.              *)
LEMMA CloseFollows ==
  ASSUME NEW x \in Session, NEW g, Follows(x, g), x.proc # "none", MayClose
  PROVE  Follows(CloseProc(x), g)
<1> DEFINE c == CloseProc(x)
<1>1. Rest(x, c) /\ c.proc = "exited" /\ c.gen = x.gen /\ c.started = x.started
  BY CloseFields
<1> HIDE DEF c
<1>2. Moves(s, c)
  BY <1>1 DEF Follows, Moves, Rest, Began, Asked, Settled, Ended, EndedNone, Closed
<1>3. Aged(c, g) /\ Spared(c, g)
  BY <1>1 DEF Follows, Aged, Spared
<1> QED BY <1>2, <1>3 DEF Follows, c

LEMMA InterruptDoes ==
  ASSUME NInv, Interrupt
  PROVE  Does
<1> DEFINE x == [s EXCEPT !.interrupted = TRUE]
           c == CloseProc(x)
<1>1. /\ s.proc # "none" /\ doing' = "loop" /\ gen' = gen
      /\ s' = Changed(x, gen) \/ Becomes(Changed(c, gen), 0)
  BY DEF Interrupt, Ready
<1>2. s \in Session /\ gen \in Nat
  BY Known DEF NInv
<1>3. x \in Session /\ Aside(s, x)
  BY <1>2 DEF Session, Aside, Rest
<1> HIDE DEF x
<1>4. Follows(x, gen')
  BY <1>1, <1>2, <1>3, SelfFollows, AsideFollows
<1>5. CASE s' = Changed(x, gen)
  BY <1>1, <1>3, <1>4, <1>5, ChangedFollows DEF Does, Stepping
<1>6. CASE Becomes(Changed(c, gen), 0)
  <2>1. c \in Session
    BY <1>3 DEF CloseProc, Session, ProcState
  <2>2. Follows(c, gen')
    BY <1>1, <1>3, <1>4, CloseFollows DEF MayClose, Aside
  <2> HIDE DEF c
  <2> QED BY <1>1, <1>6, <2>1, <2>2, PushedDoes
<1> QED BY <1>1, <1>5, <1>6

LEMMA RestartDoes ==
  ASSUME NInv, Restart
  PROVE  Does
<1>1. s \in Session /\ Sound(s) /\ gen \in Nat /\ doing = "loop" /\ s.alive
  BY Known DEF NInv, IInv, Restart, Ready
<1>2. CASE s.proc # "none" /\ Becomes(CloseProc(s), 0) /\ doing' = "restart" /\ gen' = gen
  <2>1. Follows(CloseProc(s), gen') /\ CloseProc(s).proc = "exited"
    BY <1>1, <1>2, SelfFollows, CloseFollows, CloseFields DEF MayClose
  <2> QED BY <1>2, <2>1, PlainDoes DEF Stepping
<1>3. CASE /\ MayStart(s) /\ doing' = doing
           /\ \E y \in EnsureProc(s, gen') : Becomes(Changed(y, gen'), 0)
  <2>1. gen' \in Nat /\ gen <= gen' /\ Follows(s, gen') /\ Rest(s, s)
    BY <1>3, Grows, SelfFollows
  <2> QED BY <1>1, <1>3, <2>1, StartedDoes
<1> QED BY <1>2, <1>3 DEF Restart

LEMMA RewindDoes ==
  ASSUME NInv, NEW files \in BOOLEAN, Rewind(files)
  PROVE  Does
<1>1. s \in Session /\ Sound(s) /\ gen \in Nat /\ doing = "loop" /\ s.alive
  BY Known DEF NInv, IInv, Rewind, Ready
<1>2. gen' \in Nat /\ gen <= gen'
  <2>1. CASE files
    BY <2>1, Grows DEF Rewind
  <2>2. CASE ~files
    BY <1>1, <2>2 DEF Rewind
  <2> QED BY <2>1, <2>2
<1>3. Follows(s, gen') /\ Rest(s, s)
  BY <1>2, SelfFollows
<1>4. PICK y : /\ y = s \/ y \in EnsureProc(s, gen')
               /\ \/ Becomes(Changed(y, gen'), 0) /\ doing' = doing
                  \/ y.proc # "none" /\ Becomes(CloseProc(y), 0) /\ doing' = "rewind"
  BY DEF Rewind
<1>5. y \in Session /\ Follows(y, gen')
  BY <1>1, <1>2, <1>3, <1>4, EnsureProcSound, EnsureFollows
<1>6. CASE Becomes(Changed(y, gen'), 0) /\ doing' = doing
  BY <1>1, <1>5, <1>6, PushedDoes
<1>7. CASE y.proc # "none" /\ Becomes(CloseProc(y), 0) /\ doing' = "rewind"
  <2>1. Follows(CloseProc(y), gen') /\ CloseProc(y).proc = "exited"
    BY <1>5, <1>7, CloseFollows, CloseFields DEF MayClose
  <2> QED BY <1>7, <2>1, PlainDoes DEF Stepping
<1> QED BY <1>4, <1>6, <1>7

LEMMA RespondDoes ==
  ASSUME NInv, NEW r \in Request, Respond(r)
  PROVE  Does
<1> DEFINE x == Resolve(s, {r})
<1>1. s \in Session /\ Sound(s) /\ gen \in Nat
  BY Known DEF NInv, IInv
<1>2. /\ doing' = "loop" /\ gen' = gen /\ r \in s.pending /\ s.alive
      /\ s' = Changed(x, gen) \/ Becomes(Changed(s, gen), 0)
  BY DEF Respond, Ready
<1>3. CASE Becomes(Changed(s, gen), 0)
  BY <1>1, <1>2, <1>3, SelfFollows, PushedDoes
<1>4. CASE s' = Changed(x, gen)
  <2>1. x \in Session
    BY <1>1, ResolveSound
  <2>2. /\ x.alive = s.alive /\ x.begun = s.begun /\ x.turnActive = s.turnActive /\ x.seen = s.seen
        /\ x.proc = s.proc /\ x.gen = s.gen /\ x.started = s.started
        /\ x.outcomes = [q \in Request |-> IF q \in {r} \cap s.pending THEN s.outcomes[q] + 1 ELSE s.outcomes[q]]
    BY <1>1 DEF Resolve, Session
  <2> HIDE DEF x
  <2>3. Settled(s, x)
    BY <1>2, <2>2 DEF Settled
  <2>4. Follows(s, gen')
    BY <1>1, <1>2, SelfFollows
  <2>5. Follows(x, gen')
    BY <2>2, <2>3, <2>4 DEF Follows, Moves, Aged, Spared
  <2> QED BY <1>2, <1>4, <2>1, <2>5, ChangedFollows DEF Does, Stepping
<1> QED BY <1>2, <1>3, <1>4

LEMMA MarkDoneDoes ==
  ASSUME NInv, MarkDone
  PROVE  Does
<1> DEFINE a == [s EXCEPT !.doneAfterTurn = TRUE]
           b == [s EXCEPT !.done = TRUE]
<1>1. s \in Session /\ gen \in Nat /\ doing' = "loop" /\ gen' = gen /\ Fresh(s)
  BY Known DEF NInv, MarkDone, Ready, Stepping
<1>2. s' = a \/ s' = b
  BY DEF MarkDone
<1>3. Aside(s, a) /\ Aside(s, b)
  BY <1>1 DEF Session, Aside, Rest
<1> HIDE DEF a, b
<1>4. Follows(s', gen') /\ Fresh(s')
  BY <1>1, <1>2, <1>3, SelfFollows, AsideFollows
<1> QED BY <1>1, <1>4 DEF Does, Stepping

LEMMA PushDoes ==
  ASSUME NInv, HandleOther \/ Nudge
  PROVE  Does
<1>1. s \in Session /\ gen \in Nat /\ doing' = "loop" /\ gen' = gen /\ Becomes(Changed(s, gen), 0)
  BY Known DEF NInv, HandleOther, Nudge, Ready
<1> QED BY <1>1, SelfFollows, PushedDoes

-----------------------------------------------------------------------------
(* The end of claude, the retry, the idle timer and the end of the session. *)

LEMMA ExitFollows ==
  ASSUME NInv, s.alive, s.proc = "exited", NEW failed \in BOOLEAN, NEW g
  PROVE  /\ OnExit(s, failed) \in Session /\ Sound(OnExit(s, failed))
         /\ OnExit(s, failed).alive
         /\ Follows(OnExit(s, failed), g)
         /\ Fresh(OnExit(s, failed))
<1> DEFINE expected == s.stopping \/ s.interrupted
           how == IF expected THEN "interrupted" ELSE "error"
           y == IF s.turnActive THEN EndTurn(s, how) ELSE s
           st == IF failed /\ ~expected THEN "error" ELSE "stopped"
           z == [y EXCEPT !.proc = "none", !.args = FALSE, !.status = st,
                          !.stopping = FALSE, !.interrupted = FALSE]
           w == Changed(z, gen)
<1>1. s \in Session /\ Sound(s) /\ Quiet(s)
  BY Known DEF NInv, Fit
<1>2. w = OnExit(s, failed)
  BY DEF OnExit
<1>3. how \in Outcome /\ st \in Status /\ (s.interrupted => how = "interrupted")
  BY <1>1 DEF Outcome, Status
<1>4. w \in Session /\ Sound(w) /\ w.alive
  BY <1>1, <1>2, OnExitSound DEF Same
<1>5. y \in Session
  BY <1>1, <1>3, EndTurnSound
<1>6. Moves(s, y)
  <2>1. CASE s.turnActive
    <3>1. s.begun # 0
      BY <1>1, <2>1 DEF Sound
    <3> QED BY <1>1, <1>3, <2>1, <3>1, EndFields DEF Moves, Ended
  <2>2. CASE ~s.turnActive
    BY <2>2 DEF Moves, Rest
  <2> QED BY <2>1, <2>2
<1> HIDE DEF y, how, st, expected
<1>7. Rest(y, z) /\ z.proc = "none"
  BY <1>5 DEF Session, Rest
<1>8. z \in Session
  BY ZenonT(60), <1>3, <1>5 DEF Session, ProcState
<1> HIDE DEF z
<1>9. Rest(z, w) /\ Fresh(w) /\ w.proc = "none"
  BY <1>7, <1>8, ChangedFields
<1> HIDE DEF w
<1>10. Moves(s, w)
  <2>1. Rest(y, w)
    BY <1>7, <1>9 DEF Rest
  <2> QED BY <1>6, <2>1 DEF Moves, Rest, Began, Asked, Settled, Ended, EndedNone, Closed
<1>11. Aged(w, g) /\ Spared(w, g)
  BY <1>9 DEF Aged, Spared
<1> QED BY <1>2, <1>4, <1>9, <1>10, <1>11 DEF Follows

LEMMA ProcExitsDoes ==
  ASSUME NInv, ProcExits
  PROVE  Does
<1>1. PICK failed \in BOOLEAN : Becomes(OnExit(s, failed), 0)
  BY DEF ProcExits
<1>2. s.alive /\ s.proc = "exited" /\ doing' = "loop"
  BY DEF ProcExits, Ready
<1>3. Follows(OnExit(s, failed), gen') /\ Fresh(OnExit(s, failed))
  BY <1>2, ExitFollows
<1> QED BY <1>1, <1>2, <1>3, PlainDoes DEF Stepping

(* A started claude after a stop: the session's record x has none.         *)
LEMMA FinishStopDoes ==
  ASSUME NInv, FinishStop
  PROVE  Does
<1> DEFINE x == OnExit(s, FALSE)
<1>1. /\ s.alive /\ doing' = "loop" /\ doing # "loop"
      /\ \/ Becomes(Changed(x, gen), 0) /\ gen' = gen
         \/ MayStart(x) /\ \E y \in EnsureProc(x, gen') : Becomes(Changed(y, gen'), 0)
  BY DEF FinishStop
<1>2. s.proc = "exited" /\ gen \in Nat
  BY <1>1, Known DEF NInv, Stepping
<1>3. x \in Session /\ Sound(x) /\ x.alive /\ Follows(x, gen')
  BY <1>1, <1>2, ExitFollows
<1> HIDE DEF x
<1>4. CASE Becomes(Changed(x, gen), 0) /\ gen' = gen
  BY <1>1, <1>3, <1>4, PushedDoes
<1>5. CASE MayStart(x) /\ \E y \in EnsureProc(x, gen') : Becomes(Changed(y, gen'), 0)
  <2>1. gen' \in Nat /\ gen <= gen'
    BY <1>5, Grows
  <2>2. PICK y \in EnsureProc(x, gen') : Becomes(Changed(y, gen'), 0)
    BY <1>5
  <2>3. y \in Session /\ Follows(y, gen')
    BY <1>2, <1>3, <2>1, EnsureProcSound, EnsureFollows
  <2> QED BY <1>1, <2>2, <2>3, PushedDoes
<1> QED BY <1>1, <1>4, <1>5

LEMMA RunRetryDoes ==
  ASSUME NInv, NEW t \in fired, RunRetry(t)
  PROVE  Does
<1> DEFINE x == [s EXCEPT !.refreshRetry = 0]
<1>1. s \in Session /\ Sound(s) /\ gen \in Nat /\ t # 0
  BY Known DEF NInv, IInv
<1>2. /\ Ready /\ s.alive /\ doing' = doing /\ doing = "loop"
      /\ \/ s' = s /\ gen' = gen
         \/ s.refreshRetry = t /\ Send(x, "recap", FALSE)
         \/ /\ s.refreshRetry = t /\ MayStart(x)
            /\ \E y \in EnsureProc(x, gen') :
                 \/ y.proc = "none" /\ Becomes(Changed(y, gen'), 0)
                 \/ /\ y.proc # "none"
                    /\ Becomes(Changed(BeginTurn(y), gen'), IF y.proc = "live" THEN 1 ELSE 0)
  BY DEF RunRetry, Ready
<1>3. x \in Session /\ Aside(s, x)
  BY <1>1 DEF Session, Aside, Rest
<1>4. Sound(x)
  <2>1. /\ x.args = s.args /\ x.refreshRetry = 0 /\ x.pending = s.pending /\ x.proc = s.proc
    BY <1>1 DEF Session
  <2> QED BY <1>1, <1>3, <2>1 DEF Sound, Aside, Rest
<1> HIDE DEF x
<1>5. x.alive /\ Rest(s, x)
  BY <1>2, <1>3 DEF Aside, Rest
<1>6. CASE s' = s /\ gen' = gen
  BY <1>1, <1>2, <1>6, IdleDoes
<1>7. CASE Send(x, "recap", FALSE)
  BY <1>2, <1>3, <1>4, <1>5, <1>7, SendDoes
<1>8. CASE /\ s.refreshRetry = t /\ MayStart(x)
           /\ \E y \in EnsureProc(x, gen') :
                \/ y.proc = "none" /\ Becomes(Changed(y, gen'), 0)
                \/ /\ y.proc # "none"
                   /\ Becomes(Changed(BeginTurn(y), gen'), IF y.proc = "live" THEN 1 ELSE 0)
  <2>1. gen' \in Nat /\ gen <= gen'
    BY <1>8, Grows
  <2>2. Follows(x, gen')
    BY <1>3, <2>1, SelfFollows, AsideFollows
  <2>3. PICK y \in EnsureProc(x, gen') :
               \/ y.proc = "none" /\ Becomes(Changed(y, gen'), 0)
               \/ /\ y.proc # "none"
                  /\ Becomes(Changed(BeginTurn(y), gen'), IF y.proc = "live" THEN 1 ELSE 0)
    BY <1>8
  <2>4. ~s.turnActive
    BY <1>1, <1>8 DEF Sound
  <2>5. InTurn(y) = BeginTurn(y)
    BY <1>3, <2>4, EnsureFields DEF InTurn, Aside, Rest
  <2>6. \E n : \/ Becomes(Changed(y, gen'), n)
               \/ y.proc # "none" /\ Becomes(Changed(InTurn(y), gen'), n)
    BY <2>3, <2>5
  <2> QED BY <1>1, <1>2, <1>3, <1>4, <1>5, <2>1, <2>2, <2>6, StartedDoes DEF Aside
<1> QED BY <1>2, <1>6, <1>7, <1>8

LEMMA IdleTimeoutDoes ==
  ASSUME NInv, IdleTimeout
  PROVE  Does
<1> DEFINE x == [s EXCEPT !.idle = FALSE]
           c == CloseProc(x)
<1>1. s \in Session /\ gen \in Nat /\ doing' = "loop" /\ gen' = gen /\ Fresh(s)
  BY Known DEF NInv, IdleTimeout, Ready, Stepping
<1>2. Becomes(x, 0) \/ (s.proc # "none" /\ Becomes(c, 0))
  BY DEF IdleTimeout
<1>3. /\ x \in Session /\ Rest(s, x) /\ x.proc = s.proc /\ x.gen = s.gen /\ x.started = s.started
      /\ x.status = s.status /\ x.pending = s.pending /\ x.running = s.running /\ x.idle = FALSE
  BY <1>1 DEF Session, Rest
<1> HIDE DEF x
<1>4. Follows(x, gen')
  BY <1>1, <1>3, SelfFollows, RestFollows
<1>5. Fresh(x)
  BY <1>1, <1>3 DEF Fresh, StatusOf, Rest
<1>6. CASE Becomes(x, 0)
  BY <1>1, <1>4, <1>5, <1>6, PlainDoes DEF Stepping
<1>7. CASE s.proc # "none" /\ Becomes(c, 0)
  <2>1. Follows(c, gen')
    BY <1>3, <1>4, <1>7, CloseFollows DEF MayClose
  <2>2. Fresh(c)
    BY <1>3, <1>5, <1>7, CloseFields DEF Fresh, StatusOf, Rest
  <2> QED BY <1>1, <1>7, <2>1, <2>2, PlainDoes DEF Stepping
<1> QED BY <1>2, <1>6, <1>7

LEMMA QuitDoes ==
  ASSUME NInv, Quit
  PROVE  Does
<1> DEFINE x == [s EXCEPT !.alive = FALSE, !.proc = "none", !.args = FALSE,
                          !.stopping = s.stopping \/ s.proc # "none"]
<1>1. Becomes(x, 0) /\ s.alive
  BY DEF Quit, Ready
<1>2. x.alive = FALSE /\ x.proc = "none" /\ x.begun = s.begun /\ x.seen = s.seen /\ x.outcomes = s.outcomes
  BY Known DEF NInv, Session
<1> HIDE DEF x
<1>3. Follows(x, gen')
  BY <1>1, <1>2 DEF Follows, Moves, Closed, Aged, Spared
<1> QED BY <1>1, <1>2, <1>3, PlainDoes DEF Stepping

-----------------------------------------------------------------------------
(* claude's messages.                                                      *)

LEMMA ScheduleFollows ==
  ASSUME NEW x \in Session, Sound(x), NEW recap, gen' = gen, Follows(x, gen)
  PROVE  /\ Follows(ScheduleRefreshRetry(x, recap), gen)
         /\ x.proc = "exited" => ScheduleRefreshRetry(x, recap).proc = "exited"
<1> DEFINE n == x.refreshRetries + 1
           t == x.timers + 1
           y == [x EXCEPT !.refreshRetries = n]
           w == Changed(y, gen)
           z == ScheduleRefreshRetry(x, recap)
<1>1. n \in Nat
  BY DEF Session
<1> HIDE DEF n
<1>2. y \in Session /\ Aside(x, y) /\ Alike(x, y)
  BY <1>1 DEF Session, Aside, Rest, Alike
<1>3. z = [w EXCEPT !.timers = t, !.refreshRetry = t, !.recaps = IF recap THEN w.recaps \cup {t} ELSE w.recaps]
  BY DEF ScheduleRefreshRetry, n
<1> HIDE DEF y
<1>4. Follows(y, gen) /\ Sound(y) /\ y.proc = x.proc
  BY <1>2, AsideFollows, AlikeSound DEF Aside
<1>5. w \in Session /\ Follows(w, gen) /\ (y.proc = "exited" => w.proc = "exited")
  BY <1>2, <1>4, ChangedSound, ChangedFollows, ChangedFields
<1> HIDE DEF w, t, z
<1>6. Aside(w, z)
  BY <1>3, <1>5 DEF Session, Aside, Rest
<1>7. Follows(z, gen) /\ z.proc = w.proc
  BY <1>5, <1>6, AsideFollows DEF Aside
<1> QED BY <1>4, <1>5, <1>7 DEF z

LEMMA OnResultFollows ==
  ASSUME NInv, s.alive, NEW t, gen' = gen
  PROVE  /\ Follows(OnResult(s, t), gen)
         /\ s.proc = "exited" => OnResult(s, t).proc = "exited"
<1> DEFINE how == IF s.interrupted THEN "interrupted" ELSE IF t = "error" THEN "error" ELSE "completed"
           n == IF how = "completed" /\ ~Harness THEN 0 ELSE s.refreshRetries
           v == [s EXCEPT !.refreshRetries = n]
           y == EndTurn(v, how)
           u == ScheduleRefreshRetry(y, s.recapping)
<1>1. s \in Session /\ Sound(s) /\ gen \in Nat
  BY Known DEF NInv, IInv
<1>2. OnResult(s, t) = u \/ OnResult(s, t) = y
  BY DEF OnResult
<1>3. how \in Outcome /\ n \in Nat /\ (s.interrupted => how = "interrupted")
  BY <1>1 DEF Outcome, Session
<1> HIDE DEF how, n
<1>4. v \in Session /\ Aside(s, v) /\ Alike(s, v)
  BY <1>1, <1>3 DEF Session, Aside, Rest, Alike
<1> HIDE DEF v
<1>5. Sound(v)
  BY <1>1, <1>4, AlikeSound
<1>6. y \in Session /\ Sound(y)
  BY <1>3, <1>4, <1>5, EndTurnSound
<1>7. /\ y.alive = s.alive /\ y.seen = s.seen /\ y.begun = 0 /\ ~y.turnActive /\ y.ended = how
      /\ y.proc = s.proc /\ y.gen = s.gen /\ y.started = s.started
      /\ y.outcomes = [q \in Request |-> IF q \in s.pending THEN s.outcomes[q] + 1 ELSE s.outcomes[q]]
  <2>1. /\ v.alive = s.alive /\ v.seen = s.seen /\ v.proc = s.proc /\ v.gen = s.gen
        /\ v.started = s.started /\ v.pending = s.pending /\ v.outcomes = s.outcomes
    BY <1>4 DEF Aside, Rest
  <2>2. /\ y.alive = v.alive /\ y.seen = v.seen /\ y.begun = 0 /\ ~y.turnActive /\ y.ended = how
        /\ y.proc = v.proc /\ y.gen = v.gen /\ y.started = v.started
        /\ y.outcomes = [q \in Request |-> IF q \in v.pending THEN v.outcomes[q] + 1 ELSE v.outcomes[q]]
    BY <1>4, EndFields
  <2> HIDE DEF y
  <2> QED BY <2>1, <2>2
<1> HIDE DEF y
<1>8. Moves(s, y)
  <2>1. CASE s.turnActive
    <3>1. s.begun # 0
      BY <1>1, <2>1 DEF Sound
    <3> QED BY <1>3, <1>7, <3>1 DEF Moves, Ended
  <2>2. CASE ~s.turnActive
    <3>1. s.pending = {} /\ s.begun = 0
      BY <1>1, <2>2 DEF Sound
    <3>2. s.outcomes = [q \in Request |-> s.outcomes[q]]
      BY <1>1 DEF Session
    <3>3. y.outcomes = s.outcomes
      BY <1>7, <3>1, <3>2
    <3> QED BY <1>7, <2>2, <3>1, <3>3 DEF Moves, EndedNone
  <2> QED BY <2>1, <2>2
<1>9. Follows(y, gen)
  <2>1. Follows(s, gen)
    BY <1>1, SelfFollows
  <2> QED BY <1>7, <1>8, <2>1 DEF Follows, Aged, Spared
<1>10. Follows(u, gen) /\ (y.proc = "exited" => u.proc = "exited")
  BY <1>6, <1>9, ScheduleFollows
<1> HIDE DEF u
<1> QED BY <1>2, <1>7, <1>9, <1>10

LEMMA HandledFollows ==
  ASSUME NInv, s.alive, s.proc # "none", gen' = gen,
         NEW m \in Message, m.t = "ask" => m.r \in Request \ s.seen
  PROVE  /\ Follows(Handled(s, m), gen)
         /\ s.proc = "exited" => Handled(s, m).proc = "exited"
<1> DEFINE y == Handled(s, m)
           i == InTurn(s)
<1>1. s \in Session /\ Sound(s) /\ gen \in Nat
  BY Known DEF NInv, IInv
<1>2. Follows(s, gen) /\ Rest(s, s)
  BY <1>1, SelfFollows
<1>3. i \in Session /\ Follows(i, gen) /\ i.proc = s.proc
  BY <1>1, <1>2, InTurnSound, InTurnFollows
<1>4. m.t \in {"output", "busy", "ask", "cancel", "ok", "error"}
  BY DEF Message
<1>5. CASE m.t = "output"
  BY <1>3, <1>5 DEF Handled
<1>6. CASE m.t = "busy"
  <2> HIDE DEF i
  <2>1. y = [i EXCEPT !.refreshBusy = TRUE] \/ y = [i EXCEPT !.authFailed = TRUE]
    BY <1>6 DEF Handled, OnBusy, i
  <2>2. Aside(i, y)
    BY <1>3, <2>1 DEF Session, Aside, Rest
  <2> QED BY <1>3, <2>2, AsideFollows DEF Aside
<1>7. CASE m.t = "ask"
  <2>1. y = [i EXCEPT !.pending = @ \cup {m.r}, !.seen = @ \cup {m.r}]
    BY <1>7 DEF Handled, OnPermission
  <2>2. /\ i.alive = s.alive /\ i.seen = s.seen /\ i.outcomes = s.outcomes
        /\ i.begun # 0 /\ i.turnActive /\ i.gen = s.gen /\ i.started = s.started
    <3>1. CASE s.turnActive
      <4>1. i = s /\ s.begun = 1 /\ 1 # 0
        BY <1>1, <3>1 DEF InTurn, Sound
      <4> HIDE DEF i
      <4> QED BY <3>1, <4>1
    <3>2. CASE ~s.turnActive
      <4> DEFINE b == BeginTurn(s)
      <4>1. i = b /\ s.begun = 0
        BY <1>1, <3>2 DEF InTurn, Sound
      <4>2. /\ b.alive = s.alive /\ b.seen = s.seen /\ b.outcomes = s.outcomes
            /\ b.begun = s.begun + 1 /\ b.turnActive /\ b.gen = s.gen /\ b.started = s.started
        BY <1>1, BeginFields
      <4> HIDE DEF i, b
      <4> QED BY <4>1, <4>2
    <3> QED BY <3>1, <3>2
  <2> HIDE DEF i, y
  <2>3. /\ y.alive = s.alive /\ y.seen = s.seen \cup {m.r} /\ y.outcomes = s.outcomes
        /\ y.begun # 0 /\ y.turnActive /\ y.proc = s.proc /\ y.gen = s.gen /\ y.started = s.started
    <3>1. i \in Session
      BY <1>3
    <3>2. y.alive = i.alive /\ y.seen = i.seen \cup {m.r} /\ y.outcomes = i.outcomes
      BY <2>1, <3>1 DEF Session
    <3>3. y.begun = i.begun /\ y.turnActive = i.turnActive /\ y.proc = i.proc
      BY <2>1, <3>1 DEF Session
    <3>4. y.gen = i.gen /\ y.started = i.started
      BY <2>1, <3>1 DEF Session
    <3>5. i.proc = s.proc
      BY <1>3
    <3> QED BY <2>2, <3>2, <3>3, <3>4, <3>5
  <2>4. Asked(s, y)
    BY <1>7, <2>3 DEF Asked
  <2>5. Follows(y, gen)
    BY <1>2, <2>3, <2>4 DEF Follows, Moves, Aged, Spared
  <2> QED BY <2>3, <2>5 DEF y
<1>8. CASE m.t = "cancel"
  <2>1. y = Resolve(s, {m.r})
    BY <1>8 DEF Handled
  <2>2. /\ y.alive = s.alive /\ y.begun = s.begun /\ y.turnActive = s.turnActive /\ y.seen = s.seen
        /\ y.proc = s.proc /\ y.gen = s.gen /\ y.started = s.started /\ y.ended = s.ended
        /\ y.outcomes = [q \in Request |-> IF q \in {m.r} \cap s.pending THEN s.outcomes[q] + 1 ELSE s.outcomes[q]]
    BY <1>1, <2>1 DEF Resolve, Session
  <2> HIDE DEF y
  <2>3. Moves(s, y)
    <3>1. CASE m.r \in s.pending
      BY <2>2, <3>1 DEF Moves, Settled
    <3>2. CASE m.r \notin s.pending
      <4>1. s.outcomes = [q \in Request |-> s.outcomes[q]]
        BY <1>1 DEF Session
      <4> QED BY <2>2, <3>2, <4>1 DEF Moves, Rest
    <3> QED BY <3>1, <3>2
  <2>4. Follows(y, gen)
    BY <1>2, <2>2, <2>3 DEF Follows, Aged, Spared
  <2> QED BY <2>2, <2>4 DEF y
<1>9. CASE m.t \in {"ok", "error"}
  <2>1. y = OnResult(s, m.t)
    BY <1>9 DEF Handled
  <2> HIDE DEF y
  <2> QED BY <2>1, OnResultFollows DEF y
<1> QED BY <1>4, <1>5, <1>6, <1>7, <1>8, <1>9

LEMMA HandleMessageDoes ==
  ASSUME NInv, HandleMessage
  PROVE  Does
<1> DEFINE m == Head(out)
           x == Handled(s, m)
           y == Changed(x, gen)
<1>1. s.alive /\ s.proc # "none" /\ out # <<>> /\ Becomes(y, 0) /\ doing' = doing /\ gen' = gen
  BY DEF HandleMessage
<1>2. out \in Seq(Message) /\ AsksAreNew
  BY DEF NInv, IInv, TypeOK
<1>3. m = out[1] /\ m \in Message /\ Len(out) \in Nat /\ Len(out) >= 1
  BY <1>1, <1>2
<1>4. m.t = "ask" => m.r \in Request \ s.seen
  BY <1>2, <1>3 DEF AsksAreNew
<1> HIDE DEF m
<1>5. x \in Session
  BY <1>1, <1>3, <1>4, Known, HandledSound DEF NInv, Fit
<1>6. Follows(x, gen) /\ (s.proc = "exited" => x.proc = "exited")
  BY <1>1, <1>3, <1>4, HandledFollows
<1> HIDE DEF x
<1>7. Follows(y, gen) /\ Fresh(y) /\ (x.proc = "exited" => y.proc = "exited")
  BY <1>5, <1>6, ChangedFollows, ChangedFields
<1> HIDE DEF y
<1>8. Stepping(y, doing')
  BY <1>1, <1>6, <1>7 DEF NInv, Stepping
<1> QED BY <1>1, <1>7, <1>8, PlainDoes

LEMMA ClaudeStepDoes ==
  ASSUME NInv, ClaudeStep
  PROVE  Does
<1>1. CASE ClaudeExits
  <2> DEFINE x == [s EXCEPT !.proc = "exited"]
  <2>1. Becomes(x, 0) /\ s.proc = "live" /\ doing' = doing /\ gen' = gen
    BY <1>1 DEF ClaudeExits
  <2>2. s \in Session /\ gen \in Nat
    BY Known DEF NInv
  <2>3. /\ Rest(s, x) /\ x.proc = "exited" /\ x.gen = s.gen /\ x.started = s.started
        /\ x.pending = s.pending /\ x.status = s.status /\ x.running = s.running /\ x.idle = s.idle
    BY <2>2 DEF Session, Rest
  <2> HIDE DEF x
  <2>4. Follows(x, gen')
    <3>1. Follows(s, gen')
      BY <2>1, <2>2, SelfFollows
    <3> QED BY <1>1, <2>1, <2>3, <3>1 DEF Follows, Moves, Aged, Spared, MayClose
  <2>5. StatusOf(x) = StatusOf(s)
    BY <2>1, <2>3 DEF StatusOf, Rest
  <2>6. Stepping(x, doing')
    BY <2>1, <2>3, <2>5 DEF NInv, Stepping, Fresh, Rest
  <2> QED BY <2>1, <2>4, <2>6, PlainDoes
<1>2. CASE ~ClaudeExits
  <2>1. s' = s /\ doing' = doing /\ gen' = gen
    BY <1>2 DEF ClaudeStep, ClaudeReads, ClaudeSays, ClaudeAsks, ClaudeWithdraws, ClaudeFinishes, Writes
  <2> QED BY <2>1, Known, IdleDoes DEF NInv
<1> QED BY <1>1, <1>2

-----------------------------------------------------------------------------
(* The theorems.                                                           *)

LEMMA NextDoes ==
  ASSUME NInv, [Next]_vars
  PROVE  Does
<1>1. CASE Command
  <2>1. ASSUME NEW kind, SendPrompt(kind) PROVE Does
    BY <2>1, SendPromptDoes
  <2>2. ASSUME NEW e \in Event, NEW wake \in BOOLEAN, ProcessEvent(e, wake) PROVE Does
    BY <2>2, ProcessEventDoes
  <2>3. ASSUME NEW files \in BOOLEAN, Rewind(files) PROVE Does
    BY <2>3, RewindDoes
  <2>4. ASSUME NEW r \in Request, Respond(r) PROVE Does
    BY <2>4, RespondDoes
  <2> QED BY <1>1, <2>1, <2>2, <2>3, <2>4, ContinueDoes, InterruptDoes, RestartDoes,
             MarkDoneDoes, PushDoes, QuitDoes DEF Command
<1>2. CASE \E t \in fired : RunRetry(t)
  BY <1>2, RunRetryDoes
<1>3. CASE RetryFires \/ NewGeneration \/ UNCHANGED vars
  <2>1. s' = s /\ doing' = doing /\ gen \in Nat /\ gen' \in {gen, gen + 1}
    BY <1>3, Known DEF NInv, RetryFires, NewGeneration, vars
  <2>2. gen' \in Nat /\ gen <= gen'
    BY <2>1
  <2> QED BY <2>1, <2>2, IdleDoes
<1> QED BY <1>1, <1>2, <1>3, ClaudeStepDoes, HandleMessageDoes, ProcExitsDoes, FinishStopDoes,
           IdleTimeoutDoes, PushDoes DEF Next

LEMMA InitNInv == Init => NInv
<1> SUFFICES ASSUME Init PROVE NInv
  OBVIOUS
<1>1. Stepping(s, doing) /\ Aged(s, gen)
  BY DEF Init, Stepping, Fresh, Aged
<1> QED BY <1>1, InitSafe DEF NInv

(* Beyond the session's own books: the status is true and claude's age     *)
(* known, in every state of every behaviour.                               *)
THEOREM AgentStepInvariant == Spec => []NInv
<1>1. NInv /\ [Next]_vars => NInv'
  <2> SUFFICES ASSUME NInv, [Next]_vars PROVE NInv'
    OBVIOUS
  <2>1. Does
    BY NextDoes
  <2>2. IInv'
    BY NextSafe DEF NInv
  <2> QED BY <2>1, <2>2 DEF NInv, Does, Follows, Stepping, Fresh, StatusOf, Aged
<1> QED BY <1>1, InitNInv, PTL DEF Spec

(* Whenever the loop waits, what clients and the thread list were told of  *)
(* the session is what its process, its requests and its turn say.         *)
THEOREM AgentStatusIsTrue == Spec => []StatusIsTrue
<1>1. NInv => StatusIsTrue
  BY DEF NInv, Stepping, Fresh, StatusIsTrue, Ready
<1> QED BY <1>1, AgentStepInvariant, PTL

(* However a turn the user interrupted ends (claude's answer, an error, a  *)
(* crash, a restart), the log says that it was interrupted.                *)
THEOREM AgentInterruptHonoured == Spec => InterruptHonoured
<1>1. NInv /\ [Next]_vars => [s.interrupted /\ s.turnActive /\ s'.alive /\ ~s'.turnActive
                                => s'.ended = "interrupted"]_vars
  <2> SUFFICES ASSUME NInv, [Next]_vars, s.interrupted, s.turnActive, s'.alive, ~s'.turnActive
               PROVE  s'.ended = "interrupted"
    OBVIOUS
  <2>1. Moves(s, s')
    BY NextDoes DEF Does, Follows
  <2> QED BY <2>1 DEF Moves, Rest, Began, Asked, Settled, Ended, EndedNone, Closed
<1> QED BY <1>1, AgentStepInvariant, PTL DEF Spec, InterruptHonoured

(* A claude that is closed without the user's wish, and not for being idle *)
(* too long, was launched before the latest update or sign-in. Another     *)
(* agent's process notes no generation, so this is about claude's threads. *)
THEOREM AgentClosedForCause ==
  ASSUME ~Harness
  PROVE  Spec => ClosedForCause
<1>1. NInv /\ [Next]_vars => [ClosedAsOutdated => s.started # gen']_vars
  <2> SUFFICES ASSUME NInv, [Next]_vars, ClosedAsOutdated
               PROVE  s.started # gen'
    OBVIOUS
  <2>1. s.proc = "live" /\ s'.proc = "exited" /\ ~MayClose
    BY DEF ClosedAsOutdated, MayClose
  <2>2. s.gen # gen' /\ s'.gen = s.gen /\ s'.gen <= gen'
    BY <2>1, NextDoes DEF Does, Follows, Spared, Aged
  <2>3. s.started <= s.gen
    BY <2>1 DEF NInv, Aged
  <2>4. s.started \in Nat /\ s.gen \in Nat /\ gen' \in Nat
    BY Known, NextSafe, BoundAssumption DEF NInv, IInv, TypeOK, Session
  <2> QED BY <2>2, <2>3, <2>4
<1> QED BY <1>1, AgentStepInvariant, PTL DEF Spec, ClosedForCause

(* The session implements its log's contract: each of its steps is one of  *)
(* ThreadLog's, or leaves the log as it is.                                *)
THEOREM AgentImplementsThreadLog == Spec => ImplementsThreadLog
<1>1. Init => Log!LogInit
  BY DEF Init, Log!LogInit, Logged
<1>2. NInv /\ [Next]_vars => [Log!LogNext]_(Log!logVars)
  <2> SUFFICES ASSUME NInv, [Next]_vars
               PROVE  [Log!LogNext]_(Log!logVars)
    OBVIOUS
  <2>1. Moves(s, s')
    BY NextDoes DEF Does, Follows
  <2>2. s \in Session /\ Sound(s)
    BY Known DEF NInv, IInv
  <2> DEFINE request == [r \in Request |-> Logged(r)]
  <2>3. ASSUME NEW r \in Request
        PROVE  /\ r \in s.pending <=> Logged(r) = "waiting"
               /\ r \in s.pending => r \in s.seen /\ s.outcomes[r] = 0
               /\ r \notin s.seen => s.outcomes[r] = 0
    BY <2>2 DEF Sound, Logged
  <2>4. ASSUME s'.seen = s.seen, s'.outcomes = s.outcomes
        PROVE  request' = request
    BY <2>4 DEF Logged
  <2>5. CASE Rest(s, s')
    <3>1. request' = request /\ s'.begun = s.begun /\ s'.alive = s.alive
      BY <2>4, <2>5 DEF Rest
    <3> QED BY <3>1 DEF Log!logVars
  <2>6. CASE Began(s, s')
    <3>1. request' = request
      BY <2>4, <2>6 DEF Began
    <3>2. Log!StartTurn
      BY <2>6, <3>1 DEF Began, Log!StartTurn
    <3> QED BY <3>2 DEF Log!LogNext
  <2>7. CASE Asked(s, s')
    <3>1. PICK r \in Request \ s.seen : s'.seen = s.seen \cup {r}
      BY <2>7 DEF Asked
    <3>2. ASSUME NEW q \in Request
          PROVE  Logged(q)' = IF q = r THEN "waiting" ELSE Logged(q)
      BY <2>3, <2>7, <3>1 DEF Asked, Logged
    <3>3. request' = [request EXCEPT ![r] = "waiting"]
      BY <3>1, <3>2
    <3>4. Logged(r) = "unseen"
      BY <3>1 DEF Logged
    <3>5. Log!Ask(r)
      BY <2>7, <3>1, <3>3, <3>4 DEF Asked, Log!Ask
    <3> QED BY <3>1, <3>5 DEF Log!LogNext
  <2>8. CASE Settled(s, s')
    <3>1. PICK r \in s.pending :
            s'.outcomes = [q \in Request |-> IF q = r THEN s.outcomes[q] + 1 ELSE s.outcomes[q]]
      BY <2>8 DEF Settled
    <3>2. r \in Request
      BY <2>2, <3>1 DEF Session
    <3>3. ASSUME NEW q \in Request
          PROVE  Logged(q)' = IF q = r THEN "settled" ELSE Logged(q)
      <4>1. s'.seen = s.seen /\ s'.outcomes[q] = IF q = r THEN s.outcomes[q] + 1 ELSE s.outcomes[q]
        BY <2>8, <3>1 DEF Settled
      <4>2. r \in s.seen /\ s.outcomes[r] = 0
        BY <2>3, <3>1, <3>2
      <4> QED BY <4>1, <4>2 DEF Logged
    <3>4. request' = [request EXCEPT ![r] = "settled"]
      BY <3>2, <3>3
    <3>5. Logged(r) = "waiting"
      BY <2>3, <3>1, <3>2
    <3>6. Log!Settle(r)
      BY <2>8, <3>2, <3>4, <3>5 DEF Settled, Log!Settle
    <3> QED BY <3>2, <3>6 DEF Log!LogNext
  <2>9. CASE Ended(s, s')
    <3>1. ASSUME NEW q \in Request
          PROVE  Logged(q)' = IF Logged(q) = "waiting" THEN "settled" ELSE Logged(q)
      <4>1. s'.seen = s.seen /\ s'.outcomes[q] = IF q \in s.pending THEN s.outcomes[q] + 1 ELSE s.outcomes[q]
        BY <2>9 DEF Ended
      <4> QED BY <2>3, <4>1 DEF Logged
    <3>2. request' = [r \in Request |-> IF request[r] = "waiting" THEN "settled" ELSE request[r]]
      BY <3>1
    <3>3. Log!FinishTurn
      BY <2>9, <3>2 DEF Ended, Log!FinishTurn
    <3> QED BY <3>3 DEF Log!LogNext
  <2>10. CASE EndedNone(s, s')
    <3>1. request' = request /\ s'.begun = s.begun /\ s'.alive = s.alive
      BY <2>4, <2>10 DEF EndedNone
    <3> QED BY <3>1 DEF Log!logVars
  <2>11. CASE Closed(s, s')
    <3>1. request' = request
      BY <2>4, <2>11 DEF Closed
    <3>2. s'.alive = FALSE
      BY <2>11, NextSafe DEF Closed, NInv, IInv, TypeOK, Session
    <3>3. Log!CloseSession
      BY <2>11, <3>1, <3>2 DEF Closed, Log!CloseSession
    <3> QED BY <3>3 DEF Log!LogNext
  <2> QED BY <2>1, <2>5, <2>6, <2>7, <2>8, <2>9, <2>10, <2>11 DEF Moves
<1> QED BY <1>1, <1>2, AgentStepInvariant, PTL DEF Spec, ImplementsThreadLog, Log!LogSpec
=============================================================================
