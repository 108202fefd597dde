------------------------- MODULE AgentSessionProofs -------------------------
(***************************************************************************)
(* Theorems about AgentSession, for every number of requests, events,      *)
(* prompts and updates, and for claude as well as other agents.            *)
(***************************************************************************)
EXTENDS AgentSession, TLAPS

(* What holds of a session record between any two helpers.                 *)
Sound(x) ==
  /\ x.alive => x.begun = (IF x.turnActive THEN 1 ELSE 0)
  /\ x.alive /\ x.turnActive => x.proc # "none"
  /\ x.pending \subseteq x.seen
  /\ \A r \in Request \ x.seen : x.outcomes[r] = 0
  /\ \A r \in x.seen : IF r \in x.pending THEN x.outcomes[r] = 0 /\ (x.alive => x.turnActive)
                                          ELSE x.outcomes[r] = 1
  /\ x.refreshRetry # 0 => ~x.turnActive
  /\ x.args => x.proc # "none"
  /\ ~x.alive => x.proc = "none"

(* What the helpers leave alone.                                           *)
Same(x, y) ==
  y.alive = x.alive /\ y.seen = x.seen /\ y.held = x.held /\ y.sent = x.sent

(* Two records that agree on all that Sound looks at.                      *)
Alike(x, y) ==
  /\ y.alive = x.alive /\ y.begun = x.begun /\ y.turnActive = x.turnActive /\ y.proc = x.proc
  /\ y.pending = x.pending /\ y.seen = x.seen /\ y.outcomes = x.outcomes
  /\ y.refreshRetry = x.refreshRetry /\ y.args = x.args

(* A recap is a turn. It is announced before it, so only between actions.  *)
Quiet(x) == x.alive /\ x.recapping => x.turnActive

-----------------------------------------------------------------------------
LEMMA ResolveSound ==
  ASSUME NEW x \in Session, NEW rs, Sound(x)
  PROVE  /\ Resolve(x, rs) \in Session
         /\ Sound(Resolve(x, rs))
         /\ Same(x, Resolve(x, rs))
         /\ Resolve(x, rs).turnActive = x.turnActive
         /\ Resolve(x, rs).recapping = x.recapping
<1> DEFINE o == [r \in Request |-> IF r \in rs \cap x.pending THEN x.outcomes[r] + 1 ELSE x.outcomes[r]]
           y == Resolve(x, rs)
<1>1. x.outcomes \in [Request -> Nat] /\ x.seen \subseteq Request
  BY DEF Session
<1>2. o \in [Request -> Nat]
  BY <1>1
<1>3. \A r \in Request : o[r] = IF r \in rs \cap x.pending THEN x.outcomes[r] + 1 ELSE x.outcomes[r]
  BY <1>1
<1>4. y = [x EXCEPT !.pending = @ \ rs, !.outcomes = o]
  BY DEF Resolve
<1> HIDE DEF o, y
<1>5. y \in Session
  BY ZenonT(60), <1>2, <1>4 DEF Session
<1>6. /\ y.pending = x.pending \ rs /\ y.outcomes = o
      /\ y.alive = x.alive /\ y.begun = x.begun /\ y.turnActive = x.turnActive /\ y.proc = x.proc
      /\ y.seen = x.seen /\ y.refreshRetry = x.refreshRetry /\ y.args = x.args
      /\ y.held = x.held /\ y.sent = x.sent /\ y.recapping = x.recapping
  BY <1>4 DEF Session
<1>7. Sound(y)
  BY <1>1, <1>3, <1>6 DEF Sound
<1> QED BY <1>5, <1>6, <1>7 DEF Same, y

LEMMA BeginTurnSound ==
  ASSUME NEW x \in Session, Sound(x), ~x.turnActive, x.proc # "none"
  PROVE  /\ BeginTurn(x) \in Session
         /\ Sound(BeginTurn(x))
         /\ Same(x, BeginTurn(x))
         /\ BeginTurn(x).turnActive
         /\ BeginTurn(x).proc = x.proc
<1> DEFINE y == BeginTurn(x)
           b == x.begun + 1
<1>1. x.begun \in Nat /\ x.turnActive \in BOOLEAN /\ b \in Nat
  BY DEF Session
<1>2. y \in Session
  <2>1. y = [x EXCEPT !.turnActive = TRUE, !.interrupted = FALSE,
               !.authFailed = FALSE, !.refreshBusy = FALSE, !.refreshRetry = 0,
               !.begun = b, !.joined = FALSE]
    BY DEF BeginTurn
  <2> HIDE DEF b, y
  <2> QED BY ZenonT(60), <1>1, <2>1 DEF Session
<1>3. /\ y.pending = x.pending /\ y.outcomes = x.outcomes
      /\ y.alive = x.alive /\ y.begun = x.begun + 1 /\ y.turnActive = TRUE /\ y.proc = x.proc
      /\ y.seen = x.seen /\ y.refreshRetry = 0 /\ y.args = x.args
      /\ y.held = x.held /\ y.sent = x.sent
  BY DEF BeginTurn, Session
<1> HIDE DEF y
<1>4. Sound(y)
  BY <1>1, <1>3 DEF Sound
<1> QED BY <1>2, <1>3, <1>4 DEF Same, y

LEMMA EndTurnSound ==
  ASSUME NEW x \in Session, Sound(x), NEW how \in Outcome
  PROVE  /\ EndTurn(x, how) \in Session
         /\ Sound(EndTurn(x, how))
         /\ Same(x, EndTurn(x, how))
         /\ ~EndTurn(x, how).turnActive /\ ~EndTurn(x, how).recapping
         /\ EndTurn(x, how).proc = x.proc
<1> DEFINE z == Resolve(x, x.pending)
           d == x.done \/ (x.doneAfterTurn /\ how = "completed")
           y == EndTurn(x, how)
<1>1. z \in Session /\ Sound(z) /\ Same(x, z)
  BY ResolveSound
<1>2. z.pending = {} /\ z.proc = x.proc /\ z.done = x.done
  BY DEF Resolve, Session
<1>3. d \in BOOLEAN
  BY DEF Session
<1>4. y = [z EXCEPT
     !.turnActive = FALSE, !.interrupted = FALSE, !.doneAfterTurn = FALSE, !.recapping = FALSE,
     !.begun = 0, !.ended = how, !.done = d]
  BY <1>2 DEF EndTurn
<1> HIDE DEF y, z, d
<1>5. y \in Session
  <2> DEFINE v == [z EXCEPT !.turnActive = FALSE, !.interrupted = FALSE, !.doneAfterTurn = FALSE,
                            !.recapping = FALSE, !.begun = 0]
  <2>1. v \in Session
    BY ZenonT(60), <1>1 DEF Session
  <2>2. y = [v EXCEPT !.ended = how, !.done = d]
    BY <1>4
  <2> HIDE DEF v
  <2> QED BY ZenonT(60), <1>3, <2>1, <2>2 DEF Session
<1>6. /\ y.pending = {} /\ y.outcomes = z.outcomes
      /\ y.alive = x.alive /\ y.begun = 0 /\ y.turnActive = FALSE /\ y.proc = x.proc
      /\ y.seen = x.seen /\ y.refreshRetry = z.refreshRetry /\ y.args = z.args
      /\ y.held = x.held /\ y.sent = x.sent /\ y.recapping = FALSE
      /\ z.alive = x.alive /\ z.seen = x.seen
  BY <1>1, <1>2, <1>4 DEF Session, Same
<1>7. Sound(y)
  BY <1>1, <1>2, <1>6 DEF Sound
<1> QED BY <1>5, <1>6, <1>7 DEF Same, y

LEMMA ChangedSound ==
  ASSUME NEW x \in Session, NEW g, Sound(x)
  PROVE  /\ Changed(x, g) \in Session
         /\ Sound(Changed(x, g))
         /\ Same(x, Changed(x, g))
         /\ Changed(x, g).turnActive = x.turnActive
         /\ Changed(x, g).recapping = x.recapping
         /\ (Changed(x, g).proc = "none") = (x.proc = "none")
<1> DEFINE z == Shown(x)
           y == Changed(x, g)
<1>1. StatusOf(x) \in Status /\ StatusOf(x) \in Shows
  BY DEF StatusOf, Session, ProcState, Status, Shows
<1>2. z \in Session
  <2> DEFINE st == StatusOf(x)
             i == (st = "idle")
             r == (x.proc # "none")
  <2>1. z = [x EXCEPT !.status = st, !.shown = st, !.idle = i, !.running = r]
    BY DEF Shown
  <2>2. i \in BOOLEAN /\ r \in BOOLEAN
    OBVIOUS
  <2>3. st \in Status /\ st \in Shows
    BY <1>1
  <2> HIDE DEF st, i, r, z
  <2> QED BY ZenonT(60), <2>1, <2>2, <2>3 DEF Session
<1>3. y = z \/ (y = [z EXCEPT !.proc = "exited", !.stopping = TRUE] /\ x.proc # "none")
  BY DEF Changed, CloseProc
<1>4. /\ z.pending = x.pending /\ z.outcomes = x.outcomes
      /\ z.alive = x.alive /\ z.begun = x.begun /\ z.turnActive = x.turnActive /\ z.proc = x.proc
      /\ z.seen = x.seen /\ z.refreshRetry = x.refreshRetry /\ z.args = x.args
      /\ z.held = x.held /\ z.sent = x.sent /\ z.recapping = x.recapping
  BY DEF Shown, Session
<1> HIDE DEF y, z
<1> DEFINE c == [z EXCEPT !.proc = "exited", !.stopping = TRUE]
<1>5. y \in Session
  <2>1. c \in Session
    BY <1>2 DEF Session, ProcState
  <2> QED BY <1>2, <1>3, <2>1
<1>6. /\ y.pending = z.pending /\ y.outcomes = z.outcomes
      /\ y.alive = z.alive /\ y.begun = z.begun /\ y.turnActive = z.turnActive
      /\ y.proc = z.proc \/ (y.proc = "exited" /\ z.proc # "none")
      /\ y.seen = z.seen /\ y.refreshRetry = z.refreshRetry /\ y.args = z.args
      /\ y.held = z.held /\ y.sent = z.sent /\ y.recapping = z.recapping
  <2>1. /\ c.pending = z.pending /\ c.outcomes = z.outcomes
        /\ c.alive = z.alive /\ c.begun = z.begun /\ c.turnActive = z.turnActive
        /\ c.proc = "exited"
        /\ c.seen = z.seen /\ c.refreshRetry = z.refreshRetry /\ c.args = z.args
        /\ c.held = z.held /\ c.sent = z.sent /\ c.recapping = z.recapping
    BY <1>2 DEF Session
  <2> HIDE DEF c
  <2> QED BY <1>3, <1>4, <2>1 DEF c
<1>7. Sound(y)
  BY <1>4, <1>6 DEF Sound
<1>8. (y.proc = "none") = (x.proc = "none")
  BY <1>4, <1>6
<1> QED BY <1>4, <1>5, <1>6, <1>7, <1>8 DEF Same, y

LEMMA EnsureProcSound ==
  ASSUME NEW x \in Session, Sound(x), x.alive, gen \in Nat, NEW g \in Nat,
         NEW y \in EnsureProc(x, g)
  PROVE  /\ y \in Session
         /\ Sound(y)
         /\ Same(x, y)
         /\ y.turnActive = x.turnActive
         /\ y.recapping = x.recapping
         /\ x.proc # "none" => y = x
<1>1. CASE y = x
  BY <1>1 DEF Same
<1>2. CASE y # x
  <2> DEFINE z == [x EXCEPT !.shown = "starting", !.running = FALSE, !.idle = FALSE]
             h == IF Harness THEN x.gen ELSE g
  <2>1. /\ x.proc = "none"
        /\ \/ y = [z EXCEPT !.status = "error"]
           \/ y = [z EXCEPT !.status = "idle", !.proc = "live", !.args = TRUE, !.gen = h, !.started = gen]
    BY <1>2 DEF EnsureProc, Session
  <2>2. h \in Nat
    BY DEF Session
  <2>3. z \in Session
    BY ZenonT(60) DEF Session, Shows
  <2>4. /\ z.pending = x.pending /\ z.outcomes = x.outcomes
        /\ z.alive = x.alive /\ z.begun = x.begun /\ z.turnActive = x.turnActive /\ z.proc = x.proc
        /\ z.seen = x.seen /\ z.refreshRetry = x.refreshRetry /\ z.args = x.args
        /\ z.held = x.held /\ z.sent = x.sent /\ z.recapping = x.recapping
    BY DEF Session
  <2> HIDE DEF z, h
  <2> DEFINE e == [z EXCEPT !.status = "error"]
             u == [z EXCEPT !.status = "idle", !.proc = "live", !.args = TRUE, !.gen = h, !.started = gen]
  <2>5. y \in Session
    <3>1. e \in Session
      BY <2>3 DEF Session, Status
    <3>2. u \in Session
      BY ZenonT(60), <2>2, <2>3 DEF Session, Status, ProcState
    <3> QED BY <2>1, <3>1, <3>2
  <2>6. /\ y.pending = z.pending /\ y.outcomes = z.outcomes
        /\ y.alive = z.alive /\ y.begun = z.begun /\ y.turnActive = z.turnActive
        /\ y.seen = z.seen /\ y.refreshRetry = z.refreshRetry
        /\ (y.args = z.args /\ y.proc = z.proc) \/ y.proc = "live"
        /\ y.held = z.held /\ y.sent = z.sent /\ y.recapping = z.recapping
    <3>1. CASE y = e
      BY <2>3, <3>1 DEF Session
    <3>2. CASE y = u
      BY <2>3, <3>2 DEF Session
    <3> QED BY <2>1, <3>1, <3>2
  <2>7. Sound(y)
    BY <2>1, <2>4, <2>6 DEF Sound
  <2> QED BY <2>1, <2>4, <2>5, <2>6, <2>7 DEF Same
<1> QED BY <1>1, <1>2

LEMMA AlikeSound ==
  ASSUME NEW x, NEW y, Sound(x), Alike(x, y)
  PROVE  Sound(y)
BY DEF Sound, Alike

LEMMA JoinTurnSound ==
  ASSUME NEW x \in Session, Sound(x), x.proc # "none"
  PROVE  /\ JoinTurn(x) \in Session
         /\ Sound(JoinTurn(x))
         /\ Same(x, JoinTurn(x))
         /\ JoinTurn(x).turnActive
         /\ JoinTurn(x).proc = x.proc
<1>1. CASE ~x.turnActive
  BY <1>1, BeginTurnSound DEF JoinTurn
<1>2. CASE x.turnActive
  <2> DEFINE y == [x EXCEPT !.doneAfterTurn = FALSE, !.joined = TRUE]
  <2>1. y = JoinTurn(x)
    BY <1>2 DEF JoinTurn
  <2>2. y \in Session /\ Alike(x, y) /\ Same(x, y)
    BY ZenonT(60) DEF Session, Alike, Same
  <2> HIDE DEF y
  <2>3. Sound(y)
    BY <2>2, AlikeSound
  <2> QED BY <1>2, <2>1, <2>2, <2>3 DEF Alike
<1>3. x.turnActive \in BOOLEAN
  BY DEF Session
<1> QED BY <1>1, <1>2, <1>3

LEMMA InTurnSound ==
  ASSUME NEW x \in Session, Sound(x), x.proc # "none"
  PROVE  /\ InTurn(x) \in Session
         /\ Sound(InTurn(x))
         /\ Same(x, InTurn(x))
         /\ InTurn(x).turnActive
         /\ InTurn(x).proc = x.proc
BY BeginTurnSound DEF InTurn, Same, Session

LEMMA ToldSound ==
  ASSUME NEW x \in Session, Sound(x), NEW events \in SUBSET Event
  PROVE  /\ Told(x, events) \in Session
         /\ Sound(Told(x, events))
         /\ Alike(x, Told(x, events))
         /\ Told(x, events).recapping = x.recapping
         /\ Told(x, events).sent = x.sent \cup events
         /\ Told(x, events).held = x.held \ events
<1> DEFINE y == Told(x, events)
           a == x.sent \cup events
           b == x.held \ events
<1>1. y = [x EXCEPT !.sent = a, !.held = b]
  BY DEF Told
<1>2. a \in SUBSET Event /\ b \in SUBSET Event
  BY DEF Session
<1> HIDE DEF a, b, y
<1>3. y \in Session /\ Alike(x, y) /\ y.recapping = x.recapping /\ y.sent = a /\ y.held = b
  BY ZenonT(60), <1>1, <1>2 DEF Session, Alike
<1> QED BY <1>3, AlikeSound DEF a, b, y

LEMMA CloseProcSound ==
  ASSUME NEW x \in Session, Sound(x), x.alive, x.proc # "none"
  PROVE  /\ CloseProc(x) \in Session
         /\ Sound(CloseProc(x))
         /\ Same(x, CloseProc(x))
         /\ CloseProc(x).turnActive = x.turnActive
         /\ CloseProc(x).recapping = x.recapping
<1> DEFINE y == CloseProc(x)
<1>1. y \in Session
  BY DEF Session, ProcState, CloseProc
<1>2. /\ y.alive = x.alive /\ y.begun = x.begun /\ y.turnActive = x.turnActive /\ y.proc = "exited"
      /\ y.pending = x.pending /\ y.seen = x.seen /\ y.outcomes = x.outcomes
      /\ y.refreshRetry = x.refreshRetry /\ y.args = x.args
      /\ y.held = x.held /\ y.sent = x.sent /\ y.recapping = x.recapping
  BY DEF Session, CloseProc
<1> HIDE DEF y
<1>3. Sound(y)
  BY <1>2 DEF Sound
<1> QED BY <1>1, <1>2, <1>3 DEF Same, y

LEMMA OnExitSound ==
  ASSUME NEW x \in Session, Sound(x), x.alive, Quiet(x), NEW failed \in BOOLEAN
  PROVE  /\ OnExit(x, failed) \in Session
         /\ Sound(OnExit(x, failed))
         /\ Same(x, OnExit(x, failed))
         /\ ~OnExit(x, failed).turnActive
         /\ ~OnExit(x, failed).recapping
         /\ OnExit(x, failed).proc = "none"
<1> DEFINE expected == x.stopping \/ x.interrupted
           how == IF expected THEN "interrupted" ELSE "error"
           y == IF x.turnActive THEN EndTurn(x, how) ELSE x
           st == IF failed /\ ~expected THEN "error" ELSE "stopped"
           z == [y EXCEPT !.proc = "none", !.args = FALSE, !.status = st,
                          !.stopping = FALSE, !.interrupted = FALSE]
<1>1. OnExit(x, failed) = Changed(z, gen)
  BY DEF OnExit
<1>2. how \in Outcome /\ st \in Status
  BY DEF Outcome, Status
<1>3. y \in Session /\ Sound(y) /\ Same(x, y) /\ ~y.turnActive /\ ~y.recapping
  <2>1. CASE x.turnActive
    BY <1>2, <2>1, EndTurnSound
  <2>2. CASE ~x.turnActive
    <3>1. y = x
      BY <2>2
    <3>2. ~x.recapping
      BY <2>2 DEF Quiet
    <3> QED BY <2>2, <3>1, <3>2 DEF Same
  <2>3. x.turnActive \in BOOLEAN
    BY DEF Session
  <2> QED BY <2>1, <2>2, <2>3
<1> HIDE DEF y, st, how, expected
<1>4. z \in Session
  BY ZenonT(60), <1>2, <1>3 DEF Session, ProcState
<1>5. /\ z.alive = y.alive /\ z.begun = y.begun /\ z.turnActive = y.turnActive /\ z.proc = "none"
      /\ z.pending = y.pending /\ z.seen = y.seen /\ z.outcomes = y.outcomes
      /\ z.refreshRetry = y.refreshRetry /\ z.args = FALSE
      /\ z.held = y.held /\ z.sent = y.sent /\ z.recapping = y.recapping
  BY <1>3 DEF Session
<1> HIDE DEF z
<1>6. Sound(z)
  BY <1>3, <1>5 DEF Sound
<1> DEFINE w == Changed(z, gen)
<1>7. /\ w \in Session /\ Sound(w) /\ Same(z, w)
      /\ w.turnActive = z.turnActive /\ w.recapping = z.recapping
      /\ (w.proc = "none") = (z.proc = "none")
  BY <1>4, <1>6, ChangedSound
<1> HIDE DEF w
<1>8. Same(x, w) /\ ~w.turnActive /\ ~w.recapping /\ w.proc = "none"
  BY <1>3, <1>5, <1>7 DEF Same
<1> QED BY <1>1, <1>7, <1>8 DEF w

LEMMA OnBusySound ==
  ASSUME NEW x \in Session, Sound(x), x.proc # "none"
  PROVE  /\ OnBusy(x) \in Session
         /\ Sound(OnBusy(x))
         /\ Same(x, OnBusy(x))
         /\ OnBusy(x).turnActive
<1> DEFINE y == InTurn(x)
           a == [y EXCEPT !.refreshBusy = TRUE]
           b == [y EXCEPT !.authFailed = TRUE]
<1>1. y \in Session /\ Sound(y) /\ Same(x, y) /\ y.turnActive
  BY InTurnSound
<1>2. OnBusy(x) = a \/ OnBusy(x) = b
  BY DEF OnBusy
<1> HIDE DEF y
<1>3. a \in Session /\ Alike(y, a) /\ Same(y, a)
  BY <1>1 DEF Session, Alike, Same
<1>4. b \in Session /\ Alike(y, b) /\ Same(y, b)
  BY <1>1 DEF Session, Alike, Same
<1> HIDE DEF a, b
<1>5. Sound(a) /\ Sound(b)
  BY <1>1, <1>3, <1>4, AlikeSound
<1>6. Same(x, a) /\ Same(x, b) /\ a.turnActive /\ b.turnActive
  BY <1>1, <1>3, <1>4 DEF Same, Alike
<1> QED BY <1>2, <1>3, <1>4, <1>5, <1>6

LEMMA OnPermissionSound ==
  ASSUME NEW x \in Session, Sound(x), x.proc # "none", NEW r \in Request \ x.seen
  PROVE  /\ OnPermission(x, r) \in Session
         /\ Sound(OnPermission(x, r))
         /\ OnPermission(x, r).alive = x.alive
         /\ OnPermission(x, r).turnActive
         /\ OnPermission(x, r).seen = x.seen \cup {r}
         /\ OnPermission(x, r).held = x.held
         /\ OnPermission(x, r).sent = x.sent
<1> DEFINE y == InTurn(x)
           p == y.pending \cup {r}
           q == y.seen \cup {r}
           z == OnPermission(x, r)
<1>1. y \in Session /\ Sound(y) /\ Same(x, y) /\ y.turnActive
  BY InTurnSound
<1>2. z = [y EXCEPT !.pending = p, !.seen = q]
  BY DEF OnPermission
<1> HIDE DEF y
<1>3. p \in SUBSET Request /\ q \in SUBSET Request
  BY <1>1 DEF Session
<1> HIDE DEF p, q, z
<1>4. z \in Session
  BY ZenonT(60), <1>1, <1>2, <1>3 DEF Session
<1>5. /\ z.alive = y.alive /\ z.begun = y.begun /\ z.turnActive = y.turnActive /\ z.proc = y.proc
      /\ z.pending = p /\ z.seen = q /\ z.outcomes = y.outcomes
      /\ z.refreshRetry = y.refreshRetry /\ z.args = y.args /\ z.held = y.held /\ z.sent = y.sent
  BY <1>1, <1>2 DEF Session
<1>6. y.seen = x.seen
  BY <1>1 DEF Same
<1>7. Sound(z)
  BY <1>1, <1>5, <1>6 DEF Sound, p, q
<1> QED BY <1>1, <1>4, <1>5, <1>6, <1>7 DEF Same, q, z

LEMMA ScheduleSound ==
  ASSUME NEW x \in Session, Sound(x), ~x.turnActive, NEW recap \in BOOLEAN
  PROVE  /\ ScheduleRefreshRetry(x, recap) \in Session
         /\ Sound(ScheduleRefreshRetry(x, recap))
         /\ Same(x, ScheduleRefreshRetry(x, recap))
         /\ ScheduleRefreshRetry(x, recap).recapping = x.recapping
<1> DEFINE n == x.refreshRetries + 1
           y == [x EXCEPT !.refreshRetries = n]
           w == Changed(y, gen)
           t == x.timers + 1
           rs == IF recap THEN w.recaps \cup {t} ELSE w.recaps
           z == ScheduleRefreshRetry(x, recap)
<1>1. n \in Nat /\ t \in Nat
  BY DEF Session
<1>2. z = [w EXCEPT !.timers = t, !.refreshRetry = t, !.recaps = rs]
  BY DEF ScheduleRefreshRetry
<1> HIDE DEF n
<1>3. y \in Session /\ Alike(x, y) /\ Same(x, y) /\ y.recapping = x.recapping
  BY <1>1 DEF Session, Alike, Same
<1>4. ~y.turnActive /\ Sound(y)
  BY <1>3, AlikeSound DEF Alike
<1> HIDE DEF y
<1>5. w \in Session /\ Sound(w) /\ Same(y, w) /\ ~w.turnActive /\ w.recapping = y.recapping
  BY <1>3, <1>4, ChangedSound
<1> HIDE DEF w
<1>6. rs \in SUBSET Nat
  BY <1>1, <1>5 DEF Session
<1> HIDE DEF t, rs, z
<1>7. z \in Session
  BY ZenonT(60), <1>1, <1>2, <1>5, <1>6 DEF Session
<1>8. /\ z.alive = w.alive /\ z.begun = w.begun /\ z.turnActive = w.turnActive /\ z.proc = w.proc
      /\ z.pending = w.pending /\ z.seen = w.seen /\ z.outcomes = w.outcomes
      /\ z.args = w.args /\ z.held = w.held /\ z.sent = w.sent /\ z.recapping = w.recapping
  BY <1>2, <1>5 DEF Session
<1>9. Sound(z)
  BY <1>5, <1>8 DEF Sound
<1>10. Same(x, z)
  BY <1>3, <1>5, <1>8 DEF Same
<1> QED BY <1>3, <1>5, <1>7, <1>8, <1>9, <1>10 DEF z

LEMMA OnResultSound ==
  ASSUME NEW x \in Session, Sound(x), NEW t
  PROVE  /\ OnResult(x, t) \in Session
         /\ Sound(OnResult(x, t))
         /\ Same(x, OnResult(x, t))
         /\ ~OnResult(x, t).recapping
<1> DEFINE how == IF x.interrupted THEN "interrupted" ELSE IF t = "error" THEN "error" ELSE "completed"
           n == IF how = "completed" /\ ~Harness THEN 0 ELSE x.refreshRetries
           v == [x EXCEPT !.refreshRetries = n]
           y == EndTurn(v, how)
           u == ScheduleRefreshRetry(y, x.recapping)
<1>1. OnResult(x, t) = u \/ OnResult(x, t) = y
  BY DEF OnResult
<1>2. how \in Outcome /\ n \in Nat /\ x.recapping \in BOOLEAN
  BY DEF Outcome, Session
<1> HIDE DEF how, n
<1>3. v \in Session /\ Alike(x, v) /\ Same(x, v)
  BY <1>2 DEF Session, Alike, Same
<1> HIDE DEF v
<1>4. Sound(v)
  BY <1>3, AlikeSound
<1>5. y \in Session /\ Sound(y) /\ Same(v, y) /\ ~y.turnActive /\ ~y.recapping
  BY <1>2, <1>3, <1>4, EndTurnSound
<1> HIDE DEF y
<1>6. u \in Session /\ Sound(u) /\ Same(y, u) /\ u.recapping = y.recapping
  BY <1>2, <1>5, ScheduleSound
<1> HIDE DEF u
<1>7. Same(x, y) /\ Same(x, u)
  BY <1>3, <1>5, <1>6 DEF Same
<1>8. CASE OnResult(x, t) = u
  BY <1>5, <1>6, <1>7, <1>8
<1>9. CASE OnResult(x, t) = y
  BY <1>5, <1>7, <1>9
<1> QED BY <1>1, <1>8, <1>9

(* What any message of claude does to the session.                         *)
LEMMA HandledSound ==
  ASSUME NEW x \in Session, Sound(x), x.alive, Quiet(x), x.proc # "none",
         NEW m \in Message, m.t = "ask" => m.r \in Request \ x.seen
  PROVE  /\ Handled(x, m) \in Session
         /\ Sound(Handled(x, m))
         /\ Quiet(Handled(x, m))
         /\ Handled(x, m).alive
         /\ Handled(x, m).seen = IF m.t = "ask" THEN x.seen \cup {m.r} ELSE x.seen
         /\ Handled(x, m).held = x.held
         /\ Handled(x, m).sent = x.sent
<1> DEFINE y == Handled(x, m)
<1>1. m.t \in {"output", "busy", "ask", "cancel", "ok", "error"}
  BY DEF Message
<1>2. CASE m.t = "output"
  <2>1. y = InTurn(x)
    BY <1>2 DEF Handled
  <2> QED BY <1>2, <2>1, InTurnSound DEF Same, Quiet
<1>3. CASE m.t = "busy"
  <2>1. y = OnBusy(x)
    BY <1>3 DEF Handled
  <2> QED BY <1>3, <2>1, OnBusySound DEF Same, Quiet
<1>4. CASE m.t = "ask"
  <2>1. y = OnPermission(x, m.r)
    BY <1>4 DEF Handled
  <2>2. m.r \in Request \ x.seen
    BY <1>4
  <2> QED BY <1>4, <2>1, <2>2, OnPermissionSound DEF Quiet
<1>5. CASE m.t = "cancel"
  <2>1. y = Resolve(x, {m.r})
    BY <1>5 DEF Handled
  <2> QED BY <1>5, <2>1, ResolveSound DEF Same, Quiet
<1>6. CASE m.t \in {"ok", "error"}
  <2>1. y = OnResult(x, m.t)
    BY <1>6 DEF Handled
  <2> QED BY <1>6, <2>1, OnResultSound DEF Same, Quiet
<1> QED BY <1>1, <1>2, <1>3, <1>4, <1>5, <1>6

-----------------------------------------------------------------------------
(* The inductive invariant.                                                *)

(* A request in claude's unread messages is new, and asked once.           *)
AsksAreNew ==
  /\ \A i \in 1 .. Len(out) : out[i].t = "ask" => out[i].r \in Request \ s.seen
  /\ \A i, j \in 1 .. Len(out) : i # j /\ out[i].t = "ask" /\ out[j].t = "ask" => out[i].r # out[j].r

(* Every event that happened is held or sent, and no other one is.         *)
Kept(x, events) == x.held \cup x.sent = events /\ x.held \cap x.sent = {}

IInv ==
  /\ TypeOK
  /\ Sound(s)
  /\ Quiet(s)
  /\ Kept(s, emitted)
  /\ AsksAreNew
  /\ 0 \notin fired

(* A session this step may leave behind, when these events have happened.  *)
Fit(x, events) ==
  x \in Session /\ Sound(x) /\ Quiet(x) /\ x.seen = s.seen /\ Kept(x, events)

(* What an action that reads no message of claude has to keep.             *)
LEMMA StepSafe ==
  ASSUME IInv, Fit(s', emitted'),
         claude' \in Claude, out' = out \/ out' = <<>>,
         doing' \in {"loop", "restart", "rewind"}, gen' \in 0 .. MaxGen, nudged' \in BOOLEAN,
         fired' \in SUBSET Nat, 0 \notin fired', toContinue' \in BOOLEAN,
         errors' \in 0 .. MaxError, emitted' \in SUBSET Event, prompts' \in 0 .. MaxPrompt
  PROVE  IInv'
<1>1. out' \in Seq(Message)
  <2>1. out \in Seq(Message)
    BY DEF IInv, TypeOK
  <2>2. <<>> \in Seq(Message)
    OBVIOUS
  <2> QED BY <2>1, <2>2
<1>2. TypeOK'
  BY <1>1 DEF TypeOK, Fit
<1>3. AsksAreNew'
  <2>1. CASE out' = out
    BY <2>1 DEF IInv, AsksAreNew, Fit
  <2>2. CASE out' = <<>>
    BY <2>2 DEF AsksAreNew
  <2> QED BY <2>1, <2>2
<1>4. Sound(s)' /\ Quiet(s)' /\ Kept(s, emitted)'
  BY DEF Sound, Quiet, Kept, Fit
<1> QED BY <1>2, <1>3, <1>4 DEF IInv

LEMMA BecomesSafe ==
  ASSUME claude \in Claude, NEW x \in Session, NEW n \in Nat, Becomes(x, n)
  PROVE  s' = x /\ claude' \in Claude
<1>1. NoClaude \in Claude
  BY DEF NoClaude, Claude
<1>2. [claude EXCEPT !.asks = @ + n] \in Claude
  BY DEF Claude
<1> QED BY <1>1, <1>2 DEF Becomes

LEMMA StartSafe ==
  ASSUME gen \in 0 .. MaxGen, nudged \in BOOLEAN, NEW x, MayStart(x)
  PROVE  gen' \in 0 .. MaxGen /\ gen' \in Nat /\ nudged' \in BOOLEAN
BY BoundAssumption DEF MayStart

LEMMA PushFit ==
  ASSUME claude \in Claude, NEW events, NEW x, Fit(x, events), NEW n \in Nat, NEW g,
         Becomes(x, n) \/ Becomes(Changed(x, g), n)
  PROVE  Fit(s', events) /\ claude' \in Claude
<1> DEFINE y == Changed(x, g)
<1>1. y \in Session /\ Sound(y) /\ Same(x, y) /\ y.turnActive = x.turnActive /\ y.recapping = x.recapping
  BY ChangedSound DEF Fit
<1> HIDE DEF y
<1>2. Fit(y, events)
  BY <1>1 DEF Fit, Same, Kept, Quiet
<1>3. CASE Becomes(x, n)
  BY <1>3, BecomesSafe DEF Fit
<1>4. CASE Becomes(y, n)
  BY <1>2, <1>4, BecomesSafe DEF Fit
<1> QED BY <1>3, <1>4 DEF y

LEMMA EnsureFit ==
  ASSUME gen \in 0 .. MaxGen, NEW events, NEW x, Fit(x, events), x.alive, NEW g \in Nat,
         NEW y \in EnsureProc(x, g)
  PROVE  /\ Fit(y, events) /\ y.alive
         /\ y.turnActive = x.turnActive /\ y.recapping = x.recapping
         /\ x.proc # "none" => y = x
<1>1. gen \in Nat
  BY BoundAssumption
<1>2. /\ y \in Session /\ Sound(y) /\ Same(x, y)
      /\ y.turnActive = x.turnActive /\ y.recapping = x.recapping
      /\ x.proc # "none" => y = x
  BY <1>1, EnsureProcSound DEF Fit
<1> QED BY <1>2 DEF Fit, Same, Kept, Quiet

LEMMA BeginFit ==
  ASSUME NEW events, NEW x, Fit(x, events), ~x.turnActive, x.proc # "none"
  PROVE  Fit(BeginTurn(x), events) /\ BeginTurn(x).proc = x.proc
BY BeginTurnSound DEF Fit, Same, Kept, Quiet

THEOREM InitSafe == Init => IInv
<1> SUFFICES ASSUME Init PROVE IInv
  OBVIOUS
<1>1. s \in Session
  BY DEF Init, Session, ProcState, Status, Shows, Outcome
<1>2. NoClaude \in Claude
  BY DEF NoClaude, Claude
<1>3. TypeOK
  <2>1. /\ doing = "loop" /\ out = <<>> /\ claude = NoClaude /\ gen \in 0 .. MaxGen
        /\ nudged = FALSE /\ fired = {} /\ toContinue \in BOOLEAN
        /\ errors = 0 /\ emitted = {} /\ prompts = 0
    BY DEF Init
  <2>2. out \in Seq(Message)
    BY <2>1
  <2>3. doing \in {"loop", "restart", "rewind"} /\ nudged \in BOOLEAN
    BY <2>1
  <2>4. fired \in SUBSET Nat /\ emitted \in SUBSET Event
    BY <2>1
  <2>5. errors \in 0 .. MaxError /\ prompts \in 0 .. MaxPrompt
    BY <2>1, BoundAssumption
  <2> QED BY <1>1, <1>2, <2>1, <2>2, <2>3, <2>4, <2>5 DEF TypeOK
<1>4. Sound(s) /\ Quiet(s) /\ Kept(s, emitted)
  BY DEF Init, Sound, Quiet, Kept
<1>5. AsksAreNew
  BY DEF Init, AsksAreNew
<1> QED BY <1>3, <1>4, <1>5 DEF Init, IInv

-----------------------------------------------------------------------------
(* Each action keeps it.                                                   *)

LEMMA PromptSafe ==
  ASSUME IInv, NEW x, Fit(x, emitted), x.alive, NEW kind, NEW push \in BOOLEAN,
         Send(x, kind, push),
         out' = out, doing' = doing, toContinue' = toContinue, errors' = errors, emitted' = emitted,
         fired' \in SUBSET Nat, 0 \notin fired', prompts' \in 0 .. MaxPrompt
  PROVE  IInv'
<1> DEFINE Push(z) == IF push THEN Changed(z, gen') ELSE z
           q == ~x.turnActive /\ kind = "recap"
           y == [x EXCEPT !.recapping = q]
<1>1. claude \in Claude /\ gen \in 0 .. MaxGen /\ nudged \in BOOLEAN
  BY DEF IInv, TypeOK
<1>2. MayStart(y)
  BY DEF Send
<1>3. gen' \in 0 .. MaxGen /\ gen' \in Nat /\ nudged' \in BOOLEAN
  BY <1>1, <1>2, StartSafe
<1>4. PICK z \in EnsureProc(y, gen') :
        \/ z.proc = "none" /\ Becomes(Push([z EXCEPT !.recapping = FALSE]), 0)
        \/ z.proc # "none" /\ kind = "files" /\ Becomes(Push(z), 0)
        \/ /\ z.proc # "none"
           /\ LET w == Changed(JoinTurn(z), gen')
              IN \/ w.proc = "live" /\ w.recapping /\ Becomes(Push(w), 1)
                 \/ w.proc = "live" /\ ~w.recapping
                    /\ Becomes(Push([Told(w, w.held) EXCEPT !.done = FALSE]), 1)
                 \/ w.proc = "exited" /\ Becomes(Push(w), 0)
  BY DEF Send
<1> HIDE DEF q
<1>5. q \in BOOLEAN /\ (kind = "files" => ~q)
  BY DEF q
<1>6. y \in Session /\ Alike(x, y) /\ Same(x, y) /\ y.recapping = q
  BY ZenonT(60), <1>5 DEF Fit, Session, Alike, Same
<1> HIDE DEF y
<1>7. Sound(y) /\ y.alive /\ y.seen = s.seen /\ Kept(y, emitted)
  BY <1>6, AlikeSound DEF Fit, Alike, Same, Kept
<1>8. /\ z \in Session /\ Sound(z) /\ z.seen = s.seen /\ Kept(z, emitted)
      /\ z.alive /\ z.recapping = q
  <2>1. gen \in Nat
    BY <1>1, BoundAssumption
  <2>2. z \in Session /\ Sound(z) /\ Same(y, z) /\ z.recapping = y.recapping
    BY <1>3, <1>6, <1>7, <2>1, EnsureProcSound
  <2> QED BY <1>6, <1>7, <2>2 DEF Same, Kept
<1>9. ASSUME NEW v, Fit(v, emitted), NEW n \in Nat, Becomes(Push(v), n)
      PROVE  IInv'
  <2>1. Becomes(v, n) \/ Becomes(Changed(v, gen'), n)
    BY <1>9
  <2>2. Fit(s', emitted) /\ claude' \in Claude
    BY <1>1, <1>9, <2>1, PushFit
  <2>3. /\ doing' \in {"loop", "restart", "rewind"} /\ toContinue' \in BOOLEAN
        /\ errors' \in 0 .. MaxError /\ emitted' \in SUBSET Event
    BY DEF IInv, TypeOK
  <2> QED BY <1>3, <2>2, <2>3, StepSafe
<1> HIDE DEF Push
<1>10. CASE z.proc = "none" /\ Becomes(Push([z EXCEPT !.recapping = FALSE]), 0)
  <2> DEFINE v == [z EXCEPT !.recapping = FALSE]
  <2>1. v \in Session /\ Alike(z, v) /\ Same(z, v) /\ ~v.recapping
    BY ZenonT(60), <1>8 DEF Session, Alike, Same
  <2> HIDE DEF v
  <2>2. Fit(v, emitted)
    BY <1>8, <2>1, AlikeSound DEF Fit, Same, Kept, Quiet
  <2> QED BY <1>9, <1>10, <2>2 DEF v
<1>11. CASE z.proc # "none" /\ kind = "files" /\ Becomes(Push(z), 0)
  <2>1. Fit(z, emitted)
    BY <1>5, <1>8, <1>11 DEF Fit, Quiet
  <2> QED BY <1>9, <1>11, <2>1
<1>12. CASE /\ z.proc # "none"
            /\ LET w == Changed(JoinTurn(z), gen')
               IN \/ w.proc = "live" /\ w.recapping /\ Becomes(Push(w), 1)
                  \/ w.proc = "live" /\ ~w.recapping
                     /\ Becomes(Push([Told(w, w.held) EXCEPT !.done = FALSE]), 1)
                  \/ w.proc = "exited" /\ Becomes(Push(w), 0)
  <2> DEFINE j == JoinTurn(z)
             w == Changed(j, gen')
             u == Told(w, w.held)
             v == [u EXCEPT !.done = FALSE]
  <2>1. j \in Session /\ Sound(j) /\ Same(z, j) /\ j.turnActive
    BY <1>8, <1>12, JoinTurnSound
  <2>2. \/ Becomes(Push(w), 1) \/ Becomes(Push(w), 0) \/ Becomes(Push(v), 1)
    BY <1>12
  <2> HIDE DEF j
  <2>3. w \in Session /\ Sound(w) /\ Same(j, w) /\ w.turnActive
    BY <2>1, ChangedSound
  <2> HIDE DEF w
  <2>4. Fit(w, emitted)
    BY <1>8, <2>1, <2>3 DEF Fit, Same, Kept, Quiet
  <2>5. w.held \in SUBSET Event
    BY <2>3 DEF Session
  <2>6. /\ u \in Session /\ Sound(u) /\ Alike(w, u)
        /\ u.sent = w.sent \cup w.held /\ u.held = w.held \ w.held
    BY <2>3, <2>5, ToldSound
  <2> HIDE DEF u
  <2>7. v \in Session /\ Alike(u, v) /\ Same(u, v)
    BY ZenonT(60), <2>6 DEF Session, Alike, Same
  <2> HIDE DEF v
  <2>8. Sound(v)
    BY <2>6, <2>7, AlikeSound
  <2>9. v.turnActive /\ v.seen = s.seen /\ Kept(v, emitted)
    BY <2>3, <2>4, <2>6, <2>7 DEF Fit, Alike, Same, Kept
  <2>10. Fit(v, emitted)
    BY <2>7, <2>8, <2>9 DEF Fit, Quiet
  <2> QED BY <1>9, <2>2, <2>4, <2>10
<1> QED BY <1>4, <1>10, <1>11, <1>12

(* The usual end of an action: the session becomes x or x with its state   *)
(* pushed, and claude gets n messages.                                     *)
LEMMA BecomesSafely ==
  ASSUME IInv, NEW x, NEW n \in Nat, NEW g, Becomes(x, n) \/ Becomes(Changed(x, g), n),
         emitted' \in SUBSET Event, Fit(x, emitted'), out' = out \/ out' = <<>>,
         doing' \in {"loop", "restart", "rewind"}, gen' \in 0 .. MaxGen, nudged' \in BOOLEAN,
         fired' \in SUBSET Nat, 0 \notin fired', toContinue' \in BOOLEAN,
         errors' = errors, prompts' = prompts
  PROVE  IInv'
<1>1. claude \in Claude /\ errors \in 0 .. MaxError /\ prompts \in 0 .. MaxPrompt
  BY DEF IInv, TypeOK
<1>2. Fit(s', emitted') /\ claude' \in Claude
  BY <1>1, PushFit
<1> QED BY <1>1, <1>2, StepSafe

(* What every action starts from.                                          *)
LEMMA Known ==
  ASSUME IInv
  PROVE  /\ Fit(s, emitted)
         /\ s \in Session /\ claude \in Claude /\ gen \in 0 .. MaxGen /\ gen \in Nat
         /\ doing \in {"loop", "restart", "rewind"} /\ nudged \in BOOLEAN
         /\ fired \in SUBSET Nat /\ 0 \notin fired /\ toContinue \in BOOLEAN
         /\ emitted \in SUBSET Event
BY BoundAssumption DEF IInv, TypeOK, Fit

LEMMA SendPromptSafe ==
  ASSUME IInv, NEW kind, SendPrompt(kind)
  PROVE  IInv'
<1> DEFINE x == [s EXCEPT !.refreshRetries = 0]
<1>1. x \in Session /\ Alike(s, x) /\ Same(s, x) /\ x.recapping = s.recapping
  BY Known DEF Session, Alike, Same
<1>2. Send(x, kind, TRUE) /\ s.alive
  BY DEF SendPrompt, Ready
<1>4. prompts' \in 0 .. MaxPrompt
  <2>1. prompts \in 0 .. MaxPrompt
    BY DEF IInv, TypeOK
  <2>2. prompts < MaxPrompt /\ prompts' = prompts + 1
    BY DEF SendPrompt
  <2> QED BY <2>1, <2>2, BoundAssumption
<1> HIDE DEF x
<1>3. Fit(x, emitted) /\ x.alive
  BY <1>1, <1>2, Known, AlikeSound DEF Fit, Same, Kept, Quiet, Alike
<1> QED BY <1>2, <1>3, <1>4, Known, PromptSafe DEF SendPrompt

(* An event is kept until it is written to claude.                         *)
LEMMA ProcessEventSafe ==
  ASSUME IInv, NEW e \in Event, NEW wake \in BOOLEAN, ProcessEvent(e, wake)
  PROVE  IInv'
<1> DEFINE h == s.held \cup {e}
           keep == [s EXCEPT !.held = h]
           ev == emitted \cup {e}
<1>1. /\ s.alive /\ e \notin emitted /\ emitted' = ev
      /\ doing' = doing /\ out' = out /\ fired' = fired /\ toContinue' = toContinue
      /\ errors' = errors /\ prompts' = prompts
  BY DEF ProcessEvent, Ready
<1>2. ev \in SUBSET Event /\ h \in SUBSET Event
  BY Known DEF Session
<1> HIDE DEF h
<1>3. keep \in Session /\ Alike(s, keep) /\ keep.held = h /\ keep.sent = s.sent /\ keep.recapping = s.recapping
  BY <1>2, Known DEF Session, Alike
<1>4. \/ ~wake /\ Becomes(Changed(keep, gen), 0) /\ gen' = gen /\ nudged' = nudged
      \/ /\ wake /\ gen' = gen /\ nudged' = nudged
         /\ \/ Becomes(Changed(Told(s, {e}), gen), 1)
            \/ Becomes(Changed(keep, gen), 0)
      \/ /\ wake /\ ~(s.turnActive /\ s.proc # "none")
         /\ MayStart(keep)
         /\ \E z \in EnsureProc(keep, gen') :
              \/ z.proc = "none" /\ Becomes(Changed(z, gen'), 0)
              \/ z.proc = "live" /\ Becomes(Changed(Told(BeginTurn(z), z.held), gen'), 1)
              \/ z.proc = "exited" /\ Becomes(Changed(BeginTurn(z), gen'), 0)
  BY DEF ProcessEvent, h
<1> HIDE DEF keep
<1>5. Fit(keep, ev) /\ keep.alive
  BY <1>1, <1>3, Known, AlikeSound DEF Fit, Alike, Kept, Quiet, h
<1>6. CASE Becomes(Changed(keep, gen), 0) /\ gen' = gen /\ nudged' = nudged
  BY <1>1, <1>2, <1>5, <1>6, Known, BecomesSafely
<1>7. CASE Becomes(Changed(Told(s, {e}), gen), 1) /\ gen' = gen /\ nudged' = nudged
  <2> DEFINE y == Told(s, {e})
  <2>1. /\ y \in Session /\ Sound(y) /\ Alike(s, y) /\ y.recapping = s.recapping
        /\ y.sent = s.sent \cup {e} /\ y.held = s.held \ {e}
    BY Known, ToldSound DEF Fit
  <2> HIDE DEF y
  <2>2. Fit(y, ev)
    BY <1>1, <2>1, Known DEF Fit, Alike, Kept, Quiet
  <2> QED BY <1>1, <1>2, <1>7, <2>2, Known, BecomesSafely DEF y
<1>8. CASE /\ wake /\ ~(s.turnActive /\ s.proc # "none")
           /\ MayStart(keep)
           /\ \E z \in EnsureProc(keep, gen') :
                \/ z.proc = "none" /\ Becomes(Changed(z, gen'), 0)
                \/ z.proc = "live" /\ Becomes(Changed(Told(BeginTurn(z), z.held), gen'), 1)
                \/ z.proc = "exited" /\ Becomes(Changed(BeginTurn(z), gen'), 0)
  <2>1. gen' \in 0 .. MaxGen /\ gen' \in Nat /\ nudged' \in BOOLEAN
    BY <1>8, Known, StartSafe
  <2>2. PICK z \in EnsureProc(keep, gen') :
          \/ z.proc = "none" /\ Becomes(Changed(z, gen'), 0)
          \/ z.proc = "live" /\ Becomes(Changed(Told(BeginTurn(z), z.held), gen'), 1)
          \/ z.proc = "exited" /\ Becomes(Changed(BeginTurn(z), gen'), 0)
    BY <1>8
  <2>3. ~s.turnActive
    BY <1>1, <1>8, Known DEF Fit, Sound
  <2>4. Fit(z, ev) /\ ~z.turnActive
    BY <1>3, <1>5, <2>1, <2>3, Known, EnsureFit DEF Alike
  <2> DEFINE b == BeginTurn(z)
             y == Told(b, z.held)
  <2>5. CASE z.proc = "none" /\ Becomes(Changed(z, gen'), 0)
    BY <1>1, <1>2, <2>1, <2>4, <2>5, Known, BecomesSafely
  <2>6. CASE z.proc = "exited" /\ Becomes(Changed(b, gen'), 0)
    <3>1. Fit(b, ev)
      BY <2>4, <2>6, BeginFit
    <3> HIDE DEF b
    <3> QED BY <1>1, <1>2, <2>1, <2>6, <3>1, Known, BecomesSafely
  <2>7. CASE z.proc = "live" /\ Becomes(Changed(y, gen'), 1)
    <3>1. Fit(b, ev)
      BY <2>4, <2>7, BeginFit
    <3>2. z.held \in SUBSET Event /\ b.held = z.held
      BY <2>4 DEF Fit, Session, BeginTurn
    <3> HIDE DEF b
    <3>3. /\ y \in Session /\ Sound(y) /\ Alike(b, y) /\ y.recapping = b.recapping
          /\ y.sent = b.sent \cup z.held /\ y.held = b.held \ z.held
      BY <3>1, <3>2, ToldSound DEF Fit
    <3> HIDE DEF y
    <3>4. Fit(y, ev)
      BY <3>1, <3>2, <3>3 DEF Fit, Alike, Kept, Quiet
    <3> QED BY <1>1, <1>2, <2>1, <2>7, <3>4, Known, BecomesSafely
  <2> QED BY <2>2, <2>5, <2>6, <2>7
<1> QED BY <1>4, <1>6, <1>7, <1>8

LEMMA CloseFit ==
  ASSUME NEW events, NEW x, Fit(x, events), x.alive, x.proc # "none"
  PROVE  Fit(CloseProc(x), events)
<1> DEFINE y == CloseProc(x)
<1>1. /\ y \in Session /\ Sound(y) /\ Same(x, y)
      /\ y.turnActive = x.turnActive /\ y.recapping = x.recapping
  BY CloseProcSound DEF Fit
<1> HIDE DEF y
<1>2. Fit(y, events)
  BY <1>1 DEF Fit, Same, Kept, Quiet
<1> QED BY <1>2 DEF y

LEMMA ExitFit ==
  ASSUME NEW events, NEW x, Fit(x, events), x.alive, NEW failed \in BOOLEAN
  PROVE  Fit(OnExit(x, failed), events) /\ OnExit(x, failed).alive
<1> DEFINE y == OnExit(x, failed)
<1>1. y \in Session /\ Sound(y) /\ Same(x, y) /\ ~y.recapping
  BY OnExitSound DEF Fit
<1> HIDE DEF y
<1>2. Fit(y, events) /\ y.alive
  BY <1>1 DEF Fit, Same, Kept, Quiet
<1> QED BY <1>2 DEF y

LEMMA InTurnFit ==
  ASSUME NEW events, NEW x, Fit(x, events), x.proc # "none"
  PROVE  Fit(InTurn(x), events)
<1> DEFINE y == InTurn(x)
<1>1. y \in Session /\ Sound(y) /\ Same(x, y) /\ y.turnActive
  BY InTurnSound DEF Fit
<1> HIDE DEF y
<1>2. Fit(y, events)
  BY <1>1 DEF Fit, Same, Kept, Quiet
<1> QED BY <1>2 DEF y

(* Starting claude if need be, and then perhaps a turn.                    *)
LEMMA StartedSafe ==
  ASSUME IInv, NEW x, Fit(x, emitted), x.alive, NEW v, MayStart(v),
         NEW y \in EnsureProc(x, gen'), NEW n \in Nat,
         \/ Becomes(Changed(y, gen'), n)
         \/ y.proc # "none" /\ Becomes(Changed(InTurn(y), gen'), n),
         out' = out, doing' \in {"loop", "restart", "rewind"}, toContinue' \in BOOLEAN,
         fired' \in SUBSET Nat, 0 \notin fired',
         errors' = errors, emitted' = emitted, prompts' = prompts
  PROVE  IInv'
<1>1. gen' \in 0 .. MaxGen /\ gen' \in Nat /\ nudged' \in BOOLEAN
  BY Known, StartSafe
<1>2. Fit(y, emitted)
  BY <1>1, Known, EnsureFit
<1>3. CASE Becomes(Changed(y, gen'), n)
  BY <1>1, <1>2, <1>3, Known, BecomesSafely
<1>4. CASE y.proc # "none" /\ Becomes(Changed(InTurn(y), gen'), n)
  <2>1. Fit(InTurn(y), emitted)
    BY <1>2, <1>4, InTurnFit
  <2> QED BY <1>1, <1>4, <2>1, Known, BecomesSafely
<1> QED BY <1>3, <1>4

LEMMA ContinueSafe ==
  ASSUME IInv, ContinueTurn
  PROVE  IInv'
<1>1. /\ s.alive /\ MayStart(s) /\ toContinue' \in BOOLEAN
      /\ doing' = doing /\ out' = out /\ fired' = fired /\ errors' = errors
      /\ emitted' = emitted /\ prompts' = prompts
  BY DEF ContinueTurn, Ready
<1>2. PICK y \in EnsureProc(s, gen') : \E n \in Nat :
         \/ Becomes(Changed(y, gen'), n)
         \/ y.proc # "none" /\ Becomes(Changed(InTurn(y), gen'), n)
  BY DEF ContinueTurn, InTurn
<1> QED BY <1>1, <1>2, Known, StartedSafe

LEMMA InterruptSafe ==
  ASSUME IInv, Interrupt
  PROVE  IInv'
<1> DEFINE x == [s EXCEPT !.interrupted = TRUE]
<1>1. x \in Session /\ Alike(s, x) /\ Same(s, x) /\ x.recapping = s.recapping
  BY Known DEF Session, Alike, Same
<1>2. /\ s.alive /\ s.proc # "none" /\ s.turnActive
      /\ doing' = doing /\ out' = out /\ gen' = gen /\ nudged' = nudged /\ fired' = fired
      /\ toContinue' = toContinue /\ errors' = errors /\ emitted' = emitted /\ prompts' = prompts
      /\ \/ /\ s' = Changed(x, gen)
            /\ \E n \in {0, claude.asks} :
                 claude' = [claude EXCEPT !.stop = claude.working, !.asks = n]
         \/ Becomes(Changed(CloseProc(x), gen), 0)
  BY DEF Interrupt, Ready
<1> HIDE DEF x
<1>3. Fit(x, emitted) /\ x.alive /\ x.proc # "none"
  BY <1>1, <1>2, Known, AlikeSound DEF Fit, Same, Kept, Quiet, Alike
<1>4. CASE Becomes(Changed(CloseProc(x), gen), 0)
  <2>1. Fit(CloseProc(x), emitted)
    BY <1>3, CloseFit
  <2> QED BY <1>2, <1>4, <2>1, Known, BecomesSafely
<1>5. CASE /\ s' = Changed(x, gen)
           /\ \E n \in {0, claude.asks} :
                claude' = [claude EXCEPT !.stop = claude.working, !.asks = n]
  <2> DEFINE y == Changed(x, gen)
  <2>1. /\ y \in Session /\ Sound(y) /\ Same(x, y)
        /\ y.turnActive = x.turnActive /\ y.recapping = x.recapping
    BY <1>3, ChangedSound DEF Fit
  <2> HIDE DEF y
  <2>2. Fit(y, emitted)
    BY <1>3, <2>1 DEF Fit, Same, Kept, Quiet
  <2>3. claude' \in Claude
    <3>1. PICK n \in {0, claude.asks} :
            claude' = [claude EXCEPT !.stop = claude.working, !.asks = n]
      BY <1>5
    <3>2. claude \in Claude
      BY Known
    <3>3. n \in Nat /\ claude.working \in BOOLEAN
      BY <3>1, <3>2 DEF Claude
    <3> QED BY <3>1, <3>2, <3>3 DEF Claude
  <2>4. errors \in 0 .. MaxError /\ prompts \in 0 .. MaxPrompt
    BY DEF IInv, TypeOK
  <2> QED BY <1>2, <1>5, <2>2, <2>3, <2>4, Known, StepSafe DEF y
<1> QED BY <1>2, <1>4, <1>5

LEMMA RestartSafe ==
  ASSUME IInv, Restart
  PROVE  IInv'
<1>1. /\ s.alive
      /\ out' = out /\ fired' = fired /\ toContinue' = toContinue
      /\ errors' = errors /\ emitted' = emitted /\ prompts' = prompts
  BY DEF Restart, Ready
<1>2. CASE s.proc # "none" /\ Becomes(CloseProc(s), 0) /\ doing' = "restart" /\ gen' = gen /\ nudged' = nudged
  <2>1. Fit(CloseProc(s), emitted)
    BY <1>1, <1>2, Known, CloseFit
  <2> QED BY <1>1, <1>2, <2>1, Known, BecomesSafely
<1>3. CASE /\ MayStart(s) /\ doing' = doing
           /\ \E y \in EnsureProc(s, gen') : Becomes(Changed(y, gen'), 0)
  BY <1>1, <1>3, Known, StartedSafe
<1> QED BY <1>2, <1>3 DEF Restart

LEMMA RewindSafe ==
  ASSUME IInv, NEW files \in BOOLEAN, Rewind(files)
  PROVE  IInv'
<1>1. /\ s.alive
      /\ out' = out /\ fired' = fired /\ toContinue' = toContinue
      /\ errors' = errors /\ emitted' = emitted /\ prompts' = prompts
  BY DEF Rewind, Ready
<1>2. gen' \in 0 .. MaxGen /\ gen' \in Nat /\ nudged' \in BOOLEAN
  <2>1. CASE files
    BY <2>1, Known, StartSafe DEF Rewind
  <2>2. CASE ~files
    BY <2>2, Known DEF Rewind
  <2> QED BY <2>1, <2>2
<1>3. PICK y : /\ y = s \/ y \in EnsureProc(s, gen')
               /\ \/ Becomes(Changed(y, gen'), 0) /\ doing' = doing
                  \/ y.proc # "none" /\ Becomes(CloseProc(y), 0) /\ doing' = "rewind"
  BY DEF Rewind
<1>4. Fit(y, emitted) /\ y.alive
  BY <1>1, <1>2, <1>3, Known, EnsureFit
<1>5. CASE Becomes(Changed(y, gen'), 0) /\ doing' = doing
  BY <1>1, <1>2, <1>4, <1>5, Known, BecomesSafely
<1>6. CASE y.proc # "none" /\ Becomes(CloseProc(y), 0) /\ doing' = "rewind"
  <2>1. Fit(CloseProc(y), emitted)
    BY <1>4, <1>6, CloseFit
  <2> QED BY <1>1, <1>2, <1>6, <2>1, Known, BecomesSafely
<1> QED BY <1>3, <1>5, <1>6

LEMMA FinishStopSafe ==
  ASSUME IInv, FinishStop
  PROVE  IInv'
<1> DEFINE x == OnExit(s, FALSE)
<1>1. /\ s.alive /\ doing' = "loop"
      /\ out' = out /\ fired' = fired /\ toContinue' = toContinue
      /\ errors' = errors /\ emitted' = emitted /\ prompts' = prompts
      /\ \/ Becomes(Changed(x, gen), 0) /\ gen' = gen /\ nudged' = nudged
         \/ MayStart(x) /\ \E y \in EnsureProc(x, gen') : Becomes(Changed(y, gen'), 0)
  BY DEF FinishStop
<1>2. Fit(x, emitted) /\ x.alive
  BY <1>1, Known, ExitFit
<1> HIDE DEF x
<1>3. CASE Becomes(Changed(x, gen), 0) /\ gen' = gen /\ nudged' = nudged
  BY <1>1, <1>2, <1>3, Known, BecomesSafely
<1>4. CASE MayStart(x) /\ \E y \in EnsureProc(x, gen') : Becomes(Changed(y, gen'), 0)
  BY <1>1, <1>2, <1>4, Known, StartedSafe
<1> QED BY <1>1, <1>3, <1>4

LEMMA RespondSafe ==
  ASSUME IInv, NEW r \in Request, Respond(r)
  PROVE  IInv'
<1> DEFINE x == Resolve(s, {r})
<1>1. /\ doing' = doing /\ out' = out /\ gen' = gen /\ nudged' = nudged /\ fired' = fired
      /\ toContinue' = toContinue /\ errors' = errors /\ emitted' = emitted /\ prompts' = prompts
      /\ \/ s' = Changed(x, gen) /\ claude' = [claude EXCEPT !.open = @ \ {r}]
         \/ Becomes(Changed(s, gen), 0)
  BY DEF Respond
<1>2. CASE Becomes(Changed(s, gen), 0)
  BY <1>1, <1>2, Known, BecomesSafely
<1>3. CASE s' = Changed(x, gen) /\ claude' = [claude EXCEPT !.open = @ \ {r}]
  <2> DEFINE y == Changed(x, gen)
  <2>1. /\ x \in Session /\ Sound(x) /\ Same(s, x)
        /\ x.turnActive = s.turnActive /\ x.recapping = s.recapping
    BY Known, ResolveSound DEF Fit
  <2> HIDE DEF x
  <2>2. /\ y \in Session /\ Sound(y) /\ Same(x, y)
        /\ y.turnActive = x.turnActive /\ y.recapping = x.recapping
    BY <2>1, ChangedSound
  <2> HIDE DEF y
  <2>3. Fit(y, emitted)
    BY <2>1, <2>2, Known DEF Fit, Same, Kept, Quiet
  <2>4. claude' \in Claude
    BY <1>3, Known DEF Claude
  <2>5. errors \in 0 .. MaxError /\ prompts \in 0 .. MaxPrompt
    BY DEF IInv, TypeOK
  <2> QED BY <1>1, <1>3, <2>3, <2>4, <2>5, Known, StepSafe DEF y
<1> QED BY <1>1, <1>2, <1>3

(* What only touches fields the invariant does not look at.                *)
LEMMA AsideSafe ==
  ASSUME IInv, NEW x \in Session, Alike(s, x), Same(s, x), x.recapping = s.recapping, s' = x,
         claude' \in Claude,
         doing' = doing, out' = out, gen' = gen, nudged' = nudged, fired' = fired,
         toContinue' = toContinue, errors' = errors, emitted' = emitted, prompts' = prompts
  PROVE  IInv'
<1>1. Fit(x, emitted)
  BY Known, AlikeSound DEF Fit, Same, Kept, Quiet, Alike
<1>2. errors \in 0 .. MaxError /\ prompts \in 0 .. MaxPrompt
  BY DEF IInv, TypeOK
<1> QED BY <1>1, <1>2, Known, StepSafe

LEMMA MarkDoneSafe ==
  ASSUME IInv, MarkDone
  PROVE  IInv'
<1> DEFINE a == [s EXCEPT !.doneAfterTurn = TRUE]
           b == [s EXCEPT !.done = TRUE]
<1>1. a \in Session /\ Alike(s, a) /\ Same(s, a) /\ a.recapping = s.recapping
  BY Known DEF Session, Alike, Same
<1>2. b \in Session /\ Alike(s, b) /\ Same(s, b) /\ b.recapping = s.recapping
  BY Known DEF Session, Alike, Same
<1>3. /\ s' = a \/ s' = b
      /\ claude' = claude /\ doing' = doing /\ out' = out /\ gen' = gen /\ nudged' = nudged
      /\ fired' = fired /\ toContinue' = toContinue /\ errors' = errors
      /\ emitted' = emitted /\ prompts' = prompts
  BY DEF MarkDone
<1> HIDE DEF a, b
<1>4. claude' \in Claude
  BY <1>3, Known
<1>5. CASE s' = a
  BY <1>1, <1>3, <1>4, <1>5, AsideSafe
<1>6. CASE s' = b
  BY <1>2, <1>3, <1>4, <1>6, AsideSafe
<1> QED BY <1>3, <1>5, <1>6

LEMMA PushSafe ==
  ASSUME IInv, HandleOther \/ Nudge
  PROVE  IInv'
<1>1. /\ Becomes(Changed(s, gen), 0) /\ nudged' \in BOOLEAN
      /\ doing' = doing /\ out' = out /\ gen' = gen /\ fired' = fired
      /\ toContinue' = toContinue /\ errors' = errors /\ emitted' = emitted /\ prompts' = prompts
  BY Known DEF HandleOther, Nudge
<1> QED BY <1>1, Known, BecomesSafely

LEMMA RetryFiresSafe ==
  ASSUME IInv, RetryFires
  PROVE  IInv'
<1>1. s.refreshRetry \in Nat /\ s.refreshRetry # 0
  BY Known DEF RetryFires, Session
<1>2. fired' \in SUBSET Nat /\ 0 \notin fired'
  BY <1>1, Known DEF RetryFires
<1>3. UNCHANGED <<s, doing, out, claude, gen, nudged, toContinue, errors, emitted, prompts>>
  BY DEF RetryFires
<1>4. errors \in 0 .. MaxError /\ prompts \in 0 .. MaxPrompt
  BY DEF IInv, TypeOK
<1>5. Fit(s', emitted')
  BY <1>3, Known
<1> QED BY <1>2, <1>3, <1>4, <1>5, Known, StepSafe

LEMMA RunRetrySafe ==
  ASSUME IInv, NEW t \in fired, RunRetry(t)
  PROVE  IInv'
<1> DEFINE x == [s EXCEPT !.refreshRetry = 0]
<1>1. /\ s.alive /\ fired' = fired \ {t}
      /\ doing' = doing /\ out' = out /\ toContinue' = toContinue
      /\ errors' = errors /\ emitted' = emitted /\ prompts' = prompts
  BY DEF RunRetry, Ready
<1>2. fired' \in SUBSET Nat /\ 0 \notin fired' /\ t # 0
  BY <1>1, Known
<1>3. \/ s' = s /\ claude' = claude /\ gen' = gen /\ nudged' = nudged
      \/ s.refreshRetry = t /\ Send(x, "recap", FALSE)
      \/ /\ s.refreshRetry = t /\ MayStart(x)
         /\ \E y \in EnsureProc(x, gen') :
              \/ y.proc = "none" /\ Becomes(Changed(y, gen'), 0)
              \/ /\ y.proc # "none"
                 /\ Becomes(Changed(BeginTurn(y), gen'), IF y.proc = "live" THEN 1 ELSE 0)
  BY DEF RunRetry
<1>4. x \in Session
  BY Known DEF Session
<1>5. /\ x.alive = s.alive /\ x.begun = s.begun /\ x.turnActive = s.turnActive /\ x.proc = s.proc
      /\ x.pending = s.pending /\ x.seen = s.seen /\ x.outcomes = s.outcomes
      /\ x.refreshRetry = 0 /\ x.args = s.args /\ x.held = s.held /\ x.sent = s.sent
      /\ x.recapping = s.recapping
  BY Known DEF Session
<1> HIDE DEF x
<1>6. Sound(x)
  BY <1>5, Known DEF Fit, Sound
<1>7. Fit(x, emitted) /\ x.alive
  BY <1>1, <1>4, <1>5, <1>6, Known DEF Fit, Kept, Quiet
<1>8. errors \in 0 .. MaxError /\ prompts \in 0 .. MaxPrompt
  BY DEF IInv, TypeOK
<1>9. CASE s' = s /\ claude' = claude /\ gen' = gen /\ nudged' = nudged
  <2>1. Fit(s', emitted')
    BY <1>1, <1>9, Known
  <2> QED BY <1>1, <1>2, <1>8, <1>9, <2>1, Known, StepSafe
<1>10. CASE s.refreshRetry = t /\ Send(x, "recap", FALSE)
  BY <1>1, <1>2, <1>7, <1>8, <1>10, PromptSafe
<1>11. CASE /\ s.refreshRetry = t /\ MayStart(x)
            /\ \E y \in EnsureProc(x, gen') :
                 \/ y.proc = "none" /\ Becomes(Changed(y, gen'), 0)
                 \/ /\ y.proc # "none"
                    /\ Becomes(Changed(BeginTurn(y), gen'), IF y.proc = "live" THEN 1 ELSE 0)
  <2>1. ~x.turnActive
    BY <1>2, <1>5, <1>11, Known DEF Fit, Sound
  <2>2. PICK y \in EnsureProc(x, gen') :
               \/ y.proc = "none" /\ Becomes(Changed(y, gen'), 0)
               \/ /\ y.proc # "none"
                  /\ Becomes(Changed(BeginTurn(y), gen'), IF y.proc = "live" THEN 1 ELSE 0)
    BY <1>11
  <2>3. gen' \in Nat
    BY <1>11, Known, StartSafe
  <2>4. ~y.turnActive
    BY <1>7, <2>1, <2>3, Known, EnsureFit
  <2>5. InTurn(y) = BeginTurn(y)
    BY <2>4 DEF InTurn
  <2>6. \E n \in Nat : \/ Becomes(Changed(y, gen'), n)
                       \/ y.proc # "none" /\ Becomes(Changed(InTurn(y), gen'), n)
    BY <2>2, <2>5
  <2> QED BY <1>1, <1>2, <1>7, <1>11, <2>6, Known, StartedSafe
<1> QED BY <1>3, <1>9, <1>10, <1>11

LEMMA IdleTimeoutSafe ==
  ASSUME IInv, IdleTimeout
  PROVE  IInv'
<1> DEFINE x == [s EXCEPT !.idle = FALSE]
<1>1. x \in Session /\ Alike(s, x) /\ Same(s, x) /\ x.recapping = s.recapping
  BY ZenonT(60), Known DEF Session, Alike, Same
<1>2. /\ s.alive
      /\ doing' = doing /\ out' = out /\ gen' = gen /\ nudged' = nudged /\ fired' = fired
      /\ toContinue' = toContinue /\ errors' = errors /\ emitted' = emitted /\ prompts' = prompts
      /\ Becomes(x, 0) \/ (s.proc # "none" /\ Becomes(CloseProc(x), 0))
  BY DEF IdleTimeout, Ready
<1> HIDE DEF x
<1>3. Fit(x, emitted) /\ x.alive /\ x.proc = s.proc
  BY <1>1, <1>2, Known, AlikeSound DEF Fit, Same, Kept, Quiet, Alike
<1>4. CASE Becomes(x, 0)
  BY <1>2, <1>3, <1>4, Known, BecomesSafely
<1>5. CASE s.proc # "none" /\ Becomes(CloseProc(x), 0)
  <2>1. Fit(CloseProc(x), emitted)
    BY <1>3, <1>5, CloseFit
  <2> QED BY <1>2, <1>5, <2>1, Known, BecomesSafely
<1> QED BY <1>2, <1>4, <1>5

(* Quitting keeps the books: the session is gone, with it its process.     *)
LEMMA QuitSafe ==
  ASSUME IInv, Quit
  PROVE  IInv'
<1> DEFINE st == s.stopping \/ s.proc # "none"
           x == [s EXCEPT !.alive = FALSE, !.proc = "none", !.args = FALSE, !.stopping = st]
<1>1. /\ Becomes(x, 0) /\ out' = <<>>
      /\ doing' = doing /\ gen' = gen /\ nudged' = nudged /\ fired' = fired
      /\ toContinue' = toContinue /\ errors' = errors /\ emitted' = emitted /\ prompts' = prompts
  BY DEF Quit
<1>2. st \in BOOLEAN
  BY Known DEF Session
<1> HIDE DEF st
<1>3. x \in Session
  BY ZenonT(60), <1>2, Known DEF Session, ProcState
<1>4. /\ x.alive = FALSE /\ x.proc = "none" /\ x.args = FALSE
      /\ x.pending = s.pending /\ x.seen = s.seen /\ x.outcomes = s.outcomes
      /\ x.refreshRetry = s.refreshRetry /\ x.turnActive = s.turnActive
      /\ x.held = s.held /\ x.sent = s.sent
  BY Known DEF Session
<1> HIDE DEF x
<1>5. Fit(x, emitted)
  <2>1. Sound(x)
    BY <1>4, Known DEF Fit, Sound
  <2> QED BY <1>3, <1>4, <2>1, Known DEF Fit, Kept, Quiet
<1> QED BY <1>1, <1>5, Known, BecomesSafely

LEMMA ProcExitsSafe ==
  ASSUME IInv, ProcExits
  PROVE  IInv'
<1>1. PICK failed \in BOOLEAN : Becomes(OnExit(s, failed), 0)
  BY DEF ProcExits
<1>2. /\ s.alive
      /\ doing' = doing /\ out' = out /\ gen' = gen /\ nudged' = nudged /\ fired' = fired
      /\ toContinue' = toContinue /\ errors' = errors /\ emitted' = emitted /\ prompts' = prompts
  BY DEF ProcExits, Ready
<1>3. Fit(OnExit(s, failed), emitted)
  BY <1>2, Known, ExitFit
<1> QED BY <1>1, <1>2, <1>3, Known, BecomesSafely

(* A message is handled, and the requests still unread stay new.           *)
LEMMA HandleMessageSafe ==
  ASSUME IInv, HandleMessage
  PROVE  IInv'
<1> DEFINE m == Head(out)
           x == Handled(s, m)
           y == Changed(x, gen)
<1>1. /\ s.alive /\ s.proc # "none" /\ out # <<>> /\ out' = Tail(out) /\ Becomes(y, 0)
      /\ doing' = doing /\ gen' = gen /\ nudged' = nudged /\ fired' = fired
      /\ toContinue' = toContinue /\ errors' = errors /\ emitted' = emitted /\ prompts' = prompts
  BY DEF HandleMessage
<1>2. out \in Seq(Message) /\ AsksAreNew
  BY DEF IInv, TypeOK
<1>3. /\ m = out[1] /\ m \in Message /\ out' \in Seq(Message) /\ Len(out) \in Nat /\ Len(out) >= 1
      /\ Len(out') = Len(out) - 1 /\ \A i \in 1 .. Len(out') : out'[i] = out[i + 1]
  BY <1>1, <1>2
<1>4. m.t = "ask" => m.r \in Request \ s.seen
  BY <1>2, <1>3 DEF AsksAreNew
<1> HIDE DEF m
<1>5. /\ x \in Session /\ Sound(x) /\ Quiet(x) /\ x.alive
      /\ x.seen = IF m.t = "ask" THEN s.seen \cup {m.r} ELSE s.seen
      /\ x.held = s.held /\ x.sent = s.sent
  BY ZenonT(60), <1>1, <1>3, <1>4, Known, HandledSound DEF Fit
<1> HIDE DEF x
<1>6. /\ y \in Session /\ Sound(y) /\ Same(x, y)
      /\ y.turnActive = x.turnActive /\ y.recapping = x.recapping
  BY <1>5, ChangedSound
<1> HIDE DEF y
<1>7. Quiet(y) /\ Kept(y, emitted)
  BY <1>5, <1>6, Known DEF Same, Quiet, Kept, Fit
<1>8. s' = y /\ claude' \in Claude
  BY <1>1, <1>6, Known, BecomesSafe
<1>9. AsksAreNew'
  <2>1. s'.seen = IF m.t = "ask" THEN s.seen \cup {m.r} ELSE s.seen
    BY <1>5, <1>6, <1>8 DEF Same
  <2>2. ASSUME NEW i \in 1 .. Len(out'), out'[i].t = "ask"
        PROVE  out'[i].r \in Request \ s'.seen
    <3>1. i + 1 \in 1 .. Len(out) /\ 1 \in 1 .. Len(out) /\ i + 1 # 1 /\ out'[i] = out[i + 1]
      BY <1>3
    <3>2. out[i + 1].r \in Request \ s.seen /\ (m.t = "ask" => out[i + 1].r # m.r)
      BY <1>2, <1>3, <2>2, <3>1 DEF AsksAreNew
    <3> QED BY <2>1, <3>1, <3>2
  <2>3. ASSUME NEW i \in 1 .. Len(out'), NEW j \in 1 .. Len(out'), i # j,
               out'[i].t = "ask", out'[j].t = "ask"
        PROVE  out'[i].r # out'[j].r
    <3>1. i + 1 \in 1 .. Len(out) /\ j + 1 \in 1 .. Len(out) /\ i + 1 # j + 1
      <4>1. Len(out') = Len(out) - 1 /\ Len(out) \in Nat
        BY <1>3
      <4> QED BY <2>3, <4>1
    <3>2. out'[i] = out[i + 1] /\ out'[j] = out[j + 1]
      BY <1>3
    <3> QED BY <1>2, <2>3, <3>1, <3>2 DEF AsksAreNew
  <2> QED BY <2>2, <2>3 DEF AsksAreNew
<1>10. TypeOK'
  <2>1. errors \in 0 .. MaxError /\ prompts \in 0 .. MaxPrompt
    BY DEF IInv, TypeOK
  <2> QED BY <1>1, <1>3, <1>6, <1>8, <2>1, Known DEF TypeOK
<1>11. Sound(s)' /\ Quiet(s)' /\ Kept(s, emitted)'
  BY <1>1, <1>6, <1>7, <1>8 DEF Sound, Quiet, Kept
<1> QED BY <1>1, <1>9, <1>10, <1>11, Known DEF IInv

-----------------------------------------------------------------------------
(* claude's own steps.                                                     *)

LEMMA WritesSafe ==
  ASSUME IInv, NEW t \in {"output", "busy", "ask", "cancel", "ok", "error"},
         NEW r \in Request \cup {None}, Writes(t, r),
         t = "ask" => /\ r \in Request \ s.seen
                      /\ \A i \in 1 .. Len(out) : out[i].r # r,
         claude' \in Claude, errors' \in 0 .. MaxError
  PROVE  IInv'
<1> DEFINE m == [t |-> t, r |-> r]
<1>1. /\ out' = Append(out, m)
      /\ s' = s /\ doing' = doing /\ gen' = gen /\ nudged' = nudged /\ fired' = fired
      /\ toContinue' = toContinue /\ emitted' = emitted /\ prompts' = prompts
  BY DEF Writes
<1>2. m \in Message /\ m.t = t /\ m.r = r
  BY DEF Message
<1>3. out \in Seq(Message) /\ AsksAreNew /\ prompts \in 0 .. MaxPrompt
  BY DEF IInv, TypeOK
<1> HIDE DEF m
<1>4. /\ out' \in Seq(Message) /\ Len(out) \in Nat /\ Len(out') = Len(out) + 1
      /\ \A i \in 1 .. Len(out) : out'[i] = out[i]
      /\ out'[Len(out')] = m
  BY <1>1, <1>2, <1>3
<1>5. TypeOK'
  BY <1>1, <1>3, <1>4, Known DEF TypeOK
<1>6. \A i \in 1 .. Len(out') : i \in 1 .. Len(out) \/ i = Len(out')
  BY <1>4
<1>7. AsksAreNew'
  <2>1. ASSUME NEW i \in 1 .. Len(out'), out'[i].t = "ask"
        PROVE  out'[i].r \in Request \ s.seen
    BY <1>2, <1>3, <1>4, <1>6, <2>1 DEF AsksAreNew
  <2>2. ASSUME NEW i \in 1 .. Len(out'), NEW j \in 1 .. Len(out'), i # j,
               out'[i].t = "ask", out'[j].t = "ask"
        PROVE  out'[i].r # out'[j].r
    BY <1>2, <1>3, <1>4, <1>6, <2>2 DEF AsksAreNew
  <2> QED BY <1>1, <2>1, <2>2 DEF AsksAreNew
<1>8. Sound(s)' /\ Quiet(s)' /\ Kept(s, emitted)' /\ 0 \notin fired'
  BY <1>1 DEF IInv, Sound, Quiet, Kept
<1> QED BY <1>5, <1>7, <1>8 DEF IInv

LEMMA ClaudeStepSafe ==
  ASSUME IInv, ClaudeStep
  PROVE  IInv'
<1>1. claude \in Claude /\ errors \in 0 .. MaxError
  BY DEF IInv, TypeOK
<1>2. CASE ClaudeReads
  <2>1. claude' = [claude EXCEPT !.asks = @ - 1, !.working = TRUE] /\ claude.asks > 0
    BY <1>2 DEF ClaudeReads
  <2>2. claude' \in Claude
    <3>1. claude.asks \in Nat
      BY <1>1 DEF Claude
    <3>2. claude.asks - 1 \in Nat
      BY <2>1, <3>1
    <3> QED BY <1>1, <2>1, <3>2 DEF Claude
  <2>3. UNCHANGED <<s, doing, out, gen, nudged, fired, toContinue, errors, emitted, prompts>>
    BY <1>2 DEF ClaudeReads
  <2> QED BY <2>2, <2>3, Known, AsideSafe DEF Alike, Same
<1>3. CASE ClaudeExits
  <2> DEFINE x == [s EXCEPT !.proc = "exited"]
  <2>1. /\ Becomes(x, 0) /\ s.proc = "live"
        /\ doing' = doing /\ out' = out /\ gen' = gen /\ nudged' = nudged /\ fired' = fired
        /\ toContinue' = toContinue /\ errors' = errors /\ emitted' = emitted /\ prompts' = prompts
    BY <1>3 DEF ClaudeExits
  <2>2. x \in Session
    BY Known DEF Session, ProcState
  <2>3. /\ x.alive = s.alive /\ x.begun = s.begun /\ x.turnActive = s.turnActive /\ x.proc = "exited"
        /\ x.pending = s.pending /\ x.seen = s.seen /\ x.outcomes = s.outcomes
        /\ x.refreshRetry = s.refreshRetry /\ x.args = s.args /\ x.held = s.held /\ x.sent = s.sent
        /\ x.recapping = s.recapping
    BY Known DEF Session
  <2> HIDE DEF x
  <2>4. Sound(x)
    BY <2>1, <2>3, Known DEF Fit, Sound
  <2>5. Fit(x, emitted)
    BY <2>2, <2>3, <2>4, Known DEF Fit, Kept, Quiet
  <2> QED BY <2>1, <2>5, Known, BecomesSafely
<1>4. ASSUME NEW t \in {"output", "busy"}, ClaudeSays(t) PROVE IInv'
  <2>1. Writes(t, None) /\ claude' \in Claude /\ errors' \in 0 .. MaxError
    BY <1>1, <1>4 DEF ClaudeSays
  <2> QED BY <2>1, WritesSafe
<1>5. ASSUME NEW r \in Request, ClaudeAsks(r) PROVE IInv'
  <2>1. /\ Writes("ask", r) /\ errors' \in 0 .. MaxError
        /\ r \notin s.seen /\ \A i \in 1 .. Len(out) : out[i].r # r
    BY <1>1, <1>5 DEF ClaudeAsks
  <2>2. claude' \in Claude
    BY <1>1, <1>5 DEF ClaudeAsks, Claude
  <2> QED BY <2>1, <2>2, WritesSafe
<1>6. ASSUME NEW r \in Request, ClaudeWithdraws(r) PROVE IInv'
  <2>1. Writes("cancel", r) /\ errors' \in 0 .. MaxError
    BY <1>1, <1>6 DEF ClaudeWithdraws
  <2>2. claude' \in Claude
    BY <1>1, <1>6 DEF ClaudeWithdraws, Claude
  <2> QED BY <2>1, <2>2, WritesSafe
<1>7. ASSUME NEW t \in {"ok", "error"}, ClaudeFinishes(t) PROVE IInv'
  <2>1. Writes(t, None)
    BY <1>7 DEF ClaudeFinishes
  <2>2. claude' \in Claude
    BY <1>1, <1>7 DEF ClaudeFinishes, Claude
  <2>3. errors' \in 0 .. MaxError
    BY <1>1, <1>7, BoundAssumption DEF ClaudeFinishes
  <2> QED BY <2>1, <2>2, <2>3, WritesSafe
<1> QED BY <1>2, <1>3, <1>4, <1>5, <1>6, <1>7 DEF ClaudeStep

LEMMA NewGenerationSafe ==
  ASSUME IInv, NewGeneration
  PROVE  IInv'
<1>1. gen' \in 0 .. MaxGen /\ nudged' \in BOOLEAN
  BY Known, BoundAssumption DEF NewGeneration
<1>2. UNCHANGED <<s, doing, out, claude, fired, toContinue, errors, emitted, prompts>>
  BY DEF NewGeneration
<1>3. errors \in 0 .. MaxError /\ prompts \in 0 .. MaxPrompt
  BY DEF IInv, TypeOK
<1>4. Fit(s', emitted')
  BY <1>2, Known
<1> QED BY <1>1, <1>2, <1>3, <1>4, Known, StepSafe

-----------------------------------------------------------------------------
(* The theorems.                                                           *)

LEMMA NextSafe ==
  ASSUME IInv, [Next]_vars
  PROVE  IInv'
<1>1. CASE Command
  <2>1. ASSUME NEW kind, SendPrompt(kind) PROVE IInv'
    BY <2>1, SendPromptSafe
  <2>2. ASSUME NEW e \in Event, NEW wake \in BOOLEAN, ProcessEvent(e, wake) PROVE IInv'
    BY <2>2, ProcessEventSafe
  <2>3. ASSUME NEW files \in BOOLEAN, Rewind(files) PROVE IInv'
    BY <2>3, RewindSafe
  <2>4. ASSUME NEW r \in Request, Respond(r) PROVE IInv'
    BY <2>4, RespondSafe
  <2> QED BY <1>1, <2>1, <2>2, <2>3, <2>4, ContinueSafe, InterruptSafe, RestartSafe,
             MarkDoneSafe, PushSafe, QuitSafe DEF Command
<1>2. CASE \E t \in fired : RunRetry(t)
  BY <1>2, RunRetrySafe
<1>3. CASE UNCHANGED vars
  BY <1>3 DEF vars, IInv, TypeOK, Sound, Quiet, Kept, AsksAreNew
<1> QED BY <1>1, <1>2, <1>3, ClaudeStepSafe, HandleMessageSafe, ProcExitsSafe, FinishStopSafe,
           RetryFiresSafe, IdleTimeoutSafe, PushSafe, NewGenerationSafe DEF Next

(* The inductive invariant holds in every state of every behaviour.        *)
THEOREM AgentInvariant == Spec => []IInv
<1>1. IInv /\ [Next]_vars => IInv'
  BY NextSafe
<1> QED BY <1>1, InitSafe, PTL DEF Spec

(* Every field of the session always has one of its values.                *)
THEOREM AgentTypeCorrect == Spec => []TypeOK
<1>1. IInv => TypeOK
  BY DEF IInv
<1> QED BY <1>1, AgentInvariant, PTL

(* However commands, messages, exits and retries interleave, the log       *)
(* alternates between a turn's start and its end, and an open turn has a   *)
(* process.                                                                *)
THEOREM AgentTurnsAreLogged == Spec => []TurnsAreLogged
<1>1. IInv => TurnsAreLogged
  BY DEF IInv, Sound, TurnsAreLogged
<1> QED BY <1>1, AgentInvariant, PTL

(* A permission request is settled in the log exactly once, by whichever   *)
(* of answer, withdrawal, end of turn and exit comes first.                *)
THEOREM AgentRequestsSettleOnce == Spec => []RequestsSettleOnce
<1>1. IInv => RequestsSettleOnce
  BY DEF IInv, Sound, RequestsSettleOnce
<1> QED BY <1>1, AgentInvariant, PTL

(* A retry of a turn is never scheduled while another turn runs.           *)
THEOREM AgentRetryBetweenTurns == Spec => []RetryBetweenTurns
<1>1. IInv => RetryBetweenTurns
  BY DEF IInv, Sound, RetryBetweenTurns
<1> QED BY <1>1, AgentInvariant, PTL

(* A recap never leaves its flag to another turn.                          *)
THEOREM AgentRecapIsATurn == Spec => []RecapIsATurn
<1>1. IInv => RecapIsATurn
  BY DEF IInv, Quiet, RecapIsATurn
<1> QED BY <1>1, AgentInvariant, PTL

(* No process event is lost or told twice while the session has it.        *)
THEOREM AgentEventsKept == Spec => []EventsKept
<1>1. IInv => EventsKept
  BY DEF IInv, Kept, EventsKept
<1> QED BY <1>1, AgentInvariant, PTL

(* What was handed out for a process goes with it, and no session leaves   *)
(* a process behind.                                                       *)
THEOREM AgentNothingLeftBehind == Spec => []NothingLeftBehind
<1>1. IInv => NothingLeftBehind
  BY DEF IInv, Sound, NothingLeftBehind
<1> QED BY <1>1, AgentInvariant, PTL
=============================================================================
