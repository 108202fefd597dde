---------------------------- MODULE AgentSession ----------------------------
(***************************************************************************)
(* One agent thread: the goroutine of daemon/internal/agent/session.go     *)
(* that owns it, and the claude process it starts, feeds and stops.        *)
(*                                                                         *)
(* The goroutine takes, in any order, commands (from clients, the process  *)
(* manager, thread_done, the refresh retry's timer, updates and sign-ins), *)
(* the messages claude wrote, the end of claude and its idle timer. Each   *)
(* is one action here. What a command does is a composition of functions   *)
(* on the record s, which holds the session struct's fields and what was   *)
(* logged and stored; the functions have the names of the code's.          *)
(*                                                                         *)
(* closeProc waits for claude to exit, so a process is live or has exited; *)
(* an exited one keeps its unread messages until the loop has read them.   *)
(***************************************************************************)
EXTENDS Naturals, Sequences

CONSTANTS
  Request,    \* ids of permission requests
  Event,      \* events of the thread's long-running processes
  Harness,    \* whether another agent runs the thread, through a harness
  MaxRefreshRetries,
  MaxPrompt,  \* bound on the prompts clients send
  MaxGen,     \* bound on the claude updates and sign-ins
  MaxError,   \* bound on the turns claude ends with an error
  MaxQueue,   \* bound on claude's unread messages
  None        \* no request

ASSUME HarnessAssumption == Harness \in BOOLEAN
ASSUME BoundAssumption ==
  /\ MaxRefreshRetries \in Nat /\ MaxPrompt \in Nat /\ MaxGen \in Nat
  /\ MaxError \in Nat /\ MaxQueue \in Nat
ASSUME NoneAssumption == None \notin Request

VARIABLES
  s,          \* the session's fields, log and store
  doing,      \* "loop", or the command whose stopProc is reading claude out
  out,        \* claude's messages that were not handled yet
  claude,     \* what claude is doing, while it is live
  gen,        \* Manager.build and Manager.authGen: updates and sign-ins so far
  nudged,     \* a changed that an update or sign-in queued on cmds
  fired,      \* retry timers whose function is queued on cmds
  toContinue, \* the daemon started with this thread marked to continue
  errors,     \* turns claude has ended with an error
  emitted,    \* process events so far
  prompts     \* prompts sent so far

vars == <<s, doing, out, claude, gen, nudged, fired, toContinue, errors, emitted, prompts>>

Message == [t: {"output", "busy", "ask", "cancel", "ok", "error"}, r: Request \cup {None}]

ProcState == {"none", "live", "exited"}
Status == {"stopped", "idle", "working", "waiting", "error"}
Shows == Status \cup {"starting"}
Outcome == {"none", "completed", "interrupted", "error"}

Session == [
  proc: ProcState,
  alive: BOOLEAN,          \* run has not returned
  gen: Nat,                \* procBuild and procAuth
  started: Nat,            \* the generation the process was launched under
  args: BOOLEAN,           \* releaseArgs is set
  status: Status,
  shown: Shows,            \* the status clients were sent last
  running: BOOLEAN,        \* published.running
  turnActive: BOOLEAN, interrupted: BOOLEAN, stopping: BOOLEAN,
  recapping: BOOLEAN, doneAfterTurn: BOOLEAN,
  authFailed: BOOLEAN, refreshBusy: BOOLEAN,
  refreshRetries: Nat,
  refreshRetry: Nat,       \* the retry's timer, 0 for none
  timers: Nat,             \* retries scheduled so far
  recaps: SUBSET Nat,      \* those that send /recap again
  pending: SUBSET Request,
  idle: BOOLEAN,           \* the idle timer runs
  held: SUBSET Event,
  sent: SUBSET Event,      \* events written to claude
  begun: Nat,              \* turns logged as started since one ended
  joined: BOOLEAN,         \* a prompt joined the turn
  ended: Outcome,          \* the last end logged
  seen: SUBSET Request,    \* requests clients were shown
  outcomes: [Request -> Nat], \* outcomes logged for each
  done: BOOLEAN]           \* threads.done_at

Claude == [asks: Nat,      \* messages on its stdin
           working: BOOLEAN,
           open: SUBSET Request,
           stop: BOOLEAN]  \* told to interrupt its turn

TypeOK ==
  /\ s \in Session
  /\ doing \in {"loop", "restart", "rewind"}
  /\ out \in Seq(Message)
  /\ claude \in Claude
  /\ gen \in 0 .. MaxGen
  /\ nudged \in BOOLEAN
  /\ fired \in SUBSET Nat
  /\ toContinue \in BOOLEAN
  /\ errors \in 0 .. MaxError
  /\ emitted \in SUBSET Event
  /\ prompts \in 0 .. MaxPrompt

NoClaude == [asks |-> 0, working |-> FALSE, open |-> {}, stop |-> FALSE]

Init ==
  /\ s = [proc |-> "none", alive |-> TRUE, gen |-> 0, started |-> 0, args |-> FALSE,
          status |-> "stopped", shown |-> "stopped", running |-> FALSE,
          turnActive |-> FALSE, interrupted |-> FALSE, stopping |-> FALSE,
          recapping |-> FALSE, doneAfterTurn |-> FALSE,
          authFailed |-> FALSE, refreshBusy |-> FALSE, refreshRetries |-> 0,
          refreshRetry |-> 0, timers |-> 0, recaps |-> {},
          pending |-> {}, idle |-> FALSE, held |-> {}, sent |-> {},
          begun |-> 0, joined |-> FALSE, ended |-> "none",
          seen |-> {}, outcomes |-> [r \in Request |-> 0], done |-> FALSE]
  /\ doing = "loop"
  /\ out = <<>>
  /\ claude = NoClaude
  /\ gen \in 0 .. MaxGen
  /\ nudged = FALSE
  /\ fired = {}
  /\ toContinue \in BOOLEAN
  /\ errors = 0
  /\ emitted = {}
  /\ prompts = 0

-----------------------------------------------------------------------------
(* The helpers, as functions on a session record. *)

(* Fault: the request is not forgotten. *)
ResolveKeeps(x, rs) ==
  [x EXCEPT !.outcomes = [r \in Request |-> IF r \in rs \cap x.pending THEN @[r] + 1 ELSE @[r]]]

Resolve(x, rs) ==
  [x EXCEPT !.pending = @ \ rs,
            !.outcomes = [r \in Request |-> IF r \in rs \cap x.pending THEN @[r] + 1 ELSE @[r]]]

BeginTurn(x) ==
  [x EXCEPT !.turnActive = TRUE, !.interrupted = FALSE,
            !.authFailed = FALSE, !.refreshBusy = FALSE, !.refreshRetry = 0,
            !.begun = @ + 1, !.joined = FALSE]

(* Fault: what is pending is dropped instead of settled. *)
EndTurnDrops(x, how) ==
  [x EXCEPT !.pending = {},
     !.turnActive = FALSE, !.interrupted = FALSE, !.doneAfterTurn = FALSE, !.recapping = FALSE,
     !.begun = 0, !.ended = how,
     !.done = @ \/ (x.doneAfterTurn /\ how = "completed")]

EndTurn(x, how) ==
  [Resolve(x, x.pending) EXCEPT
     !.turnActive = FALSE, !.interrupted = FALSE, !.doneAfterTurn = FALSE, !.recapping = FALSE,
     !.begun = 0, !.ended = how,
     !.done = @ \/ (x.doneAfterTurn /\ how = "completed")]

CloseProc(x) == [x EXCEPT !.proc = "exited", !.stopping = TRUE]

StatusOf(x) ==
  CASE x.proc = "none"  -> x.status
    [] x.proc # "none" /\ x.pending # {} -> "waiting"
    [] x.proc # "none" /\ x.pending = {} /\ x.turnActive -> "working"
    [] x.proc # "none" /\ x.pending = {} /\ ~x.turnActive -> "idle"

Shown(x) ==
  [x EXCEPT !.status = StatusOf(x), !.shown = StatusOf(x),
            !.idle = (StatusOf(x) = "idle"), !.running = (x.proc # "none")]

(* Push the state, and close an idle process of another generation than g. *)
Changed(x, g) ==
  IF x.proc # "none" /\ StatusOf(x) = "idle" /\ ~x.stopping /\ g # x.gen
  THEN CloseProc(Shown(x)) ELSE Shown(x)

(* Fault: the user's interrupt is forgotten. *)
OnExitSurprised(x, failed) ==
  LET expected == x.stopping
      y == IF x.turnActive THEN EndTurn(x, IF expected THEN "interrupted" ELSE "error") ELSE x
  IN Changed([y EXCEPT !.proc = "none", !.args = FALSE,
                       !.status = IF failed /\ ~expected THEN "error" ELSE "stopped",
                       !.stopping = FALSE, !.interrupted = FALSE], gen)

(* Fault: what ThreadArgs handed out is not given back. *)
OnExitKeeps(x, failed) ==
  LET expected == x.stopping \/ x.interrupted
      y == IF x.turnActive THEN EndTurn(x, IF expected THEN "interrupted" ELSE "error") ELSE x
  IN Changed([y EXCEPT !.proc = "none",
                       !.status = IF failed /\ ~expected THEN "error" ELSE "stopped",
                       !.stopping = FALSE, !.interrupted = FALSE], gen)

(* Fault: the turn is left open. *)
OnExitMidTurn(x, failed) ==
  LET expected == x.stopping \/ x.interrupted
      y == x
  IN Changed([y EXCEPT !.proc = "none", !.args = FALSE,
                       !.status = IF failed /\ ~expected THEN "error" ELSE "stopped",
                       !.stopping = FALSE, !.interrupted = FALSE], gen)

OnExit(x, failed) ==
  LET expected == x.stopping \/ x.interrupted
      y == IF x.turnActive THEN EndTurn(x, IF expected THEN "interrupted" ELSE "error") ELSE x
  IN Changed([y EXCEPT !.proc = "none", !.args = FALSE,
                       !.status = IF failed /\ ~expected THEN "error" ELSE "stopped",
                       !.stopping = FALSE, !.interrupted = FALSE], gen)

(* Fault: the build and sign-in the process runs under are not noted. *)
EnsureProcUnnoted(x, g) ==
  LET starting == [x EXCEPT !.shown = "starting", !.running = FALSE, !.idle = FALSE]
  IN IF x.proc # "none" THEN {x}
     ELSE {x,
           [starting EXCEPT !.status = "error"],
           [starting EXCEPT !.status = "idle", !.proc = "live", !.args = TRUE, !.started = gen]}

(* The outcomes of ensureProc when generation g is current once claude is  *)
(* up: the thread's row cannot be read, claude cannot be started, or it is *)
(* up. An agent's harness notes no generation.                             *)
EnsureProc(x, g) ==
  LET starting == [x EXCEPT !.shown = "starting", !.running = FALSE, !.idle = FALSE]
  IN IF x.proc # "none" THEN {x}
     ELSE {x,
           [starting EXCEPT !.status = "error"],
           [starting EXCEPT !.status = "idle", !.proc = "live", !.args = TRUE,
                            !.gen = IF Harness THEN @ ELSE g, !.started = gen]}

(* Starting claude takes seconds, in which it can be updated or signed in. *)
MayStart(x) ==
  /\ gen' \in {g \in {gen, gen + 1} : g <= MaxGen /\ (g # gen => x.proc = "none")}
  /\ nudged' = (nudged \/ gen' # gen)

(* Fault: what was written stays held. *)
ToldKeeps(x, events) == [x EXCEPT !.sent = @ \cup events]

(* What proc.Send delivers: nothing once claude has exited. *)
Told(x, events) == [x EXCEPT !.sent = @ \cup events, !.held = @ \ events]

(* The session becomes x, having written n messages to claude. *)
Becomes(x, n) ==
  /\ s' = x
  /\ claude' = IF x.proc = "live" THEN [claude EXCEPT !.asks = @ + n] ELSE NoClaude

(* The loop waits for its next command. *)
Ready == s.alive /\ doing = "loop"

-----------------------------------------------------------------------------
(* Commands. *)

(* A prompt starts a turn or joins the one in progress. *)
JoinTurn(x) ==
  IF x.turnActive THEN [x EXCEPT !.doneAfterTurn = FALSE, !.joined = TRUE] ELSE BeginTurn(x)

(* send, for a session x. The client's handler pushes the state afterwards,*)
(* the retry of a recap does not. Files may turn out to be unreadable.     *)
Send(x, kind, push) ==
  LET Push(z) == IF push THEN Changed(z, gen') ELSE z
      y == [x EXCEPT !.recapping = ~x.turnActive /\ kind = "recap"]
  IN /\ MayStart(y)
     /\ \E z \in EnsureProc(y, gen') :
          \/ z.proc = "none" /\ Becomes(Push([z EXCEPT !.recapping = FALSE]), 0)
          \/ z.proc # "none" /\ kind = "files" /\ Becomes(Push(z), 0)
          \/ /\ z.proc # "none"
             /\ LET w == Changed(JoinTurn(z), gen')
                IN \/ w.proc = "live" /\ w.recapping /\ Becomes(Push(w), 1)
                   \/ w.proc = "live" /\ ~w.recapping
                      /\ Becomes(Push([Told(w, w.held) EXCEPT !.done = FALSE]), 1)
                   \/ w.proc = "exited" /\ Becomes(Push(w), 0)

SendPrompt(kind) ==
  /\ Ready /\ prompts < MaxPrompt
  /\ prompts' = prompts + 1
  /\ Send([s EXCEPT !.refreshRetries = 0], kind, TRUE)
  /\ UNCHANGED <<doing, out, fired, toContinue, errors, emitted>>

ProcessEvent(e, wake) ==
  LET keep == [s EXCEPT !.held = @ \cup {e}]
  IN /\ Ready /\ e \notin emitted
     /\ emitted' = emitted \cup {e}
     /\ UNCHANGED <<doing, out, fired, toContinue, errors, prompts>>
     /\ \/ /\ ~wake
           /\ Becomes(Changed(keep, gen), 0)
           /\ UNCHANGED <<gen, nudged>>
        \/ /\ wake /\ s.turnActive /\ s.proc # "none"
           /\ UNCHANGED <<gen, nudged>>
           /\ \/ s.proc = "live" /\ Becomes(Changed(Told(s, {e}), gen), 1)
              \/ s.proc = "exited" /\ Becomes(Changed(keep, gen), 0)
        \/ /\ wake /\ ~(s.turnActive /\ s.proc # "none")
           /\ MayStart(keep)
           /\ \E z \in EnsureProc(keep, gen') :
                \/ z.proc = "none" /\ Becomes(Changed(z, gen'), 0)
                \/ z.proc = "live"
                   /\ Becomes(Changed(Told(BeginTurn(z), z.held), gen'), 1)
                \/ z.proc = "exited" /\ Becomes(Changed(BeginTurn(z), gen'), 0)

ContinueTurn ==
  /\ Ready /\ toContinue
  /\ toContinue' = FALSE
  /\ MayStart(s)
  /\ \E y \in EnsureProc(s, gen') :
       \/ y.proc = "none" /\ Becomes(Changed(y, gen'), 0)
       \/ /\ y.proc # "none"
          /\ Becomes(Changed(IF y.turnActive THEN y ELSE BeginTurn(y), gen'),
                     IF y.proc = "live" THEN 1 ELSE 0)
  /\ UNCHANGED <<doing, out, fired, errors, emitted, prompts>>

(* claude answers that it stops, and may drop what it has not read, or is   *)
(* stuck and gets closed.                                                   *)
Interrupt ==
  LET x == [s EXCEPT !.interrupted = TRUE]
  IN /\ Ready /\ s.proc # "none" /\ s.turnActive
     /\ \/ /\ s.proc = "live"
           /\ s' = Changed(x, gen)
           /\ \E n \in {0, claude.asks} :
                claude' = [claude EXCEPT !.stop = claude.working, !.asks = n]
        \/ Becomes(Changed(CloseProc(x), gen), 0)
     /\ UNCHANGED <<doing, out, gen, nudged, fired, toContinue, errors, emitted, prompts>>

Restart ==
  /\ Ready
  /\ \/ /\ s.proc # "none"
        /\ Becomes(CloseProc(s), 0) /\ doing' = "restart"
        /\ UNCHANGED <<gen, nudged>>
     \/ /\ s.proc = "none"
        /\ MayStart(s)
        /\ \E y \in EnsureProc(s, gen') : Becomes(Changed(y, gen'), 0)
        /\ UNCHANGED doing
  /\ UNCHANGED <<out, fired, toContinue, errors, emitted, prompts>>

(* rewind to a prompt of this session or an earlier one; with files, claude *)
(* restores them first, which it may refuse.                                *)
Rewind(files) ==
  /\ Ready /\ ~Harness /\ ~s.turnActive
  /\ IF files THEN MayStart(s) ELSE UNCHANGED <<gen, nudged>>
  /\ \E y \in (IF files THEN EnsureProc(s, gen') ELSE {s}) :
       \/ /\ files \/ y.proc = "none"
          /\ Becomes(Changed(y, gen'), 0) /\ UNCHANGED doing
       \/ /\ y.proc # "none" /\ (files => y.proc = "live")
          /\ Becomes(CloseProc(y), 0) /\ doing' = "rewind"
  /\ UNCHANGED <<out, fired, toContinue, errors, emitted, prompts>>

(* The end of stopProc, and the rest of restart or rewind. *)
FinishStop ==
  /\ s.alive /\ doing # "loop" /\ out = <<>>
  /\ LET x == OnExit(s, FALSE)
     IN \/ /\ doing = "rewind"
           /\ Becomes(Changed(x, gen), 0)
           /\ UNCHANGED <<gen, nudged>>
        \/ /\ doing = "restart"
           /\ MayStart(x)
           /\ \E y \in EnsureProc(x, gen') : Becomes(Changed(y, gen'), 0)
  /\ doing' = "loop"
  /\ UNCHANGED <<out, fired, toContinue, errors, emitted, prompts>>

(* The answer is written to claude before the request is forgotten. *)
Respond(r) ==
  /\ Ready /\ r \in s.pending
  /\ \/ /\ s.proc = "live"
        /\ s' = Changed(Resolve(s, {r}), gen)
        /\ claude' = [claude EXCEPT !.open = @ \ {r}]
     \/ s.proc # "live" /\ Becomes(Changed(s, gen), 0)
  /\ UNCHANGED <<doing, out, gen, nudged, fired, toContinue, errors, emitted, prompts>>

(* thread_done, called by a claude at work. *)
MarkDone ==
  /\ Ready /\ claude.working
  /\ s' = IF s.turnActive THEN [s EXCEPT !.doneAfterTurn = TRUE] ELSE [s EXCEPT !.done = TRUE]
  /\ UNCHANGED <<doing, out, claude, gen, nudged, fired, toContinue, errors, emitted, prompts>>

(* setMode, setModel, a prompt whose attachments are gone: nothing here    *)
(* changes but that the state is pushed.                                   *)
HandleOther ==
  /\ Ready
  /\ Becomes(Changed(s, gen), 0)
  /\ UNCHANGED <<doing, out, gen, nudged, fired, toContinue, errors, emitted, prompts>>

(* Fault: the thread is not looked at again. *)
NudgeIgnored ==
  /\ Ready /\ nudged
  /\ nudged' = FALSE
  /\ UNCHANGED <<s, doing, out, claude, gen, fired, toContinue, errors, emitted, prompts>>

(* The changed that claudeChanged and signedIn queue. *)
Nudge ==
  /\ Ready /\ nudged
  /\ nudged' = FALSE
  /\ Becomes(Changed(s, gen), 0)
  /\ UNCHANGED <<doing, out, gen, fired, toContinue, errors, emitted, prompts>>

(* Fault: the timer belongs to the process. *)
RetryFiresWhileUp ==
  /\ s.alive /\ s.refreshRetry # 0 /\ s.refreshRetry \notin fired /\ s.proc = "live"
  /\ fired' = fired \cup {s.refreshRetry}
  /\ UNCHANGED <<s, doing, out, claude, gen, nudged, toContinue, errors, emitted, prompts>>

RetryFires ==
  /\ s.alive /\ s.refreshRetry # 0 /\ s.refreshRetry \notin fired
  /\ fired' = fired \cup {s.refreshRetry}
  /\ UNCHANGED <<s, doing, out, claude, gen, nudged, toContinue, errors, emitted, prompts>>

(* The retry's function: dropped unless its timer is still the current one. *)
RunRetry(t) ==
  LET x == [s EXCEPT !.refreshRetry = 0]
  IN /\ Ready /\ t \in fired
     /\ fired' = fired \ {t}
     /\ UNCHANGED <<doing, out, toContinue, errors, emitted, prompts>>
     /\ \/ /\ s.refreshRetry # t
           /\ UNCHANGED <<s, claude, gen, nudged>>
        \/ /\ s.refreshRetry = t /\ t \in s.recaps
           /\ Send(x, "recap", FALSE)
        \/ /\ s.refreshRetry = t /\ t \notin s.recaps
           /\ MayStart(x)
           /\ \E y \in EnsureProc(x, gen') :
                \/ y.proc = "none" /\ Becomes(Changed(y, gen'), 0)
                \/ /\ y.proc # "none"
                   /\ Becomes(Changed(BeginTurn(y), gen'), IF y.proc = "live" THEN 1 ELSE 0)

IdleTimeout ==
  /\ Ready /\ s.idle
  /\ LET x == [s EXCEPT !.idle = FALSE]
     IN Becomes(IF s.proc # "none" /\ s.status = "idle" THEN CloseProc(x) ELSE x, 0)
  /\ UNCHANGED <<doing, out, gen, nudged, fired, toContinue, errors, emitted, prompts>>

(* quit: claude is closed, its messages are dropped and the loop returns. *)
Quit ==
  /\ Ready
  /\ Becomes([s EXCEPT !.alive = FALSE, !.proc = "none", !.args = FALSE,
                       !.stopping = s.stopping \/ s.proc # "none"], 0)
  /\ out' = <<>>
  /\ UNCHANGED <<doing, gen, nudged, fired, toContinue, errors, emitted, prompts>>

-----------------------------------------------------------------------------
(* What claude wrote. *)

(* Fault: every message of claude starts a turn. *)
InTurnAgain(x) == BeginTurn(x)

InTurn(x) == IF x.turnActive THEN x ELSE BeginTurn(x)

(* An assistant message that says the sign-in is being renewed elsewhere   *)
(* counts as refused once the retries are used up.                         *)
OnBusy(x) ==
  IF x.refreshRetries < MaxRefreshRetries
  THEN [InTurn(x) EXCEPT !.refreshBusy = TRUE] ELSE [InTurn(x) EXCEPT !.authFailed = TRUE]

OnPermission(x, r) ==
  [InTurn(x) EXCEPT !.pending = @ \cup {r}, !.seen = @ \cup {r}]

ScheduleRefreshRetry(x, recap) ==
  LET t == x.timers + 1
  IN [Changed([x EXCEPT !.refreshRetries = @ + 1], gen) EXCEPT
        !.timers = t, !.refreshRetry = t, !.recaps = IF recap THEN @ \cup {t} ELSE @]

OnResult(x, t) ==
  LET how == IF x.interrupted THEN "interrupted" ELSE IF t = "error" THEN "error" ELSE "completed"
      y == EndTurn([x EXCEPT !.refreshRetries = IF how = "completed" /\ ~Harness THEN 0 ELSE @], how)
  IN IF how = "error" /\ x.refreshBusy /\ ~x.authFailed
     THEN ScheduleRefreshRetry(y, x.recapping) ELSE y

Handled(x, m) ==
  CASE m.t = "output" -> InTurn(x)
    [] m.t = "busy"   -> OnBusy(x)
    [] m.t = "ask"    -> OnPermission(x, m.r)
    [] m.t = "cancel" -> Resolve(x, {m.r})
    [] m.t \in {"ok", "error"} -> OnResult(x, m.t)

(* Fault: the state is not pushed. *)
HandleMessageQuietly ==
  /\ s.alive /\ s.proc # "none" /\ out # <<>>
  /\ out' = Tail(out)
  /\ Becomes(Handled(s, Head(out)), 0)
  /\ UNCHANGED <<doing, gen, nudged, fired, toContinue, errors, emitted, prompts>>

HandleMessage ==
  /\ s.alive /\ s.proc # "none" /\ out # <<>>
  /\ out' = Tail(out)
  /\ Becomes(Changed(Handled(s, Head(out)), gen), 0)
  /\ UNCHANGED <<doing, gen, nudged, fired, toContinue, errors, emitted, prompts>>

(* procMsgs is closed once claude has exited and its messages were read. *)
ProcExits ==
  /\ Ready /\ s.proc = "exited" /\ out = <<>>
  /\ \E failed \in BOOLEAN : Becomes(OnExit(s, failed), 0)
  /\ UNCHANGED <<doing, out, gen, nudged, fired, toContinue, errors, emitted, prompts>>

-----------------------------------------------------------------------------
(* claude itself, as the session sees it: it reads its stdin during a turn *)
(* or starts one with it, reports, asks for permission, may withdraw what  *)
(* it asked, ends its turn, and may exit.                                  *)

Writes(t, r) ==
  /\ s.proc = "live" /\ Len(out) < MaxQueue
  /\ out' = Append(out, [t |-> t, r |-> r])
  /\ UNCHANGED <<s, doing, gen, nudged, fired, toContinue, emitted, prompts>>

ClaudeReads ==
  /\ s.proc = "live" /\ claude.asks > 0
  /\ claude' = [claude EXCEPT !.asks = @ - 1, !.working = TRUE]
  /\ UNCHANGED <<s, doing, out, gen, nudged, fired, toContinue, errors, emitted, prompts>>

ClaudeSays(t) == claude.working /\ Writes(t, None) /\ UNCHANGED <<claude, errors>>

ClaudeAsks(r) ==
  /\ claude.working /\ r \notin s.seen \cup claude.open /\ \A i \in 1 .. Len(out) : out[i].r # r
  /\ claude' = [claude EXCEPT !.open = @ \cup {r}]
  /\ Writes("ask", r) /\ UNCHANGED errors

ClaudeWithdraws(r) ==
  /\ r \in claude.open
  /\ claude' = [claude EXCEPT !.open = @ \ {r}]
  /\ Writes("cancel", r) /\ UNCHANGED errors

(* An interrupted turn ends as an error. *)
ClaudeFinishes(t) ==
  /\ claude.working /\ claude.open = {} /\ (claude.stop => t = "error")
  /\ errors' = IF t = "error" THEN errors + 1 ELSE errors
  /\ errors' <= MaxError
  /\ claude' = [claude EXCEPT !.working = FALSE, !.stop = FALSE]
  /\ Writes(t, None)

ClaudeExits ==
  /\ s.proc = "live"
  /\ Becomes([s EXCEPT !.proc = "exited"], 0)
  /\ UNCHANGED <<doing, out, gen, nudged, fired, toContinue, errors, emitted, prompts>>

(* claude is updated or signed in. *)
NewGeneration ==
  /\ gen < MaxGen
  /\ gen' = gen + 1 /\ nudged' = TRUE
  /\ UNCHANGED <<s, doing, out, claude, fired, toContinue, errors, emitted, prompts>>

-----------------------------------------------------------------------------
Command ==
  \/ \E kind \in {"prompt", "recap", "files"} : SendPrompt(kind)
  \/ \E e \in Event, wake \in BOOLEAN : ProcessEvent(e, wake)
  \/ ContinueTurn \/ Interrupt \/ Restart \/ MarkDone \/ HandleOther
  \/ \E files \in BOOLEAN : Rewind(files)
  \/ \E r \in Request : Respond(r)
  \/ Quit

ClaudeStep ==
  \/ ClaudeReads \/ ClaudeExits
  \/ \E t \in {"output", "busy"} : ClaudeSays(t)
  \/ \E r \in Request : ClaudeAsks(r) \/ ClaudeWithdraws(r)
  \/ \E t \in {"ok", "error"} : ClaudeFinishes(t)

Next ==
  \/ Command \/ ClaudeStep
  \/ HandleMessage \/ ProcExits \/ FinishStop
  \/ RetryFires \/ \E t \in fired : RunRetry(t)
  \/ IdleTimeout \/ Nudge \/ NewGeneration

Spec == Init /\ [][Next]_vars

(* select picks among the ready channels at random, so a ready one is taken *)
(* in the end, also a command that had to wait for restarts in between (the *)
(* cmds channel is a queue); the runtime fires timers. Clients and claude   *)
(* owe nothing.                                                             *)
Fairness ==
  /\ WF_vars(HandleMessage) /\ WF_vars(ProcExits) /\ WF_vars(FinishStop) /\ WF_vars(RetryFires)
  /\ SF_vars(\E t \in fired : RunRetry(t)) /\ SF_vars(Nudge)

FairSpec == Spec /\ Fairness

-----------------------------------------------------------------------------
(* The event log this session writes, as ThreadLog sees it. A request with  *)
(* two outcomes has no counterpart there.                                   *)
Logged(r) ==
  IF r \notin s.seen THEN "unseen"
  ELSE IF s.outcomes[r] = 0 THEN "waiting" ELSE IF s.outcomes[r] = 1 THEN "settled" ELSE "again"

Log == INSTANCE ThreadLog WITH
         open <- s.begun # 0, request <- [r \in Request |-> Logged(r)], alive <- s.alive

(* The session implements the log's contract.                               *)
ImplementsThreadLog == Log!LogSpec

-----------------------------------------------------------------------------
(* Properties. *)

(* The log alternates: no turn is logged as started while one is open, and  *)
(* an open turn always has a process that can still end it.                 *)
TurnsAreLogged ==
  s.alive => /\ s.begun = (IF s.turnActive THEN 1 ELSE 0)
             /\ s.turnActive => s.proc # "none"

(* A permission request clients were shown waits, in a turn, or has exactly *)
(* one logged outcome: answers, withdrawals, the turn's end and claude's    *)
(* exit settle it once between them.                                        *)
RequestsSettleOnce ==
  \A r \in s.seen :
    IF r \in s.pending THEN s.outcomes[r] = 0 /\ (s.alive => s.turnActive)
                       ELSE s.outcomes[r] = 1

(* A retry is only scheduled while no turn runs: whatever starts a turn     *)
(* cancels it, so claude is never told twice to go on.                      *)
RetryBetweenTurns ==
  s.refreshRetry # 0 => ~s.turnActive

(* A process event is held or was written to claude, never both and never   *)
(* neither, whichever way claude or its start fails.                        *)
EventsKept ==
  \A e \in emitted : (e \in s.held) # (e \in s.sent)

(* Whenever the loop waits, the status and what the thread list shows are   *)
(* what the process, the pending requests and the turn say.                 *)
StatusIsTrue ==
  Ready => /\ s.proc # "none" => s.status = StatusOf(s)
           /\ s.running = (s.proc # "none")
           /\ s.idle => s.status = "idle"

(* What ThreadArgs handed out is given back with the process, and a closed  *)
(* session leaves no process.                                               *)
NothingLeftBehind ==
  /\ s.args => s.proc # "none"
  /\ ~s.alive => s.proc = "none"

(* A quiet recap is a turn of its own: the flag never outlives it to hide   *)
(* another turn's work from the thread list.                                *)
RecapIsATurn ==
  s.alive /\ s.recapping => s.turnActive

(* A turn the user stopped is logged as interrupted, however it ends.       *)
InterruptHonoured ==
  [][s.interrupted /\ s.turnActive /\ s'.alive /\ ~s'.turnActive => s'.ended = "interrupted"]_vars

ClosedAsOutdated ==
  /\ s.proc = "live" /\ s'.proc = "exited"
  /\ ~(Restart \/ Interrupt \/ IdleTimeout \/ ClaudeExits \/ \E files \in BOOLEAN : Rewind(files))

(* session.go: an idle process makes way when claude was updated or signed  *)
(* in again. So a process that is closed for no other cause was started     *)
(* before the latest update or sign-in.                                     *)
ClosedForCause ==
  [][ClosedAsOutdated => s.started # gen']_vars

(* A turn whose claude has died ends, though commands keep arriving.        *)
DeadTurnEnds ==
  s.turnActive /\ s.proc = "exited" ~> ~s.turnActive \/ ~s.alive

(* An idle claude older than the latest update or sign-in that was noticed  *)
(* is stopped unless it gets work first.                                    *)
StaleStops ==
  s.proc = "live" /\ s.gen # gen /\ ~s.turnActive
    ~> s.proc # "live" \/ s.gen = gen \/ s.turnActive

(* A scheduled retry comes: the turn it promised starts, something else     *)
(* starts one, or claude cannot be started.                                 *)
RetryComes ==
  s.refreshRetry # 0 ~> s.refreshRetry = 0 \/ ~s.alive
=============================================================================
