# TLA+ models of Everywhere

Everywhere gives a browser the shells, long-running processes and coding agents
of one's own machines. A Go daemon on each machine owns them, a Cloudflare
Durable Object (the hub) introduces browsers and daemons to each other, and the
web app talks to a daemon over WebRTC data channels. This directory holds TLA+
models of the parts of it whose correctness depends on the order in which
things happen, the TLC configurations that check them, and theorems about them
checked by TLAPS. Every definition is a translation of the code; `PROJECT.json`
gives the file and lines of each one.

    tlc -workers 2 -config AgentRequests.cfg MCAgentSession
    tlapm AgentSessionProofs.tla

## The system

| Part | Code | State it keeps | Operations | Talks to | Module |
| --- | --- | --- | --- | --- | --- |
| Terminal manager | `daemon/internal/term/manager.go`, `plugins/termchan` | per thread: shell session, attached clients, writer, PTY size, scrollback | attach, detach, input, resize, takeover, type, kill, the pump goroutine | channels of browsers, the PTY, the thread list | `TermManager` |
| Agent session | `daemon/internal/agent/session.go` | per agent thread: process, turn, pending permission requests, retry timer, idle timer, held events | prompt, process event, interrupt, restart, rewind, respond, continue, claude's messages and exit | claude (stdin/stdout), clients, event log in the store | `AgentSession`, `ThreadLog` |
| Agent manager | `daemon/internal/agent/manager.go`, `auth.go`, `update.go` | map of sessions, claude's build, sign-in generation | session lookup, kill, mark for continuation, shutdown, update, sign-in | every session's command channel, the store | `AgentManager` |
| Thread view | `apps/web/src/lib/agent.ts` | a tab's copy of a thread's log | attach, replay, live events, history, rewind | the session's channel | `AgentThread` |
| Process manager | `daemon/internal/process/manager.go` | per process: run state, ready flag, clients, waiters, rows in the store | start, replace, stop, remove, report, wait, stop a thread's, shutdown | agent sessions (process events), PTYs, store | `ProcessManager` |
| Hub (account Durable Object) | `apps/worker/src/hub.ts`, `apps/web/src/lib/hub.ts` | sockets of browsers and daemons, presence, pending RPCs | relay signals, RPC, presence, silent-device sweep, session revocation | browsers, daemons, D1 | `AccountHub` |
| Worker plugins | `apps/worker/src/plugins/claude.ts`, `plugin-settings.ts` | the account's Claude token, plugins' settings | set, forget, save, give to a daemon | hub, daemons | `HubPlugins` |
| Device peers | `apps/web/src/lib/peer.ts`, `daemon/internal/peer` | peer connections by session id, pending ICE candidates, RPCs in flight | offer, answer, candidate, replace, close, control RPC | hub, plugins' channels | `DevicePeer` |
| Assistant | `apps/worker/src/assistant.ts`, `apps/web/src/lib/assistant/sync.ts`, `runner.ts` | conversation entries, runner lease | append, claim, release, clear, steer, sync | browsers' tabs | `Assistant` |
| Assistant voice | `apps/web/src/lib/assistant/voice.ts`, `voice-live.ts`, `live-bridge.ts` | microphones, sockets, a spoken conversation's timeline | start, stop, hear of another tab; transcripts, hand-offs | GPT-Live, the runner, other tabs | `Voice`, `LiveBridge` |
| Dictation | `apps/web/src/lib/dictation.ts` | a recorder, its chunks and a socket | start, stop, cancel, leave | the Worker's speech route | `Dictation` |
| Sign-in and enrollment | `apps/worker/src/routes/auth.ts`, `totp.ts`, `index.ts` | users, second factor, challenges, install links in D1 | HTTP handlers | D1 | `Accounts` |
| Tunnels to ports | `apps/desktop/src/proxy.ts`, `main.ts`, `apps/web/src/lib/desktop-tunnels.ts`, `daemon/internal/plugins/tunnel` | a connection at each of four places: the shell's proxy, the app's page, the channel, the daemon | open, dial, write, pause, close, reload | the proxy's clients, peers, the device's ports | `Tunnel` |
| Hub client | `daemon/internal/hub/client.go` | one websocket | reconnect with backoff, send | hub | seen from the hub in `AccountHub` |
| Plugin host | `daemon/internal/plugin` | registered, enabled and external plugins, event bus | register, install, call, publish | every plugin | |
| Remote desktop | `daemon/internal/desktop/manager.go`, `plugins/desktop`, `plugin/sessions.go`, `apps/web`'s `rtc-session.ts`, `desktop-view.tsx` | rtc sessions by id, the one desktop session, each view's attempt | open, take over, close, peer closed, session ended | peers, a connection of its own for media | `DesktopSession` |
| Remote input | `apps/web/src/lib/desktop/input.ts`, `trackpad.ts`, `daemon/internal/desktop/control.go`, `session.go` | keys held on each side, pointer mode, pointer lock, buttons | keys, focus, release all, replay; modes, lock, buttons, touches | the browser, the capture's virtual devices | `RemoteKeys`, `RemotePointer` |
| Screen capture, browser, telemetry, dashboards, MCP, git, files, update, service, config | `daemon/internal/...` | their own | their own | the OS | |
| Web app, desktop shell | `apps/web`, `apps/desktop` | views | presentation | the daemon through peers | |

### What is hard, and what makes each part correct

* **Terminals.** Two locks: the map's and the session's. Attach, detach, input,
  takeover and the pump goroutine each let go of one before they take the other,
  and a channel is served by two goroutines. Correct when a thread has one live
  shell, whoever watches it is not left without a writer among them, a view that has
  heard all it was sent is right about whether it writes, the PTY has the writer's
  size, and everybody hears that the shell has ended.
* **Agent sessions.** One goroutine selects among commands, claude's output,
  claude's end, a timer and quit, in no particular order, while claude acts on
  its own. What the session believes of claude is always a little old. Correct
  when turns are logged one at a time and every one ends, each permission
  request gets one outcome, no process event is lost or told twice, an interrupt
  is honoured whatever claude does, the status shown is the true one, and an idle
  process is replaced for a reason.
* **Session map.** Kill forgets a session before it has stopped, a daemon update
  marks turns to continue before it stops them. Correct when no session is left
  that nobody will stop, none is stopped twice, and a turn is continued at most
  once for each time it was marked.
* **Thread view.** The copy outlives the channels that feed it, replays overlap
  what it has, the daemon cuts long replays short and rewinds roll events back.
  Correct when what is shown is the log, in order, without holes or repeats.
* **Processes.** A name may be started, replaced, stopped and exit at once, and
  rows are saved outside the lock. Correct when a name has one live process, the
  stored row is that of the last one, and every waiter is let go.
* **Hub.** Sockets are replaced, go silent, close late; handlers wait for the
  database in their middle. Correct when presence is the truth for every tab,
  a request waits only for a device that can answer, a daemon that is silent
  goes offline, and a revoked session opens no connection.
* **Worker plugins.** A value is sealed and opened across awaits while daemons
  connect. Correct when what a connected daemon was given is what is stored.
* **Peers.** Every step of a negotiation can be lost, and each is awaited by a
  timer or an event. Correct when a peer that is connecting always has something
  that moves it on, and nothing waits for a connection that is gone.
* **Assistant.** One tab runs the conversation, by a lease tied to its socket.
  Correct when no copy of the log has a hole, a prompt does not vanish, and
  what was cleared stays cleared.
* **Voice.** Turning a microphone on takes several awaits and off takes none; in
  a spoken conversation transcripts come late. Correct when one microphone of
  the account is on, and what was said goes to the agent or the chat, once.
* **Dictation.** The recorder, the socket and the buttons each have their own
  time. Correct when the chunks arrive in order from the first, the text is given
  once, and the microphone is let go.
* **Remote desktop.** An rtc session, the desktop session it started and the view
  are ended from three sides, each after the fact. Correct when one desktop session
  runs, the manager knows it, and it ends when its own view leaves and not when
  another's does.
* **Remote input.** The browser tells of keys, focus and the pointer lock in its own
  time, and the keyboard on the host goes with each capture. Correct when the host
  holds the keys and the button that the viewer holds and no others, and a mouse
  that the viewer has freed is taken again only by a click.
* **Tunnels.** A connection is opened and let go of by steps in four processes,
  each of which may still be waiting for the last when the next comes. Correct
  when a connection that one end has let go of is held by nobody in the end, and a
  write is held back only while something is on its way to let it go on.
* **Sign-in.** Handlers interleave at every database statement. Correct when no
  code, challenge or link is used twice.

`PROJECT.json` lists the hazards, line by line, with the property that covers
each or the reason why none does.

## The modules

### TermManager

One thread's shell sessions and its terminal channels. A session is a number;
`current` is the map's entry, `phase` is how far the session's pump goroutine
has come (`running`, `exited` when the read loop has ended, `unmapped` once it
has deleted the map entry, `ended` once it has taken the clients). An action is
one critical section, so an operation that takes both locks is several actions
with the handler's progress in `handler[c]` or `detacher[c]`:

| Code | Actions |
| --- | --- |
| `Attach` (from termchan's `attach` message) | `HandleAttach`, `GetOrSpawn` or `SpawnFails`, `Join` |
| `Takeover` | `HandleTakeover`, `TakeOver` |
| `Resize` | `HandleResize`, `Resize` |
| `Input` | `HandleInput`, `CheckWriter`, `WriteKeys` (the write is after the unlock) |
| `Detach` (goroutine waiting for the channel's context) | `StartDetach`, `FindSession`, `Leave` |
| `Type` | `TypeSpawns` |
| `pump` and the shell | `ShellExits`, `Unmap`, `ClearClients`, `TellExit` |
| `Client.Writer`, `Client.Exited` | `Tell`: a message on each client's own channel (`news`), put there under the lock |
| terminal-view.tsx | `Hear`, one message at a time (a view that learns that it writes sends its size), `PressTakeover`, `PressKey`, `CloseChannel` |

Roles are asynchronous: `news[c]` is what the view believes (`Told`), then the
beliefs that the messages on their way will give it, `Said` the last of them. So
two views can both believe that they write for a while, and a demoted one may
still press keys, which `CheckWriter` refuses.

A channel is used once: a view that attaches again opens another, so a reused
client is another member of `Client`. `CloseChannel` may leave one message that
the read loop already holds; it is how a detached client comes to take over
(see "Where the code differs"). Threads share nothing but the map's lock, so one
is modelled. Not modelled: scrollback and output bytes, the touch timestamp, a
full send buffer's close (it is `CloseChannel`). `Kill` and `Shutdown` signal
the shell, which here may exit at any time.

### AgentSession

One session's goroutine and its claude. The record `s` holds the fields of the
`session` struct together with what the session logged and stored, as history:
`begun` counts turns logged as started since one was logged as ended,
`outcomes` counts logged outcomes per request, `sent` holds the events written
to claude, `started` the generation claude was launched under. The code's
methods are functions from record to record with the code's names (`BeginTurn`,
`EndTurn`, `OnExit`, `Changed`, ...), and an action is one turn of the loop: the
composition of them that its command, message or timer runs. `EnsureProc` gives
the set of its outcomes. `restart` and `rewind` wait inside the command until
they have read claude's remaining messages, so they are two actions with
`doing` between them, in which only claude's messages are handled.

| Code | Actions |
| --- | --- |
| `run` | `HandleMessage`, `ProcExits`, `IdleTimeout`, `Quit` |
| `handle`, `send` | `SendPrompt` (a prompt, a recap, one whose files cannot be read) |
| `processEvent`, `continueTurn` | `ProcessEvent`, `ContinueTurn` |
| `interrupt`, `respond`, `restart`, `rewind`, `stopProc` | `Interrupt`, `Respond`, `Restart`, `Rewind`, `FinishStop` |
| `scheduleRefreshRetry` | `ScheduleRefreshRetry`, `RetryFires` (the runtime), `RunRetry` (the queued function) |
| `handleMessage` and what it calls | `Handled`: `InTurn`, `OnBusy`, `OnPermission`, `Resolve`, `OnResult` |
| `Manager.MarkDone`, `claudeChanged`, `signedIn` | `MarkDone`, `NewGeneration`, `Nudge` |
| claude (external) | `ClaudeReads`, `ClaudeSays`, `ClaudeAsks`, `ClaudeWithdraws`, `ClaudeFinishes`, `ClaudeExits` |

claude is what the session can see of it through `daemon/internal/claude`: it
reads its stdin (and starts a turn if it is in none), writes messages while it
works, asks for permission and may withdraw what it asked, ends its turn, and
may exit. `Harness` says whether the thread is another agent's, whose process is
started by `startAgent`.

Abstractions: claude's build and the sign-in are one generation, since the code
treats both alike; messages that only push the state (system, rate limit,
suggestion) are `HandleOther`; a stream event that does not push pushes
here; a result that says the context is full always counts as an error of its
own; titles, attachments, worktree, context and cost figures, the text of
events, and a message that cannot be decoded are left out; a rewind takes
events off the stored log, while the history variable `emitted` keeps what was ever said. A
session that is gone has the process `"none"`.

### ThreadLog

What the log of a thread promises whoever reads it: turns one at a time, a
request asked within a turn, settled once, and not outliving its turn. It says
nothing of processes, timers or commands. AgentSession implements it with
`open <- s.begun # 0` and a request's state read off `seen` and `outcomes`
(`ImplementsThreadLog`).

### AgentManager

The map from one thread to its session, over several lives of the daemon.
`entry` is the map's entry, `sess` the sessions by number (a session runs, has
been asked to quit, is gone; it has claude or not, in a turn or not), `request`
the goroutines that serve the thread's requests, `row` what the store knows.

| Code | Actions |
| --- | --- |
| `session` | `Found`, inside `Prompt` and `FindMarked` |
| `Handle`, `do` | `Prompt`, `RunPrompt` |
| `threads.archive`, `deleteThread`, then `Kill` and `stop` | `Archive`, `Delete`, `Kill`, `Stop` |
| a session's goroutine | `SessionStep` |
| `applyUpdate`, `MarkForContinuation` | `UpdateDaemon`, `MarkTurn` |
| `Shutdown`, the end of the process or its crash, the next one | `Shutdown`, `StopTaken`, `DaemonEnds`, `DaemonStarts` |
| `ContinueMarked` | `ListMarked`, `ClearMark`, `FindMarked`, `Continue` |

What a session does with a command is `AgentSession`'s; here it is only whether
claude runs and is in a turn. Threads share only the map's lock, so one is
modelled. The dialogue of a sign-in (`auth.go`), the probes of versions,
worktrees and attachments are left out.

### AgentThread

A tab's `AgentThreadStore`, its channel both ways (`toThread`, `toView`), and as
much of the daemon as answers it: the log, `attach` with its cap, `history`.
`ConnectThread`, `ThreadOpens`, `ThreadCloses` and `DisconnectThread` are the
channel's life, `ViewReads` the `onMessage` of one message (`OnEvent`,
`OnSynced`, `OnHistory`), `LoadEarlier` the scroll. `Emit` and `RewindTo` log.
A page of the log (`Newest`) and what a rewind leaves of a copy (`Kept`) are given by
the numbers in order (`InOrder`, `Where`), not by sorting and filtering, for the proofs' sake.

### ProcessManager

The runs of one process name of one thread. `Caller` are goroutines that make
one call each; `call[a].st` says where between two locks or database writes a
call is. `run[p].pump` is how far the goroutine of a run has come: it ends, saves
the row, unlists itself, and wakes who waits (`FinishEnds`, `FinishSaves`,
`FinishUnlists`). Start is `StartNamed` (startMu, and the stop of the run it
replaces) to `StartRegisters`; Stop and Remove are `StopById`, `SignalsProcess`,
`StopReturns`, `RemoveDeletes`; a tracker (a progress bar with no process) is
reported on by `ReportNamed`, `ReportApplies`, `SaveTakes`, `SaveWrites`, and
ended by `EndsTracker`. `WaitLooks`, `WaitWakes` and `WaitTimesOut` are Wait.
Left out: output and log bytes, viewers, notices to the model, pruning,
telemetry, a restart of the daemon but for an open tracker's row. Shutdown stops
its runs one after another where the code stops them at once.

### AccountHub

The Durable Object of one account, the `Hub` of each tab, and as much of a
daemon's client as the hub can see: it holds a socket, pings, answers, sleeps
(`Nap`) and drops. The object runs one handler at a time but another at each
await of the database, so `fetch` of a daemon is `AcceptDevice` and `Accepted`,
an `offer` is `ReadSession` and `SessionChecked`, and the sweep of silent
daemons is `SweepStarts`, `SweepCloses`, `SweepDone`. A socket that the object
has closed is `closing` until its own `webSocketClose` runs (`SocketGone`).
Not modelled: the `active` flag, push, the messages of plugins, an upgrade that
the network refuses, what a daemon's peers do with a signal.

### HubPlugins

The token and the settings that the same object keeps. Its storage is atomic;
sealing and opening a value are awaits, so setting is `SetToken`, `StoreToken`,
saving `SaveReads`, `SaveStores`, and a daemon's hello `DaemonHello`,
`HelloSends`. Only daemons heard of in the last 60 seconds are given anything
(`Reached`): one can go silent with its socket open and ping again before the sweep
(`GoesSilent`, `HeardAgain`). `given` keeps the last value of each kind that a daemon
was sent, and `behind` for which kinds that is known to be an old one.

### Accounts

The Worker's handlers for signup, login, the second factor and enrollment,
over a database whose statements are atomic: one action per statement,
`req[r].st` between them. Codes are records (which secret, which time step);
`era` counts how often the factor was turned on or off. Left out: password
change, the list of sessions, revoking one (`AccountHub` has that).

### DevicePeer

A tab's `DevicePeer`, the hub as the tab sees it, signals on their way both
ways, and the daemon's `HandleSignal`. Negotiations are numbered by `sid`.
`IceReady` and `OfferReady` are what follows negotiate's awaits; `ReadSignal` and
`RemoteSet` its answer; `ConnectTimeout` and `ReconnectFires` the timers;
`OnHubChange` is part of whatever changes the hub (`HubOpens`, `HubDrops`,
`Presence`). `Drop` is the network or the daemon losing the connection.

### Dictation

Each call of `start` has its stream, recorder, socket and timers
(`dictation[a]`); `currentCall` is `session.current`, which a later call may
overwrite. `ChunkHandedOver` and `OnStop` are the recorder's events, `SpeechOpens`,
`SpeechHeard` and `SpeechCloses` the socket's, `RecordingEnds` and
`FinishTimeout` the timers.

### Tunnel

One connection, followed from the shell's `TunnelStream` (`Open`, `Write`,
`Destroy`, `ShellReads`) over the app's page (`PageReads`, `PeerConnected`,
`ChannelOpens`, `PageHears`, `LowFires`) to the daemon's `serve` (`DaemonHears`,
the dial's goroutine in `Dialed` and `PumpEnds`, the one that waits for the
channel's context in `WatchEnds`). Between them are four queues: Electron's
messages each way and the channel each way, whose `fin` is its end. `LineLost`
and `AppReloads` are what may happen to them. Bytes from the port only fill
queues and are left out, as is the proxy protocol in front of the stream;
`serve`'s `pending` stays empty, since this shell writes nothing before it hears
`open`.

### DesktopSession

A number names an attempt of a view (one run of `desktop-view.tsx`'s effect), its
rtc session and its desktop session. `Show`, `Hide`, `Answered` and `CallFails` are
the view, with the effect's cleanup in `CleanedUp`; `Reads` is the control
channel's handler, which answers in order but for `rtc.open`, whose goroutine goes
through `Registers`, `Starts` and `Stores`. `Closes` is the part of `session.close`
and the plugin's `Closed` up to the manager's lock, `Stops` the rest. `Dies` is the
media connection or the capture failing, at any time; `Unlists` its `sessionEnded`.
Left out: what a view is told of the end (it may reconnect in either case), the
daemon's shutdown, `Single` sessions (the desktop's are not), and older apps'
`desktop.start`.

### RemoteKeys

Three keys: a letter, a group of modifiers with which it is a local shortcut, and
Super (Command on a Mac). `Presses` and `Releases` are `onKey`, `LosesFocus`,
`GetsFocus` and `LetsAllGo` what calls `releaseAll`; `wire` is the control channel.
On the host `hand` holds the controller's lock: `Applies` is `apply` up to its
write, `Replays` is `replayHeld`'s, and `Writes` reaches the keyboard only if the
capture that was looked up is still there. `RestartsMedia` replaces the capture
with the session locked, `StopsMedia` and `RecoversMedia` are `recoverMedia`, which
waits with it unlocked. Left out: `Text`, the substitute for Super, key codes.

### RemotePointer

The page's pointer mode, the pointer lock and the host's left button. `Answers`,
`Unlocks` and `LockChanged` are the browser's lock and its event, which comes
later; `asks` are locks that are wanted, `exiting` one that is being given up. `MouseDown` and
`MouseUp` are `onButton`, `FingerDown`, `HoldFires`, `FingerUp`, `Cancelled` a
touch, directly or on the trackpad. What the page sends is taken to arrive at
once, in order. Left out: positions, scrolling, zoom, other buttons.

### Assistant

The Durable Object (`db`, the sockets it has open), and each tab's
`AssistantSync` and `AssistantRunner`; a connection is a pair of tab and number,
and what has been sent on it waits in `toServer` and `toTab`. The tab's promises
(`claim`, `append`, `clear`) have an answer or a timeout; `run` is `StartTurn`,
appends, `TurnEnds` or `TurnThrows`, `Saved`, `Folded`, `Finish`. Whether `gone`
finds the runner's socket OPEN is the platform's choice, so a nondeterministic
one. Left out: frames, the history's limits, the OpenAI key, `revokeSessions`,
who asked, live text, tools.

### Voice and LiveBridge

`Voice` is the microphone in each tab of an account: a start is at one of its
awaits (`check`, `mic`, `worklet`, `connect`), a stop awaits nothing, a voice
that comes on tells the others (`HearElsewhere`). Tabs are always connected;
what is heard or spoken is left out. `LiveBridge` is a spoken conversation's
timeline with a clock: transcripts of either side come late (`HearYou`,
`HearIt`), a hand-off waits until the words it is for have settled (`HandOff`,
`SettleTimer`), and what was answered without one goes to the chat
(`AnswerTimer`). Left out: its cap of 200 pieces, the reset of the timeline when
the session starts, and what GPT-Live is told.

### The MC modules

`MCTermManager` adds the symmetry set of channels, `MCAgentSession` and
`MCAgentLive` instantiate the session. The others check several modules in one run:
`MCDevices` (AccountHub, HubPlugins, AgentThread, AgentManager, Tunnel), `MCDesktop`
(DesktopSession, RemoteKeys, RemotePointer), `MCRequests` (AccountHub, Accounts,
ProcessManager), `MCTab` (DevicePeer, Dictation, AccountHub) and `MCAssistant`
(Assistant, Voice, LiveBridge). The modules of such a union share no variable, and a variable
`part`, chosen at the start, says which of them runs. Since a property speaks of
one module's variables, whatever violates it in an interleaving of several
violates it with the others' steps left out: letting one run loses nothing.
`part` in `MCAgentLive` is different: it chooses which of two bounds a
behaviour of the one module explores.

## What TLC checks

| Run | Question | Properties |
| --- | --- | --- |
| `term_safety` | who writes, who is told, and at what size, with three channels on a shell | `RoleAgreement` `HeadedSession` `SizeFollowsWriter` |
| `term_shells` | one shell ends and the next starts under two channels and Type; who hears of the end | `OneShell` `ExitReachesClients` |
| `agent_requests` | permission requests, interrupts, turns refused because the sign-in is being renewed, recaps, and the log | `RequestsSettleOnce` `StatusIsTrue` `TurnsAreLogged` `InterruptHonoured` `ImplementsThreadLog` |
| `agent_events` | process events against a claude that fails, exits and is updated | `EventsKept` `NothingLeftBehind` `ClosedForCause` |
| `agent_live` | does a dead claude's turn end, does a retry come, is an outdated idle claude replaced | `DeadTurnEnds` `RetryComes` `StaleStops` |
| `assistant_log` | two tabs over one conversation; a spoken one's hand-offs; the microphones | `CopyIsTheLog` `PromptsAccounted` `WordsGoOnce` `MicsSettle` |
| `devices` | presence and requests over replaced and silent sockets; what a daemon was given; a tab's copy of a log; a thread's sessions over updates and crashes; a tab's connection to a port | `HubKnowsWhoIsHere` `StoredWasSent` `ViewIsTheLog` `SessionsAreStopped` `ContinuedOnce` `HoldsEnd` |
| `desktop` | two views of a desktop; the keys of one over captures that come and go; its button and the pointer lock | `DesktopIsTheirs` `KeysAgree` `ButtonIsHeld` `AutoWaits` |
| `requests` | three requests at once over the account's rows; a session revoked while its offer waits; three goroutines on one process name | `NothingUsedTwice` `SignedOutStaysOut` `OneListed` `NoMissedWake` |
| `tab_live` | does a negotiation always move on and end, whatever is lost; a dictation's chunks and microphone; does a silent daemon go offline for a tab, does the hub know what a tab shows | `NeverStuck` `ConnectingEnds` `ChunksInOrder` `RecordingIsBounded` `SilentGoesOffline` `ViewingIsTrue` |

Each of these passes. Every property has a mutant, an operator that precedes
the one it stands in for and is marked `Fault:`, with which TLC finds it
violated.

Two more runs each show the code to differ from one sentence of its
documentation (`findings` in `PROJECT.json` quotes them):

| Run | What happens |
| --- | --- |
| `process_removed` (`RemovedIsForgotten`) | finish closes `done`, which lets Remove's stop return, before it saves the row of the process, and the row that Remove deleted is written again |
| `voice_moved` (`OneMic`) | a voice told to stop while its microphone is being opened comes on all the same |

### Where the code differs, or surprises

Seen while modelling, in the models' behaviours or in the code; the properties
are stated so that they hold with these, and several name them as exceptions.
Those with a reference to `SPEC.md` or a comment differ from what it says.

Terminals:

* A takeover handled after its channel was detached leaves a writer that is gone
  and viewers nobody promotes (manager.go:174, termchan.go:125; SPEC.md:197). So does
  one meant for the shell before, and an attach that joins after its channel was
  detached (manager.go:97). `HeadedSession` exempts a writer that came so (`late`).
* A client that joins after pump has taken the client list never hears `exited`
  (manager.go:97, 301; SPEC.md:199).
* Keys that passed `Input`'s writer check (manager.go:141) are written after
  another client has taken over. `CheckWriter` and `WriteKeys` are two actions
  for this reason.

Agent sessions and their manager:

* Another agent's process never notes build and sign-in, and is closed when
  idle as if outdated (session.go:1610, 1803).
* A prompt between the stop of an idle claude and the notice of its end goes to
  the process that is gone (session.go:445; SPEC.md:278).
* thread_done after a prompt has joined the turn marks the thread done
  (agent/manager.go:243, session.go:102; SPEC.md:1031).
* A recap's retry that cannot start claude leaves clients at `starting`
  (session.go:1405; SPEC.md:309).
* The idle timer and `changed` (session.go:226, 1613) can stop a claude that has
  read, or is about to read, a message that starts a turn the session has not
  heard of: `IdleTimeout` with `claude.asks > 0`.
* An event that should wake claude (session.go:396) is only held when the
  process has exited and the loop has not read that; nothing wakes claude for it
  later. `EventsKept` says that it is not lost.
* The sign-in is read after claude has started (session.go:501), so one that
  lands in between is noted for a process launched without it.
* Kill forgets a session before it has stopped (agent/manager.go:323): an attach
  in between makes a second claude on the same conversation. Archive in one tab
  and delete in another: the delete finds no session, and removes the worktree
  while the archived one's claude still exits.
* Only claude's threads are continued (store.go:708), but another agent's marked
  thread is told "this turn continues when it's back" (SPEC.md:331).
* A turn that ended, or a thread that was archived, after it was marked is
  continued all the same. `session` does not look at `closed`, so a request
  after Shutdown took the map starts a session (`Serves` holds while stopping).
* Two sign-ins that overlap leave one uncancelled until its 15 minutes are over
  (auth.go:199), and a late failure of an old claude after a sign-in sets
  `authProblem` again (auth.go:159).

Threads and processes:

* A first replay that is cut short by a reconnect loses `truncated` (agent.ts:21),
  and a replay over the daemon's cap that is cut short leaves a hole (`torn`).
* Removing an open tracker only saves it and leaves it live; a report whose save
  was taken before the tracker ended may write it back as open; a tracker that is
  loaded between another's save and registration is an orphan.
* A Remove that races a Start deletes the new run's row; a Start between its
  check of `closed` and its registration escapes Shutdown (process/manager.go:417).
* A name can come to have two processes. A report on a tracker takes its row to
  save while Remove deletes that (manager.go:383, 1266); the save makes it again,
  marked as running. A later report loads the tracker it describes, beside the
  process that a Start has made since, and the next replacing Start finds the tracker by
  that name (manager.go:848), stops it, and starts a second process beside the
  first. "one Start at a time, so names stay unique" (manager.go:120) is not enough
  here. `OneListed` excuses what a Start overlooks in this way (`Overlooks`); it
  takes five calls and five runs.
* `Wait` may time out while finish is between its steps, and answer that the run
  goes on (SPEC.md:425).

Hub and account:

* A daemon silent for over 60 seconds that pings again before the sweep is live,
  but tabs that connected meanwhile are not told; requests on a socket that was
  replaced wait for their timeout; a fetch whose `touchDevice` fails leaves no alarm.
* A daemon that is silent when the token or a setting changes is not given it
  (hub.ts:282, 353), nor when it pings again; it has the old one until it
  reconnects or the next change. "the rest get it when they next connect"
  (claude.ts:29) holds of those that are not connected only.
* A hello that read the token before it changed sends the old one after the new
  (claude.ts:28, 78). `StoredWasSent` exempts this and the silent daemon (`behind`).
* A daemon that was away while all of a plugin's settings were cleared is not told as
  it connects: only what is stored is sent (plugin-settings.ts:78).
* Of two saves at once one is lost (plugin-settings.ts:60, 88): the second stores, and
  gives, what it read before the first. `StoredWasSent` says nothing of that.
* `2fa/enable` copies whichever `totp_pending` is there then; recovery codes may
  outlive a `disable` that ran beside their making; a login with the old password
  beside a change of it keeps its session.

Tunnels:

* While anything in the app's window loads, the shell drops what it has for the
  page (main.ts:157), and a frame in the page (a dashboard's or a plugin's,
  dashboard-view.tsx:194, plugins/external.tsx:304) is such a thing: a hole in the
  bytes of a connection, or a close that the page and the daemon never hear of.
  `HoldsEnd` exempts it (`dropped`).
* A channel that is lost after the port was open is told to the tab as the
  port's own, clean end (desktop-tunnels.ts:86), so a response that was cut
  short looks complete.

Remote desktop:

* A connection lost between the start of a desktop session and `Open`'s note of its
  id (desktop.go:94), or before `rtc.open` registers (sessions.go:105), leaves a
  session that nothing but its own connection ends; so does a call that timed out
  after 30 seconds. `DesktopIsTheirs` speaks of views that were answered.
* "the old viewer is told who" (SPEC.md:936) only if its control channel is open
  (session.go:740). One that is still connecting sees its connection fail instead,
  reconnects after two seconds (desktop-view.tsx:349) and takes the desktop back.
* A start that fails after it has taken over (manager.go:166, 177) has ended the
  other's session all the same.
* A key that comes up, or a release of all, while the capture is being recovered is
  dropped before `held` is updated (control.go:118), and `replayHeld` presses the key
  on the next capture though "held is the keys the viewer holds down"
  (control.go:39; SPEC.md:962). Super let go while a window is streamed likewise
  (control.go:156). `KeysAgree` exempts these keys (`missed`)
  from page and host agreeing; that the host has down what `held` says holds for them too.
* A letter let go with Ctrl, Alt and Shift down is taken for the shortcut's and stays
  down on the host (input.ts:292; `swallowed`).
* A trackpad that is turned on under a finger that pressed directly, or off and on in
  a drag, leaves the host's button down (trackpad.ts:89; `unheard`); so does a click
  in auto whose lock the browser denies and whose release is outside the picture,
  which has not captured the pointer (input.ts:250).
* A lock asked for by a click is taken when fullscreen comes, though the mouse may no
  longer be relative by then (input.ts:149).
* A move that was sent before motion and arrives after it (control.go:135) makes the
  next press of a captured mouse jump; positions are not modelled.
* Two `rtc.open` at once of a kind that allows one session (sessions.go:89) both
  stay.

Assistant, voice and dictation:

* `claim` is true at once while `isRunner` still holds after a release was sent;
  a tab that lost its connection goes on with its turn while another claims.
* A tab that has read a broadcast but not yet its replay when its connection drops
  asks the next one only for what follows the broadcast (sync.ts:211): what came
  before it never comes, and the model works from a log with a hole. `NothingMissing`
  excuses tabs to which that has happened (`torn`). And one whose first replay
  comes after a broadcast has no "earlier" to load (`known.size === 0`, sync.ts:291).
* A prompt that arrives while a turn is saved or compacted, or after a claim was
  refused, stays in the agent's queue; one that is steered to a runner whose
  socket is dead but OPEN is lost (`lost`). After `onclose`, `live` stays.
* An utterance that GPT-Live talked over, or the first of two it answers at once,
  goes neither to the agent nor to the log (SPEC.md:767); closing while a hand-off
  settles drops it.
* Of two starts of a voice that overlap, one's microphone stream or socket is
  never let go; an announcement while disconnected is not made.
* Leaving, or a second click, while the microphone's permission is pending opens
  a recording that nobody stops for up to five minutes (dictation.ts:150); "stop"
  may be sent before the last chunk if the socket opens late; the end of one
  session sets `session.current` of another to null.

### Bounds

Every bound is a constant in the guards of the actions it limits; none is a
state constraint.

* `TermSafety.cfg`: three channels give a writer, an heir and a bystander that
  joins or leaves; one shell; `MaxPress` bounds the takeovers and keystrokes of
  all views together, and two let one takeover be taken over. `TermShells.cfg`: two
  channels, two shells, since the change of shells matters, and no presses, since
  its properties do not depend on who types. `news` needs no bound: a view is sent
  a message for each join, takeover, promotion and end, all of which are bounded.
* Agent sessions. `Request` two, one of which can be answered while the other
  waits. `Event` two, one held while the other wakes. `MaxPrompt` one, which joins
  or follows the turn that a continuation or an event has started. `MaxGen` one
  update or sign-in; the initial generation is arbitrary. `MaxError` one turn
  refused and retried. `MaxRefreshRetries` 1 where the code has three, which
  reaches both sides of the limit. `MaxQueue` unread messages of claude, two in
  `AgentRequests.cfg` where the order of two matters, else one. Requests and events share no code
  but the turn, so the runs split these bounds; the theorems cover the same
  invariants for all bounds at once.
* `AssistantLog.cfg`: two tabs, two prompts (one may join the other's turn), three
  entries (one before, one within and one after a compaction or clear), two
  connections (one is lost), one clear, one fault. Voice: two tabs with either
  engine, two starts of each, so that one start overlaps another. LiveBridge: a
  clock of four moments, where gap, own answer and slack are one step and the
  longest wait two; two utterances of each side and a hand-off that may meet either
  (`BridgeWordsGoOnce` is proved for any number).
* `Devices.cfg`: a daemon whose socket is replaced once (`MaxConn` 2), one tab, one
  request, one nap. Two tokens and two saves of one setting, and a daemon that
  connects twice. Six events, pages of one and two, a replay cap of two, and three
  channels, so that a replay is over the cap and cut short by a reconnect, and
  the next one too. Two goroutines on a thread, two sessions in a life of the
  daemon, and three lives: the second may crash while it continues what the
  first marked, and the third must then not continue it again.
  A connection of three chunks, with the water marks at one, so that it is
  held and let go on and held again, and one reload or one frame that loads.
* `Desktop.cfg`: two attempts at the desktop, of one view or of two, and two
  connections of each tab, so that one is lost under either. Two messages on the
  wire, so that a key-up follows its key-down past a replaced capture, and two
  replays that are late. The pointer needs no bound.
* `Requests.cfg`: three requests at once (two that race, and one whose effect they
  read), two later time steps, one attempt allowed at a challenge. A tab that
  connects twice and is signed out, and a daemon. Three goroutines and three
  runs of a name: one runs, one replaces it, one comes to replace that.
* `TabLive.cfg`: three negotiations, two faults (each may end one), one call.
  Two recordings that overlap, of two chunks. One daemon, one tab that connects
  twice to the hub, one nap.

All configurations set `CHECK_DEADLOCK FALSE`: with the bounds used up, or a
session that has quit, a connection that is closed for good, nothing is left to do.

### Fairness

`TermManager!FairSpec`: a pump goroutine that can run does, and a message on a data
channel, which is reliable and ordered, arrives (`Hear`) unless the channel
closes. The channels' goroutines, views and shells owe nothing.

`AgentSession!FairSpec`: the goroutine's loop takes ready work: weak fairness of
`HandleMessage`, `ProcExits`, `FinishStop` and of the runtime's `RetryFires`.
`RunRetry` and `Nudge` are strongly fair: they are functions queued on `cmds`,
which is a queue, and Go's select picks among ready channels at random, so a
queued function that has to wait while restarts run in between (they disable
it) runs in the end. Clients, claude, the idle timer and updates owe nothing,
and no property needs them to do anything.

`AccountHub!HubFairSpec`: the platform runs a due alarm and the close handler of a
socket it closed, ends each wait for the database, and delivers what was sent on
a socket that is up; a socket that its daemon no longer holds is not pinged for
ever. Daemons that are held owe nothing: they may stay silent, which is what
`SilentGoesOffline` is about.

`DevicePeer!Fairness`: timers fire, the browser's promises settle, the hub's
socket reconnects and brings its presence. The network and the daemon owe nothing.
`Dictation!DictFairness`: timers fire and the recorder hands over what it
recorded; the permission, the socket and the Worker owe nothing. In
`MCTab` a behaviour of another part starts with the presence known, so that
nothing that is fair for the peer can happen in it.

## What is proved

For every value of the constants, from the assumptions named in the modules
(bounds are naturals, `None` is no channel and no request, `Harness` is
Boolean, sets of daemons and tabs are finite, the low water mark is not above
the high one, a desktop has a view). The bounds are part of the
modelled guards, so a theorem holds for any bound. Each inductive invariant was
checked by TLC, as an invariant of the run of its module, before it was proved.

| Module | Theorems of its runs' properties | Inductive invariant |
| --- | --- | --- |
| `TermManagerProofs` | `TermOneShell` `TermHeadedSession` `TermRoleAgreement` `TermSizeFollowsWriter` | `Inv`, and `SInv` for the size |
| `AgentSessionProofs` | `AgentTurnsAreLogged` `AgentRequestsSettleOnce` `AgentEventsKept` `AgentNothingLeftBehind` | `IInv` |
| `AgentSessionSteps` | `AgentStatusIsTrue` `AgentInterruptHonoured` `AgentClosedForCause` `AgentImplementsThreadLog` | `NInv` |
| `AgentManagerProofs` | `MapSessionsAreStopped` `MapContinuedOnce` `ThreadViewIsTheLog` | `MapInv`, `ThreadInv` |
| `ProcessManagerProofs` | `ProcOneListed` `ProcNoMissedWake` | `PInv` |
| `WorkerProofs` | `AccountNothingUsedTwice` `PluginStoredWasSent` `HubSignedOutStaysOut` `HubViewingIsTrue` `HubPresenceIsTrue` `DictationInOrder` | `AccountInv`, `PluginInv`, `HubInv` with `ViewInv` and `PresenceInv` on top, `DictInv` |
| `DesktopProofs` | `SessionDesktopIsTheirs` `KeysDoAgree` `PointerButtonIsHeld` `PointerAutoWaits` `PeerNeverStuck` `TunnelHoldsEnd` | `SessionInv`, `KeysInv`, `PointerInv`, `PeerInv`, `TunnelInv` |
| `AssistantProofs` | `NoPromptVanishes` `CopyIsAlwaysTheLog` `VoiceMicsSettle` `BridgeWordsGoOnce` | `AssistantInv`, `VoiceInv`, `BridgeInv` |

**TermManagerProofs**. `Inv` carries what needs no history of who watches.
`LiveIsCurrent` gives `OneShell`: a shell that runs, or whose exit pump has not
yet taken out of the map, is the map's entry, so there cannot be two.
`SaidAgreement` is what `RoleAgreement` becomes while messages are on their way: the
last message to a view, heard or not, does not say that it writes what another
writes. `DetachedIsClosed` serves it: the goroutine that detaches a client acts only
once its channel has closed, so no connected view loses the role without being told.

`SInv` adds the watchers of a live shell and the size. `WriterWatches` and
`Attended` are `HeadedSession` in two halves: who writes a live shell is on its
list or late, and who is on its list has a goroutine that will take it off or is
late. `Knows` is the other half of `RoleAgreement`. `SizeComes` says that the
writer's size is the shell's, or a resize is with its handler or in its
queue, or its role rises in what its view has yet to hear (`Rising`), on which
the view sends one. What could break these is a client that means another
session: `AttachesOnce`, `OneSession`, `NoTwice` and `InItsSession` say that a
channel attaches once, is on one list, once, and that what a watcher looked up,
was told last or writes is the shell it watches. `TellSays` and `HearSays` reduce
every step to what it appends to or takes from `news`; `NewWriterIsTold` says that
nobody comes to write without being told.

**AgentSessionProofs**. The
invariant is `Sound(s)`, what holds of a session record between any two helpers
(turns and processes agree, requests are pending or settled, a retry is
scheduled only between turns), `Quiet(s)`, what holds only between actions (a
recap is announced before its turn), that events are held or sent, and that
claude asks new questions only (what is in its output was not seen before, and
no two unread questions have one id). Each helper has a lemma that it takes a
sound record to a sound one, and each action a lemma that composes them.
`RetryBetweenTurns` and `RecapIsATurn` are proved and in no run.

**AgentSessionSteps** proves what is said of steps rather than of states. Its
core is `Moves(x, y)`: whatever an action does to the record, the log hears of it
as nothing, a turn begun, a request asked, one settled, or a turn ended with all
of its requests, and never as two of these. Each of the actions composes the
helpers' `Rest`, `Began`, `Asked`, `Settled` and `Ended`, and each of the five is a step of
`ThreadLog` under the refinement mapping; the initial states map to its own.
`InterruptHonoured` is read off `Ended`, which carries the flag. `Spared` says
that a claude that lives goes on, is closed for cause, or goes with the session;
with `Aged` (a claude was launched no later than it was noted, and noted no later
than now) it gives `ClosedForCause`. That theorem has the hypothesis `~Harness`:
`startAgent` notes no generation for another agent's process, which is therefore
closed as if outdated (see "Where the code differs"), so the statement is about
claude's threads, and false of the others.

**AgentManagerProofs**. `SessionsAreStopped` is the conjunction of what no single one of
can be proved without the others: a running session is in the map or in
somebody's hands (`NoneForgotten`), in one pair of hands only (`StoppedOnce`), and
a deleted thread's entry is gone once its delete has come to Kill
(`DeletedIsForgotten`). `Unborn` adds that a number not yet given out names no
session, so that a new one is in nobody's hands. For `ContinuedOnce` the
invariant is `MarkPays`: the turns marked pay for those continued, for the mark
that is still in the row and for a continuation on its way after the mark was
cleared; clearing the mark moves its credit there, and a crash can only lose it.

For `AgentThread`: `ViewIsTheLog` speaks of a tab that has read everything, so the
invariant, `ThreadInv`, says what makes up for each difference before that. An event that
is shown but no longer logged was rolled back, and the `rewind` that did it (`Undoes`)
is still to be read, or was skipped by the replay that is being read (`Skipped`); an
event that is logged but not shown is older than the copy, on its way (`Coming`), or one
that this replay skips (`Overlooked`). Events that a replay skips are why its `synced`
must say so (`SentIsFine`: one that is not truncated has skipped nothing), and why the copy is
thrown away then. A rewind can be rolled back in its turn, by one that goes further
back only (an event that is gone cannot be rewound to), so what the first had undone
stays undone.
`PageIsFine` says of a page of history that nothing is missing between it and the copy;
`Asked` is the half of that before the daemon has answered: nothing is logged between the
number asked for and the copy's first event. Once a replay that left a gap was cut short
(`torn`, see "Where the code differs"), only the order of what is shown is claimed.
The lemmas before it say what the operators make of a set of events: `InOrder`, its numbers
in order; `NewestIs`, a page is the end of the log; `WhereIs`, what is kept of a sequence.

**ProcessManagerProofs**. `OneListed` rests on startMu, but not on it alone:
the lock orders Starts, while stops, removals, reports and the ends of runs go on
beside it. `OneStarts` makes the lock's holder the one call between the lookup of
the name and the registration of its run; `Fresh` keeps the run that it makes out
of everybody else's reach until then, `Numbered` keeps runs under their own ids,
and `Pumped` ties each process to a pump or to the Start that makes it. `Alone`
then says that while a Start is under way, no process of the name runs but the one
that it stops or makes. Most actions are quiet (they begin no process, and list
none); the four of Start are taken one by one. Processes that a
stop gave up on, or that a Start did not see, are in `givenUp` and out of all of
this: see "Where the code differs" for how one comes to be there. `NoMissedWake` is
inductive with the types.

**WorkerProofs**, for `Accounts`: a code of the authenticator is accepted once
because the step that was accepted last covers every code of this era
(`StepsPassed`), a recovery code because its batch was given out by a handler
that is done and its row goes with its use (`BatchesSpent`), a link because one
handler at most is between claiming it and having inserted a device (`LinkSpent`).
`AttemptsPay` is about several requests at once: the attempts counted against a
challenge pay for the codes that were checked and for those that are under way,
so no number of requests that come together checks more of them than allowed.
For `HubPlugins`: `ToldAll`, of each kind the value given last to a connected daemon is
the stored one, or the handler of its hello has read that and not sent it yet, or the
daemon is `behind`. A change replaces what was given only of its own kind (`Sends`,
`ChangeTold`), and what a hello sends late is either still stored or flagged.
For `AccountHub`: `SignedOutStaysOut` is a property of steps, and what must be
shown is that nothing is owed to a tab whose sessions were revoked. Three kinds
of things can be: an offer whose session was read as valid before it was deleted,
an offer on its way to a daemon, and the answer on its way back. `RevokedIsSilent`
says that all of them came over sockets which the revocation has closed;
`NewIsSilent` and `UpgradesAreNew` that a socket which is accepted later (its
upgrade was let through before the sign-out) is a new one, for which nobody owes
anything. `HubInv`'s types include that an offer came over a socket of its own tab.
`ViewingIsTrue` then needs two facts, and the order of a socket's messages:
`NewViewsNothing` (a socket that is not open yet views nothing, so the report that
a tab makes when it opens is not compared with an older one) and `Reported` (an
open tab has reported what it shows).
`HubKnowsWhoIsHere` is about messages that wait: of those on their way to a tab, the
last about a device counts (`WillBeShown`), so a message that is added decides for
the devices it is about and for no other, and reading the first changes nothing
(`SaidAppend`, `SaidFirst`). `PresenceInv` says it of every tab whose socket is open, one that
has yet to open on its side included. `InARow` (a daemon's sockets are numbered in a row)
makes the newest socket the held one; `HeldAreShown`, that it is shown unless a daemon went
quiet, is where a replaced socket must not report the device gone. The property's part
on requests, `RpcHasSocket`, is in the invariant as it stands.
For `Dictation`: `DictInv` follows every chunk of a recording. What the recorder has
yet to hand over is the end of it (`QueueFine`); what it has handed over is all in
`pending`, in order, while the socket connects, and all in `sent`, in order, once it
is open (`OnItsWay`); a socket that closes early leaves a beginning. The step that
needs all of it is the socket's opening, which sends what waits before the next chunk
can be handed over.

**DesktopProofs**. Who is shown the desktop, `SessionInv`: of `DesktopIsTheirs` the
hard half is that nobody's close is forgotten. `CloseComes` says where it is, for
each session that was answered: on its way on the view's connection, or, when that
connection is lost, in the end of it that the daemon has yet to notice, or in what
`PeerClosed` has collected. It rests on `Registered` (a session is in the registry
from before it starts until it is closed, so PeerClosed finds it) and on `OpensOnce`
(an open on its way is its attempt's only one). `DoneIsStopped` says that a close that
is done has left no desktop behind, and that one ended as left belongs to a view that
closed it or lost its connection. The keys, `KeysInv`: `WireTells` looks at the last
message on its way about a key, which says what the page holds; without one the
controller holds the same, but for a key whose last message found no capture or no
window to go to (`missed`).
`KeyboardFollows` compares the controller with the capture while a write is in hand,
and while a new capture waits for its replay. The pointer, `PointerInv`: `PressIsHeld` lists what keeps
the button down (a touch, a release that will be heard, a mouse), `LetGoByMode` and
`LetGoIsMarked` say that a lock which goes without the page's doing leaves its mark,
on which `AutoWaits` rests. Each is inductive only with the types of its messages.

For `DevicePeer`: the peer's methods are functions of its record, so each
has a lemma that its result is sound (`WaitsRightly`: only a peer that connects or is
connected has a connection, one that connects is timed and has its sink, calls wait on
the connection that is up; `MovesOn`: something ends the connecting), and each action
composes them. `OnHubChange` is the one that takes a peer that is not: the hub's socket
drops its sinks before the peer hears of it, so the lemma asks for the sink only while
the hub is open. `NoOffers` (the daemon sends none) is needed for `OnSignal` to have a case
for every signal.

For `Tunnel`, `HoldsEnd` says that nothing waits for an end that does not come, at
three places, and `TunnelInv` has a part for each. `PageInv`: the page holds a device's
connection from "open" until it reads "close" or says "closed", so once the shell's
stream is gone one of the two is on its way, unless the message was lost with the
page. `PortInv`: the daemon's dial and its pump belong to a context that ends with the
channel, whose `fin` is on its way if the channel itself is no longer there. `HoldInv`: a
stream that is paused, or will be when it has read what the page said last
(`WillHold`), has more than the low water mark unsent, or the event that says
otherwise is pending; before the channel is there nothing was held (`Fresh`). An action
takes one message from a queue or adds one, so the lemmas on `Comes`, `PausesIn`, `WillHold`
and `Unsent` say what that does to each.

**AssistantProofs**. `AssistantInv` is `TypeOK`, `PromptInv` and `CopyInv`. A prompt is in
one place at most (`Apart`: with a tab's runner, or in a message on its way to or from
a tab; `AllOnce`: and in one message of these), was asked (`Asked`) and, unless its end
was told, is in some place (`NoneVanish`). That gives `PromptsAccounted`: taking a prompt out of
one place while putting it in another keeps all four, and the steps that only take
one out are those which count it in `lost` or `dropped`.

For the copies, `CopyIsTheLog` speaks of a tab that has read everything, so `CopyInv`
says what holds while messages are on their way, in either direction. `Known`: what a
tab has or will have was logged, and still is unless it was cleared; `Told`: what was
cleared behind a tab's back is followed by a message that takes it away; `Whole`: the copy
has no hole. The last is the hard one, since what a tab lacks is older than all it has, except
while it attaches again, when it also lacks what came meanwhile.
`WholeThrough` states that for the number a tab attaches from, from before its `attach` is sent
until the server reads it; `WholeFrom` for every point at which the reading may end after
`synced`, as a connection may be lost at any of them. A tab whose copy was `torn` (its
connection dropped between a broadcast and its replay, see "Where the code differs") is
out of `Whole`, as it is of the property. That the largest number of a finite set exists,
on which attaching rests, is shown by well-founded induction (`LeastOf`).

For `Voice`: while no voice was stopped halfway (`cutShort = {}`), each is `Fine`
(one start is at work, and the engine knows the microphone and the connection that are
open), so a stop lets all of it go, and `OneIsTold`: of two tabs that are done starting,
the later has told the earlier, which has yet to hear of it.

For `LiveBridge`: `BridgeInv` says of each utterance that it is still to go and nobody was told
of it, that it went to one of the agent and the chat, or that it was `SetAside`. The
last is what is hard: a hand-off marks as used what it does not pass on. What it leaves out
lies before a cutoff, and the lemmas on it (`CutoffAside`, `CutoffIsTime`) show that
these words began before GPT-Live's last answer ended, and that answer before the newest
words began, so that it was GPT-Live's to answer them and the user has gone on. `FlushSpoken`: the
timer of an answer gives the chat words that were still to go, and changes no others.
`Continues`: later pieces of a transcript only lengthen an utterance, so what was set aside
stays so.

Only model-checked: all liveness (fairness and ENABLED are beyond the prover), that is
`ExitReachesClients`, `DeadTurnEnds`, `RetryComes`, `StaleStops`, `ConnectingEnds`,
`RecordingIsBounded` and `SilentGoesOffline`. Every safety property of a passing run
is proved.

The type invariants are conjuncts of what is proved. They are not in the runs,
whose properties are kept for what a step could get wrong.

## What is not modelled

`PROJECT.json` lists every part with the reason. In short:

* input and output of the operating system or a browser engine: desktop, browser,
  file system, git, updates, the PTY's bytes;
* parts without concurrency of their own: codecs, store, MCP, protocol types;
* presentation. The React views are the larger part of the TypeScript (sidebars,
  agent, browser and desktop views, settings) and hold state that is only
  displayed; where a view decides something it is in the module of what it talks
  to (what a terminal's view believes in `TermManager`, the log in `AgentThread`);
* of a shown desktop the video, the pointer's position and the clipboard.

## Plan

1. Terminals, agent sessions with their log, a tab's view of it, the session map, processes,
   the account's second factor, its daemons' settings, its sign-outs, who is here and what its
   tabs view, peers, tunnels, the assistant's conversation, voice, the words of a spoken
   conversation, dictation, the remote desktop and its input: modelled, checked and proved.
2. To model next: the plugin registry.
