---------------------------- MODULE TermManager ----------------------------
(***************************************************************************)
(* The shell of one thread and the terminal channels that watch it.        *)
(*                                                                         *)
(* daemon/internal/term/manager.go keeps one pseudo-terminal session per   *)
(* thread, a list of attached clients and the one client that may type;    *)
(* daemon/internal/plugins/termchan/termchan.go drives it from a WebRTC    *)
(* data channel: a handler takes the channel's messages one by one, and a  *)
(* second goroutine detaches the client when the channel's context ends.   *)
(* terminal-view.tsx is the other end: it sends "attach" first, offers     *)
(* "takeover" to a viewer, types when it is the writer and resizes when it *)
(* becomes the writer. Its role comes to it as messages, which the manager  *)
(* puts on each client's own channel while it holds s.mu: a view hears of   *)
(* them one by one, later, and no two views at the same time.               *)
(*                                                                         *)
(* The manager's map has its lock (m.mu) and every session its own (s.mu). *)
(* One action here is one critical section, so whatever the code does      *)
(* after it has released m.mu and before it takes s.mu can be overtaken.   *)
(* Threads share nothing but m.mu: one thread is modelled.                 *)
(***************************************************************************)
EXTENDS Naturals, Sequences, FiniteSets

CONSTANTS
  Client,    \* terminal channels; a view that attaches again opens another one
  MaxSpawn,  \* bound on the shells spawned for the thread
  MaxPress,  \* bound on the takeovers and keystrokes of all views together
  None       \* no client

ASSUME MaxSpawnAssumption == MaxSpawn \in Nat
ASSUME MaxPressAssumption == MaxPress \in Nat
ASSUME NoneAssumption == None \notin Client

NoSession == 0
Session == 1 .. MaxSpawn

VARIABLES
  current,   \* m.sessions[threadID], NoSession when absent
  spawned,   \* shells spawned so far
  phase,     \* how far pump has come with each session
  clients,   \* session.clients, in attach order
  writer,    \* session.writer
  size,      \* the client the PTY was last sized to
  toTell,    \* pump's local copy of clients, those not yet told of the exit
  open,      \* the channel's context has not ended
  attached,  \* termchan's client.attached
  inbox,     \* messages on their way from the view
  handler,   \* what OnMessage is doing for each channel
  detacher,  \* what the goroutine that waits for ctx.Done is doing
  news,      \* what the view believes, then what the messages on their way will have it believe
  presses,   \* takeovers and keystrokes so far
  late       \* history: by session, clients that joined it or took it over when nothing
             \* was left to take them off it: see HeadedSession

sessionVars == <<current, spawned, phase, clients, writer, size, toTell, late>>
channelVars == <<open, attached, inbox, handler, detacher, news, presses>>
vars == <<current, spawned, phase, clients, writer, size, toTell,
          open, attached, inbox, handler, detacher, news, presses, late>>

Idle == [op |-> "idle", s |-> NoSession]
Busy(op, s) == [op |-> op, s |-> s]
(* writerRef and exitedRef of a view, and the session they are about. *)
NoBelief == [role |-> "none", s |-> NoSession, ended |-> FALSE]

Message == {"attach", "takeover", "input", "resize"}
HandlerOp == {"idle", "attaching", "joining", "taking", "resizing", "checking", "typing"}
DetacherOp == {"waiting", "detaching", "leaving", "done"}
Belief == [role: {"none", "writer", "viewer"}, s: {NoSession} \cup Session, ended: BOOLEAN]

TypeOK ==
  /\ current \in {NoSession} \cup Session
  /\ spawned \in 0 .. MaxSpawn
  /\ phase \in [Session -> {"unborn", "running", "exited", "unmapped", "ended"}]
  /\ clients \in [Session -> Seq(Client)]
  /\ writer \in [Session -> Client \cup {None}]
  /\ size \in [Session -> Client \cup {None}]
  /\ toTell \in [Session -> SUBSET Client]
  /\ open \in [Client -> BOOLEAN]
  /\ attached \in [Client -> BOOLEAN]
  /\ inbox \in [Client -> Seq(Message)]
  /\ handler \in [Client -> [op: HandlerOp, s: {NoSession} \cup Session]]
  /\ detacher \in [Client -> [op: DetacherOp, s: {NoSession} \cup Session]]
  /\ news \in [Client -> Seq(Belief)] /\ \A c \in Client : news[c] # <<>>
  /\ presses \in 0 .. MaxPress
  /\ late \in [Session -> SUBSET Client]

Init ==
  /\ current = NoSession
  /\ spawned = 0
  /\ phase = [s \in Session |-> "unborn"]
  /\ clients = [s \in Session |-> <<>>]
  /\ writer = [s \in Session |-> None]
  /\ size = [s \in Session |-> None]
  /\ toTell = [s \in Session |-> {}]
  /\ open = [c \in Client |-> TRUE]
  /\ attached = [c \in Client |-> FALSE]
  /\ inbox = [c \in Client |-> <<"attach">>]
  /\ handler = [c \in Client |-> Idle]
  /\ detacher = [c \in Client |-> Busy("waiting", NoSession)]
  /\ news = [c \in Client |-> <<NoBelief>>]
  /\ presses = 0
  /\ late = [s \in Session |-> {}]

ClientSet(s) == {clients[s][i] : i \in 1 .. Len(clients[s])}

(* q without its entry for c, if it has one. *)
Without(q, c) ==
  IF \E i \in 1 .. Len(q) : q[i] = c
  THEN LET i == CHOOSE i \in 1 .. Len(q) : q[i] = c
       IN SubSeq(q, 1, i - 1) \o SubSeq(q, i + 1, Len(q))
  ELSE q

-----------------------------------------------------------------------------
(* The view. *)

(* What the view believes, and what it will once it has heard all it was sent. *)
Told(c) == Head(news[c])
Said(c) == news[c][Len(news[c])]
Heard(c) == Len(news[c]) = 1

(* The messages that make a client believe b, or see its shell ended. *)
Role(c, r, s) == [Said(c) EXCEPT !.role = r, !.s = s]
Ended(c) == [Said(c) EXCEPT !.ended = TRUE]

(* Client.Writer and Client.Exited of some clients: each message is put on the *)
(* client's own channel, and a channel that has closed takes none.            *)
Tell(says) ==
  news' = [c \in Client |-> IF c \in DOMAIN says /\ open[c] THEN Append(news[c], says[c])
                                                          ELSE news[c]]

(* onControl: a view that learns it is the writer and was not sends its size. *)
Hear(c) ==
  /\ open[c] /\ ~Heard(c)
  /\ news' = [news EXCEPT ![c] = Tail(@)]
  /\ inbox' = IF Told(c).role # "writer" /\ news[c][2].role = "writer"
              THEN [inbox EXCEPT ![c] = Append(@, "resize")] ELSE inbox
  /\ UNCHANGED <<sessionVars, open, attached, handler, detacher, presses>>

Press(c, role, m) ==
  /\ open[c] /\ Told(c).role = role /\ ~Told(c).ended /\ inbox[c] = <<>>
  /\ presses < MaxPress
  /\ presses' = presses + 1
  /\ inbox' = [inbox EXCEPT ![c] = <<m>>]
  /\ UNCHANGED <<sessionVars, open, attached, handler, detacher, news>>

(* The Take over button is shown to a viewer; a writer types. *)
PressTakeover(c) == Press(c, "viewer", "takeover")
PressKey(c) == Press(c, "writer", "input")

(* The channel closes, or its peer connection does. A message the read loop *)
(* already holds is still handled.                                          *)
CloseChannel(c) ==
  /\ open[c]
  /\ open' = [open EXCEPT ![c] = FALSE]
  /\ \/ inbox' = [inbox EXCEPT ![c] = <<>>]
     \/ /\ handler[c] = Idle /\ inbox[c] # <<>>
        /\ inbox' = [inbox EXCEPT ![c] = <<Head(@)>>]
  /\ news' = [news EXCEPT ![c] = <<NoBelief>>]
  /\ UNCHANGED <<sessionVars, attached, handler, detacher, presses>>

-----------------------------------------------------------------------------
(* The channel's message handler. *)

Take(c, m) ==
  /\ handler[c] = Idle /\ inbox[c] # <<>> /\ Head(inbox[c]) = m

Drop(c) == inbox' = [inbox EXCEPT ![c] = Tail(@)]

HandleAttach(c) ==
  /\ Take(c, "attach") /\ Drop(c)
  /\ \/ /\ attached[c] \/ ~open[c]
        /\ UNCHANGED <<attached, handler>>
     \/ /\ ~attached[c] /\ open[c]
        /\ attached' = [attached EXCEPT ![c] = TRUE]
        /\ handler' = [handler EXCEPT ![c] = Busy("attaching", NoSession)]
  /\ UNCHANGED <<sessionVars, open, detacher, news, presses>>

(* Fault: the map is not searched for a live session first. *)
SpawnUnchecked(sizer) ==
  /\ spawned < MaxSpawn
  /\ spawned' = spawned + 1
  /\ current' = spawned'
  /\ phase' = [phase EXCEPT ![spawned'] = "running"]
  /\ size' = [size EXCEPT ![spawned'] = sizer]
  /\ UNCHANGED <<clients, writer, toTell, late>>

(* getOrSpawn's branch that starts a shell, sized to sizer. *)
Spawn(sizer) ==
  /\ current = NoSession /\ spawned < MaxSpawn
  /\ spawned' = spawned + 1
  /\ current' = spawned'
  /\ phase' = [phase EXCEPT ![spawned'] = "running"]
  /\ size' = [size EXCEPT ![spawned'] = sizer]
  /\ UNCHANGED <<clients, writer, toTell, late>>

GetOrSpawn(c) ==
  /\ handler[c].op = "attaching"
  /\ \/ /\ current # NoSession
        /\ UNCHANGED sessionVars
     \/ Spawn(c)
  /\ handler' = [handler EXCEPT ![c] = Busy("joining", current')]
  /\ UNCHANGED <<open, attached, inbox, detacher, news, presses>>

(* No such thread, no directory or no shell: Attach returns the error, which *)
(* the view only shows.                                                      *)
SpawnFails(c) ==
  /\ handler[c].op = "attaching" /\ current = NoSession
  /\ attached' = [attached EXCEPT ![c] = FALSE]
  /\ handler' = [handler EXCEPT ![c] = Idle]
  /\ UNCHANGED <<sessionVars, open, inbox, detacher, news, presses>>

(* The goroutine that waits for c's context has yet to take c off session s. *)
WillLeave(c, s) ==
  \/ detacher[c].op = "waiting" /\ attached[c]
  \/ detacher[c].op = "detaching"
  \/ detacher[c] = Busy("leaving", s)

(* The rest of Attach, under s.mu. *)
Join(c) ==
  LET s == handler[c].s
      w == IF writer[s] = None THEN c ELSE writer[s]
  IN /\ handler[c].op = "joining"
     /\ clients' = [clients EXCEPT ![s] = Append(@, c)]
     /\ writer' = [writer EXCEPT ![s] = w]
     /\ handler' = [handler EXCEPT ![c] = Idle]
     /\ late' = IF WillLeave(c, s) THEN late ELSE [late EXCEPT ![s] = @ \cup {c}]
     /\ Tell([x \in {c} |-> Role(x, IF w = c THEN "writer" ELSE "viewer", s)])
     /\ UNCHANGED <<current, spawned, phase, size, toTell, open, attached, inbox, detacher, presses>>

(* Takeover, Resize and Input look the session up under m.mu first; only   *)
(* Input asks whether the channel is attached.                             *)
LookUp(c, m, op) ==
  /\ Take(c, m) /\ Drop(c)
  /\ handler' = IF current # NoSession /\ (m = "input" => attached[c])
                THEN [handler EXCEPT ![c] = Busy(op, current)] ELSE handler
  /\ UNCHANGED <<sessionVars, open, attached, detacher, news, presses>>

HandleTakeover(c) == LookUp(c, "takeover", "taking")
HandleResize(c) == LookUp(c, "resize", "resizing")
HandleInput(c) == LookUp(c, "input", "checking")

(* Fault: the writer that is replaced is not told. *)
TakeOverSilently(c) ==
  LET s == handler[c].s
  IN /\ handler[c].op = "taking"
     /\ handler' = [handler EXCEPT ![c] = Idle]
     /\ writer' = [writer EXCEPT ![s] = c]
     /\ size' = [size EXCEPT ![s] = c]
     /\ late' = IF c \in ClientSet(s) THEN late ELSE [late EXCEPT ![s] = @ \cup {c}]
     /\ Tell([x \in {c} |-> Role(x, "writer", s)])
     /\ UNCHANGED <<current, spawned, phase, clients, toTell, open, attached, inbox, detacher, presses>>

TakeOver(c) ==
  LET s == handler[c].s
      prev == writer[s]
  IN /\ handler[c].op = "taking"
     /\ handler' = [handler EXCEPT ![c] = Idle]
     /\ \/ /\ prev = c
           /\ UNCHANGED <<writer, size, news, late>>
        \/ /\ prev # c
           /\ writer' = [writer EXCEPT ![s] = c]
           /\ size' = [size EXCEPT ![s] = c]
           /\ late' = IF c \in ClientSet(s) THEN late ELSE [late EXCEPT ![s] = @ \cup {c}]
           /\ Tell([x \in {c} \cup ({prev} \ {None}) |->
                      Role(x, IF x = c THEN "writer" ELSE "viewer", s)])
     /\ UNCHANGED <<current, spawned, phase, clients, toTell, open, attached, inbox, detacher, presses>>

(* Fault: any client may resize the PTY. *)
ResizeByAnyone(c) ==
  /\ handler[c].op = "resizing"
  /\ handler' = [handler EXCEPT ![c] = Idle]
  /\ size' = [size EXCEPT ![handler[c].s] = c]
  /\ UNCHANGED <<current, spawned, phase, clients, writer, toTell, late,
                 open, attached, inbox, detacher, news, presses>>

Resize(c) ==
  LET s == handler[c].s
  IN /\ handler[c].op = "resizing"
     /\ handler' = [handler EXCEPT ![c] = Idle]
     /\ size' = IF writer[s] = c THEN [size EXCEPT ![s] = c] ELSE size
     /\ UNCHANGED <<current, spawned, phase, clients, writer, toTell, late,
                    open, attached, inbox, detacher, news, presses>>

(* Input reads isWriter under s.mu ...  *)
CheckWriter(c) ==
  LET s == handler[c].s
  IN /\ handler[c].op = "checking"
     /\ handler' = [handler EXCEPT ![c] = IF writer[s] = c THEN Busy("typing", s) ELSE Idle]
     /\ UNCHANGED <<sessionVars, open, attached, inbox, detacher, news, presses>>

(* ... and writes to the PTY after it has let go of it. *)
WriteKeys(c) ==
  /\ handler[c].op = "typing"
  /\ handler' = [handler EXCEPT ![c] = Idle]
  /\ UNCHANGED <<sessionVars, open, attached, inbox, detacher, news, presses>>

-----------------------------------------------------------------------------
(* The goroutine that detaches a client whose context has ended. *)

StartDetach(c) ==
  /\ ~open[c] /\ detacher[c].op = "waiting"
  /\ attached' = [attached EXCEPT ![c] = FALSE]
  /\ detacher' = [detacher EXCEPT ![c] =
       Busy(IF attached[c] THEN "detaching" ELSE "done", NoSession)]
  /\ UNCHANGED <<sessionVars, open, inbox, handler, news, presses>>

FindSession(c) ==
  /\ detacher[c].op = "detaching"
  /\ detacher' = [detacher EXCEPT ![c] =
       IF current = NoSession THEN Busy("done", NoSession) ELSE Busy("leaving", current)]
  /\ UNCHANGED <<sessionVars, open, attached, inbox, handler, news, presses>>

(* Fault: nobody is promoted. *)
LeaveHeadless(c) ==
  LET s == detacher[c].s
  IN /\ detacher[c].op = "leaving"
     /\ detacher' = [detacher EXCEPT ![c] = Busy("done", NoSession)]
     /\ clients' = [clients EXCEPT ![s] = Without(@, c)]
     /\ writer' = [writer EXCEPT ![s] = IF @ = c THEN None ELSE @]
     /\ UNCHANGED <<current, spawned, phase, size, toTell, late, open, attached, inbox, handler, news, presses>>

(* Detach under s.mu: drop c and promote the most recently attached client. *)
Leave(c) ==
  LET s == detacher[c].s
      rest == Without(clients[s], c)
      heir == IF rest = <<>> THEN None ELSE rest[Len(rest)]
  IN /\ detacher[c].op = "leaving"
     /\ detacher' = [detacher EXCEPT ![c] = Busy("done", NoSession)]
     /\ clients' = [clients EXCEPT ![s] = rest]
     /\ \/ /\ writer[s] = c
           /\ writer' = [writer EXCEPT ![s] = heir]
           /\ Tell([x \in {heir} \ {None} |-> Role(x, "writer", s)])
        \/ /\ writer[s] # c
           /\ UNCHANGED <<writer, news>>
     /\ UNCHANGED <<current, spawned, phase, size, toTell, late, open, attached, inbox, handler, presses>>

-----------------------------------------------------------------------------
(* The shell and the manager's pump goroutine. Kill and Shutdown signal the *)
(* shell, which may exit at any time as it is.                              *)

(* Type: a new tab's input, from a caller that is no client. *)
TypeSpawns ==
  /\ Spawn(None)
  /\ UNCHANGED channelVars

ShellExits(s) ==
  /\ phase[s] = "running"
  /\ phase' = [phase EXCEPT ![s] = "exited"]
  /\ UNCHANGED <<current, spawned, clients, writer, size, toTell, late, channelVars>>

Unmap(s) ==
  /\ phase[s] = "exited"
  /\ phase' = [phase EXCEPT ![s] = "unmapped"]
  /\ current' = IF current = s THEN NoSession ELSE current
  /\ UNCHANGED <<spawned, clients, writer, size, toTell, late, channelVars>>

(* Fault: the clients are cleared before they are copied. *)
ClearClientsFirst(s) ==
  /\ phase[s] = "unmapped"
  /\ phase' = [phase EXCEPT ![s] = "ended"]
  /\ clients' = [clients EXCEPT ![s] = <<>>]
  /\ writer' = [writer EXCEPT ![s] = None]
  /\ UNCHANGED <<current, spawned, size, toTell, late, channelVars>>

ClearClients(s) ==
  /\ phase[s] = "unmapped"
  /\ phase' = [phase EXCEPT ![s] = "ended"]
  /\ toTell' = [toTell EXCEPT ![s] = ClientSet(s)]
  /\ clients' = [clients EXCEPT ![s] = <<>>]
  /\ writer' = [writer EXCEPT ![s] = None]
  /\ UNCHANGED <<current, spawned, size, late, channelVars>>

TellExit(s, c) ==
  /\ c \in toTell[s]
  /\ toTell' = [toTell EXCEPT ![s] = @ \ {c}]
  /\ attached' = [attached EXCEPT ![c] = FALSE]
  /\ Tell([x \in {c} |-> Ended(x)])
  /\ UNCHANGED <<current, spawned, phase, clients, writer, size, late,
                 open, inbox, handler, detacher, presses>>

-----------------------------------------------------------------------------
ViewStep(c) == Hear(c) \/ PressTakeover(c) \/ PressKey(c) \/ CloseChannel(c)

HandlerStep(c) ==
  \/ HandleAttach(c) \/ GetOrSpawn(c) \/ SpawnFails(c) \/ Join(c)
  \/ HandleTakeover(c) \/ TakeOver(c)
  \/ HandleResize(c) \/ Resize(c)
  \/ HandleInput(c) \/ CheckWriter(c) \/ WriteKeys(c)

DetacherStep(c) == StartDetach(c) \/ FindSession(c) \/ Leave(c)

PumpStep(s) == Unmap(s) \/ ClearClients(s) \/ \E c \in Client : TellExit(s, c)

Next ==
  \/ \E c \in Client : ViewStep(c) \/ HandlerStep(c) \/ DetacherStep(c)
  \/ \E s \in Session : ShellExits(s) \/ PumpStep(s)
  \/ TypeSpawns

Spec == Init /\ [][Next]_vars

(* A pump goroutine that can run does, and a message on a data channel, which *)
(* is reliable and ordered, arrives or the channel closes. Nobody else owes    *)
(* anything, neither views and shells nor, for what is claimed, the channels'  *)
(* goroutines.                                                                 *)
FairSpec ==
  /\ Spec
  /\ \A s \in Session : WF_vars(PumpStep(s))
  /\ \A c \in Client : WF_vars(Hear(c))

-----------------------------------------------------------------------------
(* Properties. *)

(* A thread never has two live shells, however attaches, Type and the end   *)
(* of an earlier shell interleave: the map entry outlives the process.      *)
OneShell ==
  \A s, t \in Session : phase[s] = "running" /\ phase[t] = "running" => s = t

(* "When the writer detaches, the most recently attached client is promoted" *)
(* (SPEC.md:197): a live shell that somebody watches is written by one of    *)
(* those who watch it, and one whose departure will still be noticed. Two    *)
(* clients are nobody's to promote past, and exempt as late: one that took   *)
(* the shell over without being on its list (its takeover found the shell    *)
(* before, and took it after, it had left, or came from the shell before),   *)
(* and one that joined when its goroutine had been and gone.                 *)
HeadedSession ==
  \A s \in Session :
    phase[s] = "running" /\ clients[s] # <<>> /\ writer[s] \notin late[s] =>
      writer[s] \in ClientSet(s) /\ WillLeave(writer[s], s)

(* Roles travel, so two views can both believe that they hold the keyboard   *)
(* of a shell; then a message is on its way to one of them. A view that has  *)
(* heard all it was sent and believes it writes a shell does so until that   *)
(* ends, and one that watches a live shell and writes it knows that it does. *)
RoleAgreement ==
  \A c \in Client, s \in Session :
    LET believes == Told(c).role = "writer" /\ Told(c).s = s
    IN open[c] /\ Heard(c) =>
         /\ believes /\ phase[s] # "ended" => writer[s] = c
         /\ writer[s] = c /\ c \in ClientSet(s) /\ phase[s] = "running" => believes

Quiet ==
  /\ \A c \in Client : handler[c] = Idle /\ inbox[c] = <<>> /\ Heard(c)
                       /\ (open[c] \/ detacher[c].op = "done")
  /\ \A s \in Session : phase[s] \in {"unborn", "running", "ended"} /\ toTell[s] = {}

(* Once every message has been handled the PTY has the size of the connected *)
(* client that writes, also when that client was promoted by somebody        *)
(* else's departure.                                                         *)
SizeFollowsWriter ==
  Quiet => \A s \in Session :
    phase[s] = "running" /\ writer[s] # None /\ open[writer[s]] => size[s] = writer[s]

(* A client that is attached when its shell exits hears of it, or its channel *)
(* closes first.                                                              *)
ExitReachesClients ==
  \A c \in Client, s \in Session :
    phase[s] = "exited" /\ c \in ClientSet(s) ~> (Told(c).ended \/ ~open[c])
=============================================================================
