----------------------------- MODULE RemoteKeys -----------------------------
(* The keys that a viewer of a remote desktop holds down: what the page's      *)
(* InputForwarder (apps/web's lib/desktop/input.ts) makes of keyboard and focus *)
(* events, the control channel, and the daemon's controller                     *)
(* (desktop/control.go), which presses them on the virtual keyboard of the      *)
(* capture that runs (desktop/session.go). A capture is replaced or dies while  *)
(* keys are held and messages are on their way; its keyboard goes with it. The  *)
(* channel is open throughout.                                                  *)
EXTENDS Integers, Sequences

CONSTANTS
  MaxWire,  \* bound on messages on their way
  MaxReplay \* bound on captures that have started and whose keys are not replayed yet

ASSUME KeysAssumption == MaxWire \in Nat \ {0} /\ MaxReplay \in Nat \ {0}

\* "mods" stands for Ctrl, Alt and Shift together. With them, the letter is a local shortcut.
KeyCode == {"letter", "mods", "meta"}
NoKey == "no key"
KeyMessage == [t : {"down", "up"}, k : KeyCode] \cup [t : {"all"}, k : {NoKey}]

VARIABLES
  mac,      \* viewerIsMac
  fingers,  \* keys the viewer's fingers are on
  focused,  \* the picture has the keyboard: not another element, tab or window, nor view only
  pressed,  \* pressedKeys
  wire,     \* the control channel
  capture,  \* the session's media: of a monitor, of a window, or none
  alive,    \* the capture's process
  keyboard, \* keys down on its virtual keyboard
  heldKeys, \* controller.held
  hand,     \* what a goroutine does with the controller locked
  replays,  \* goroutines of replayHeld that have yet to lock it
  swallowed, \* history: keys let go as part of a shortcut, and not let go otherwise since
  missed     \* history: keys whose last message had no capture, or no window, to go to

viewerVars == <<mac, fingers, focused, pressed, swallowed>>
captureVars == <<capture, alive, keyboard, replays>>
keysVars == <<viewerVars, wire, captureVars, heldKeys, hand, missed>>

AtRest == [t |-> "idle", k |-> NoKey, to |-> "none"]

KeysInit ==
  /\ mac \in BOOLEAN /\ fingers = {} /\ focused = TRUE /\ pressed = {} /\ swallowed = {}
  /\ wire = <<>>
  /\ capture = "monitor" /\ alive = TRUE /\ keyboard = {} /\ replays = 0
  /\ heldKeys = {} /\ hand = AtRest /\ missed = {}

KeyDown(k) == [t |-> "down", k |-> k]
KeyUp(k) == [t |-> "up", k |-> k]
All == [t |-> "all", k |-> NoKey]

SendsKeys(messages) == /\ Len(wire) + Len(messages) <= MaxWire
                       /\ wire' = wire \o messages

\* Fault: the page forgets what is held, and the host is not told.
ForgetsKeys == pressed' = {} /\ swallowed' = {} /\ UNCHANGED wire

\* releaseAll.
ReleasesAll == SendsKeys(<<All>>) /\ pressed' = {} /\ swallowed' = {}

-----------------------------------------------------------------------------
(* The viewer. *)

\* onKey of a keydown: a shortcut, a key, or a tap of one whose keyup will not come.
Presses(k) ==
  /\ k \notin fingers /\ fingers' = fingers \cup {k}
  /\ IF ~focused THEN UNCHANGED <<pressed, swallowed, wire>>
     ELSE IF k = "letter" /\ "mods" \in fingers THEN ReleasesAll
     ELSE IF mac /\ k = "letter" /\ "meta" \in fingers
       THEN SendsKeys(<<KeyDown(k), KeyUp(k)>>) /\ pressed' = pressed \ {k} /\ swallowed' = swallowed \ {k}
     ELSE SendsKeys(<<KeyDown(k)>>) /\ pressed' = pressed \cup {k} /\ UNCHANGED swallowed
  /\ UNCHANGED <<mac, focused, captureVars, heldKeys, hand, missed>>

\* Fault: what is still down when Command comes up is left down.
GoesUpAlone(k) == {k}

\* On a Mac, what is still down when Command comes up goes up with it.
GoesUpWith(k) == IF mac /\ k = "meta" THEN {k} \cup (pressed \cap {"letter"}) ELSE {k}

\* onKey of a keyup, which a Mac does not report while Command is down.
Releases(k) ==
  /\ k \in fingers /\ fingers' = fingers \ {k}
  /\ IF ~focused \/ (mac /\ k = "letter" /\ "meta" \in fingers)
     THEN UNCHANGED <<pressed, swallowed, wire>>
     ELSE IF k = "letter" /\ "mods" \in fingers
       THEN swallowed' = swallowed \cup (pressed \cap {k}) /\ UNCHANGED <<pressed, wire>>
     ELSE /\ pressed' = pressed \ GoesUpWith(k) /\ swallowed' = swallowed \ GoesUpWith(k)
          /\ SendsKeys(IF "letter" \in GoesUpWith(k) \ {k} THEN <<KeyUp(k), KeyUp("letter")>> ELSE <<KeyUp(k)>>)
  /\ UNCHANGED <<mac, focused, captureVars, heldKeys, hand, missed>>

\* focusout, the window's blur, and setViewOnly.
LosesFocus ==
  /\ focused /\ focused' = FALSE /\ ReleasesAll
  /\ UNCHANGED <<mac, fingers, captureVars, heldKeys, hand, missed>>

GetsFocus ==
  /\ ~focused /\ focused' = TRUE
  /\ UNCHANGED <<mac, fingers, pressed, swallowed, wire, captureVars, heldKeys, hand, missed>>

\* A cancelled pointer, a hidden page, a mouse captured or let go of.
LetsAllGo ==
  /\ ReleasesAll
  /\ UNCHANGED <<mac, fingers, focused, captureVars, heldKeys, hand, missed>>

-----------------------------------------------------------------------------
(* The host. *)

About(m) == IF m.t = "all" THEN KeyCode ELSE {m.k}

\* Fault: a key that is let go of stays in the set.
HeldGrows(m) == CASE m.t = "down" -> heldKeys \cup {m.k} [] m.t = "up" -> heldKeys [] OTHER -> {}

HeldAfter(m) == CASE m.t = "down" -> heldKeys \cup {m.k} [] m.t = "up" -> heldKeys \ {m.k} [] OTHER -> {}

\* apply, up to the write to the capture it has looked up. Super does not reach a window.
Applies ==
  /\ wire # <<>> /\ hand = AtRest
  /\ wire' = Tail(wire)
  /\ LET m == Head(wire) IN
       IF capture = "none" \/ (capture = "window" /\ m.k = "meta")
       THEN missed' = missed \cup About(m) /\ UNCHANGED <<heldKeys, hand>>
       ELSE /\ heldKeys' = HeldAfter(m) /\ missed' = missed \ About(m)
            /\ hand' = [t |-> m.t, k |-> m.k, to |-> "current"]
  /\ UNCHANGED <<viewerVars, captureVars>>

\* replayHeld, up to its write.
Replays ==
  /\ replays > 0 /\ hand = AtRest /\ replays' = replays - 1
  /\ hand' = IF capture = "none" THEN AtRest ELSE [t |-> "replay", k |-> NoKey, to |-> "current"]
  /\ UNCHANGED <<viewerVars, wire, capture, alive, keyboard, heldKeys, missed>>

\* The keyboard, if it is still that of the capture that was looked up. A key that is
\* down is not pressed again.
Writes ==
  /\ hand # AtRest /\ hand' = AtRest
  /\ keyboard' = IF hand.to = "lost" \/ ~alive THEN keyboard
                 ELSE CASE hand.t = "down" -> keyboard \cup {hand.k} [] hand.t = "up" -> keyboard \ {hand.k}
                        [] hand.t = "all" -> {} [] hand.t = "replay" -> keyboard \cup heldKeys
  /\ UNCHANGED <<viewerVars, wire, capture, alive, replays, heldKeys, missed>>

LoseKeyboard == keyboard' = {} /\ hand' = IF hand = AtRest THEN AtRest ELSE [hand EXCEPT !.to = "lost"]

StartsMedia(src) == replays < MaxReplay /\ capture' = src /\ alive' = TRUE /\ replays' = replays + 1

\* Another monitor, window or mode: the capture is replaced with the session locked.
RestartsMedia(src) ==
  /\ capture # "none" /\ StartsMedia(src) /\ LoseKeyboard
  /\ UNCHANGED <<viewerVars, wire, heldKeys, missed>>

\* Its process ends.
Crashes ==
  /\ capture # "none" /\ alive /\ alive' = FALSE /\ keyboard' = {}
  /\ UNCHANGED <<viewerVars, wire, capture, replays, heldKeys, hand, missed>>

\* recoverMedia stops what failed, or no longer has the size it had, and waits with the
\* session unlocked.
StopsMedia ==
  /\ capture # "none" /\ capture' = "none" /\ alive' = FALSE /\ LoseKeyboard
  /\ UNCHANGED <<viewerVars, wire, replays, heldKeys, missed>>

RecoversMedia(src) ==
  /\ capture = "none" /\ StartsMedia(src)
  /\ UNCHANGED <<viewerVars, wire, keyboard, heldKeys, hand, missed>>

-----------------------------------------------------------------------------

KeysNext ==
  \/ \E k \in KeyCode : Presses(k) \/ Releases(k)
  \/ LosesFocus \/ GetsFocus \/ LetsAllGo
  \/ Applies \/ Replays \/ Writes
  \/ \E src \in {"monitor", "window"} : RestartsMedia(src) \/ RecoversMedia(src)
  \/ Crashes \/ StopsMedia

KeysSpec == KeysInit /\ [][KeysNext]_keysVars

KeysTypeOK ==
  /\ {mac, focused, alive} \subseteq BOOLEAN
  /\ fingers \subseteq KeyCode /\ pressed \subseteq KeyCode /\ swallowed \subseteq KeyCode /\ missed \subseteq KeyCode
  /\ wire \in Seq(KeyMessage) /\ Len(wire) <= MaxWire
  /\ capture \in {"monitor", "window", "none"}
  /\ keyboard \subseteq KeyCode /\ heldKeys \subseteq KeyCode /\ replays \in 0 .. MaxReplay
  /\ hand \in [t : {"idle", "down", "up", "all", "replay"}, k : KeyCode \cup {NoKey}, to : {"none", "current", "lost"}]

Arrived == wire = <<>> /\ hand = AtRest

\* What the page takes for held is held: a key the viewer has let go of, wherever the
\* keyboard was then, is not down for the host to repeat. (On a Mac it is until Command is
\* let go of, and a letter let go of with Ctrl, Alt and Shift down is swallowed.)
LetGoIsSent ==
  \A k \in pressed : k \in fingers \/ k \in swallowed \/ (mac /\ k = "letter" /\ "meta" \in fingers)

\* Once the keys of a running capture are replayed, its keyboard has down what the
\* controller takes for held, over captures that are replaced and that die. When all has
\* arrived, that is what the page takes for held, for every key but those in missed: a key
\* whose last change, its release too, came while the capture was being recovered is
\* dropped before the controller notes it (control.go:118), as is Super's with a window's
\* (control.go:156), and a replay presses what was let go of.
HostFollows ==
  hand = AtRest /\ capture # "none" /\ alive /\ replays = 0 =>
    /\ keyboard = heldKeys
    /\ Arrived => \A k \in KeyCode \ missed : k \in keyboard <=> k \in pressed

\* The page's keys, the viewer's and the host's agree, the swallowed and the missed apart.
KeysAgree == LetGoIsSent /\ HostFollows
=============================================================================
