---------------------------- MODULE RemotePointer ----------------------------
(* The mouse and the fingers of a viewer of a remote desktop: its pointer mode,  *)
(* the browser's pointer lock, and the host's left button (apps/web's            *)
(* lib/desktop/input.ts and lib/desktop/trackpad.ts, and desktop-view.tsx, which *)
(* sets their modes). The lock is the browser's: it is asked for and given up by *)
(* the page, taken away by the viewer, and told of by an event that comes later, *)
(* but before the next change. What is sent on the control channel arrives in    *)
(* its order; the host is taken to have it at once.                              *)
EXTENDS Naturals

VARIABLES
  mode,         \* the mouse: "auto", "game" or "desktop"
  gaming,       \* hostCaptured: a game has hidden the host's pointer for a while
  viewOnly,
  locked,       \* document.pointerLockElement is the picture
  wasLocked,
  changed,      \* a pointerlockchange is on its way
  asks,         \* locks that are wanted: after going fullscreen, for a click, by the page itself
  exiting,      \* exitPointerLock has been called
  releasing,
  userReleased,
  mouse,        \* the viewer holds the mouse's left button, pressed on the picture
  grabs,        \* setPointerCapture: the picture hears of its release wherever it is
  pad,          \* the trackpad is enabled
  touch,        \* a finger: up, down with its press sent, on the trackpad, dragging, or of no consequence
  left,         \* the host's left button is down
  lostBy,       \* history: who ended the last lock
  waits,        \* history: the viewer let the mouse go, and has neither clicked nor changed the mode since
  unheard       \* history: a release that the page did not hear of or did not take for one

lockVars == <<locked, wasLocked, changed, asks, exiting, releasing, userReleased, lostBy, waits>>
buttonVars == <<mouse, grabs, touch, left, unheard>>
pointerVars == <<mode, gaming, viewOnly, pad, lockVars, buttonVars>>

PointerInit ==
  /\ mode \in {"auto", "game", "desktop"} /\ gaming = FALSE /\ viewOnly = FALSE /\ pad \in BOOLEAN
  /\ locked = FALSE /\ wasLocked = FALSE /\ changed = FALSE /\ asks = {} /\ exiting = FALSE
  /\ releasing = FALSE /\ userReleased = FALSE /\ lostBy = "nobody" /\ waits = FALSE
  /\ mouse = FALSE /\ grabs = FALSE /\ touch = "up" /\ left = FALSE /\ unheard = FALSE

Relative == mode = "game" \/ (mode = "auto" /\ gaming)

LeftIs(b) == left' = b /\ unheard' = (b /\ unheard)

-----------------------------------------------------------------------------
(* The mode. *)

LetsGo == IF locked THEN exiting' = TRUE /\ releasing' = TRUE ELSE UNCHANGED <<exiting, releasing>>

\* relativeChanged: the page lets the lock go, or in auto may take it (it needs the focus).
RelativeChanged(was, now, auto) ==
  IF was /\ ~now THEN LetsGo /\ UNCHANGED asks
  ELSE /\ UNCHANGED <<exiting, releasing>>
       /\ \/ UNCHANGED asks
          \/ ~was /\ now /\ auto /\ asks' = asks \cup {"page"}

\* The browser lets go, and says so, sooner than the host's pointer or the viewer changes
\* the mode again.
Settled == ~exiting /\ ~changed

\* setHostCaptured, once its timer has fired.
HostPointerChanges ==
  /\ Settled /\ gaming' = ~gaming
  /\ RelativeChanged(Relative, mode = "game" \/ (mode = "auto" /\ gaming'),
                     mode = "auto" /\ ~userReleased /\ ~viewOnly)
  /\ UNCHANGED <<mode, viewOnly, pad, locked, wasLocked, changed, userReleased, lostBy, waits, buttonVars>>

ModeBecomes(m, only) ==
  /\ mode' = m /\ userReleased' = FALSE /\ waits' = FALSE
  /\ RelativeChanged(Relative, m = "game" \/ (m = "auto" /\ gaming), m = "auto" /\ ~only)
  /\ UNCHANGED <<gaming, locked, wasLocked, changed, lostBy>>

\* setMode: by the shortcut, which first lets everything go on the host, or by a button of
\* the page, with the mouse.
SetMode(m) ==
  /\ Settled /\ ~viewOnly /\ m # mode /\ ModeBecomes(m, FALSE)
  /\ \/ LeftIs(FALSE)
     \/ ~mouse /\ UNCHANGED <<left, unheard>>
  /\ UNCHANGED <<viewOnly, pad, mouse, grabs, touch>>

Reset == touch' = IF touch \in {"pad", "drag"} THEN "idle" ELSE touch

\* setViewOnly, and with it the mode, which is the desktop's while it lasts.
StartsViewOnly ==
  /\ Settled /\ ~viewOnly /\ viewOnly' = TRUE /\ LeftIs(FALSE) /\ Reset
  /\ mode' = "desktop" /\ userReleased' = FALSE /\ waits' = FALSE
  /\ exiting' = (exiting \/ locked) /\ releasing' = (releasing \/ (Relative /\ locked))
  /\ UNCHANGED <<gaming, pad, locked, wasLocked, changed, asks, lostBy, mouse, grabs>>

StopsViewOnly ==
  /\ Settled /\ viewOnly /\ viewOnly' = FALSE /\ Reset
  /\ \E m \in {"auto", "game", "desktop"} : ModeBecomes(m, FALSE)
  /\ UNCHANGED <<pad, mouse, grabs, left, unheard>>

-----------------------------------------------------------------------------
(* The lock. *)

\* capture, by a click or the shortcut.
Captures == /\ asks' = asks \cup {"fullscreen"} /\ userReleased' = FALSE /\ waits' = FALSE

WentFullscreen ==
  /\ "fullscreen" \in asks /\ asks' = (asks \ {"fullscreen"}) \cup {"click"}
  /\ UNCHANGED <<mode, gaming, viewOnly, pad, locked, wasLocked, changed, exiting, releasing, userReleased, lostBy, waits, buttonVars>>

Answers(who) ==
  /\ who \in asks /\ asks' = asks \ {who}
  /\ \/ UNCHANGED <<locked, changed>>
     \/ ~exiting /\ ~changed /\ locked' = TRUE /\ changed' = ~locked
  /\ UNCHANGED <<mode, gaming, viewOnly, pad, wasLocked, exiting, releasing, userReleased, lostBy, waits, buttonVars>>

Unlocks(who) ==
  /\ locked /\ ~changed /\ locked' = FALSE /\ changed' = TRUE /\ exiting' = FALSE /\ lostBy' = who
  /\ UNCHANGED <<mode, gaming, viewOnly, pad, wasLocked, asks, releasing, userReleased, waits, buttonVars>>

PageUnlocks == exiting /\ Unlocks(IF lostBy = "shortcut" THEN "viewer" ELSE "page")

\* Esc, another window.
ViewerUnlocks == ~exiting /\ Unlocks("viewer")

\* The shortcut: it lets the lock go, or takes it.
Shortcut ==
  /\ ~viewOnly /\ LeftIs(FALSE)
  /\ IF locked THEN exiting' = TRUE /\ lostBy' = "shortcut" /\ UNCHANGED <<asks, userReleased, waits>>
     ELSE /\ UNCHANGED <<exiting, lostBy>>
          /\ IF Relative THEN Captures ELSE UNCHANGED <<asks, userReleased, waits>>
  /\ UNCHANGED <<mode, gaming, viewOnly, pad, locked, wasLocked, changed, releasing, mouse, grabs, touch>>

\* Fault: what is held stays down when the mouse is captured or let go.
KeepsButton == UNCHANGED <<left, unheard>>

LetsButtonGo == LeftIs(FALSE)

\* Fault: a lock that the page has let go of itself excuses the next one.
MarkStays == releasing

MarkAfter == FALSE

\* onLockChanged.
LockChanged ==
  /\ changed /\ changed' = FALSE
  /\ IF locked = wasLocked THEN UNCHANGED <<wasLocked, releasing, userReleased, waits, left, unheard>>
     ELSE /\ wasLocked' = locked /\ releasing' = MarkAfter /\ LetsButtonGo
          /\ userReleased' = (userReleased \/ (~locked /\ ~releasing /\ Relative))
          /\ waits' = (waits \/ (~locked /\ lostBy = "viewer" /\ Relative))
  /\ UNCHANGED <<mode, gaming, viewOnly, pad, locked, asks, exiting, lostBy, mouse, grabs, touch>>

-----------------------------------------------------------------------------
(* The mouse's left button. *)

\* onButton of a pointerdown.
MouseDown ==
  /\ ~mouse /\ mouse' = TRUE
  /\ IF viewOnly THEN UNCHANGED <<asks, userReleased, waits, grabs, left, unheard>>
     ELSE IF locked THEN LeftIs(TRUE) /\ UNCHANGED <<asks, userReleased, waits, grabs>>
     ELSE IF Relative THEN /\ Captures /\ UNCHANGED grabs
                           /\ IF mode = "auto" THEN LeftIs(TRUE) ELSE UNCHANGED <<left, unheard>>
     ELSE LeftIs(TRUE) /\ grabs' = TRUE /\ UNCHANGED <<asks, userReleased, waits>>
  /\ UNCHANGED <<mode, gaming, viewOnly, pad, locked, wasLocked, changed, exiting, releasing, lostBy, touch>>

\* onButton of a pointerup, or one that another element has.
MouseUp ==
  /\ mouse /\ mouse' = FALSE /\ grabs' = FALSE
  /\ \/ IF ~viewOnly /\ (locked \/ mode # "game") THEN LeftIs(FALSE) ELSE UNCHANGED <<left, unheard>>
     \/ ~locked /\ ~grabs /\ left' = left /\ unheard' = left
  /\ UNCHANGED <<mode, gaming, viewOnly, pad, lockVars, touch>>

-----------------------------------------------------------------------------
(* A finger. *)

\* A touch of the trackpad, or of the picture itself.
FingerDown ==
  /\ touch = "up"
  /\ IF viewOnly THEN touch' = "idle" /\ UNCHANGED <<left, unheard>>
     ELSE IF pad THEN touch' = "pad" /\ UNCHANGED <<left, unheard>>
     ELSE touch' = "direct" /\ LeftIs(TRUE)
  /\ UNCHANGED <<mode, gaming, viewOnly, pad, lockVars, mouse, grabs>>

\* The hold's timer. A finger that moves, or is not alone, has cleared it.
HoldFires ==
  /\ touch = "pad" /\ touch' = "drag" /\ LeftIs(TRUE)
  /\ UNCHANGED <<mode, gaming, viewOnly, pad, lockVars, mouse, grabs>>

\* Fault: the end of a drag is only that of the gesture.
DragGoesOn == {left}

\* What the trackpad leaves of the button once the finger is up: a drag ends, a tap presses
\* and lets go.
AfterTouch == IF touch = "drag" THEN {FALSE} ELSE IF touch = "pad" THEN {left, FALSE} ELSE {left}

\* onEnd, with the trackpad; a pointerup, without.
FingerUp ==
  /\ touch # "up" /\ touch' = "up"
  /\ IF viewOnly THEN UNCHANGED <<left, unheard>>
     ELSE IF pad THEN left' \in AfterTouch /\ unheard' = (left' /\ (unheard \/ touch \in {"direct", "idle"}))
     ELSE LeftIs(FALSE)
  /\ UNCHANGED <<mode, gaming, viewOnly, pad, lockVars, mouse, grabs>>

\* touchcancel and pointercancel.
Cancelled ==
  /\ touch # "up" /\ touch' = "up"
  /\ IF viewOnly THEN UNCHANGED <<left, unheard>> ELSE LeftIs(FALSE)
  /\ UNCHANGED <<mode, gaming, viewOnly, pad, lockVars, mouse, grabs>>

\* setEnabled.
SetsPad ==
  /\ pad' = ~pad /\ Reset
  /\ UNCHANGED <<mode, gaming, viewOnly, lockVars, mouse, grabs, left, unheard>>

\* releaseAll, for a page that is hidden or has lost the focus.
LosesPage ==
  /\ LeftIs(FALSE)
  /\ UNCHANGED <<mode, gaming, viewOnly, pad, lockVars, mouse, grabs, touch>>

-----------------------------------------------------------------------------

PointerNext ==
  \/ HostPointerChanges \/ StartsViewOnly \/ StopsViewOnly \/ \E m \in {"auto", "game", "desktop"} : SetMode(m)
  \/ WentFullscreen \/ PageUnlocks \/ ViewerUnlocks \/ Shortcut \/ LockChanged
  \/ \E who \in {"click", "page"} : Answers(who)
  \/ MouseDown \/ MouseUp \/ FingerDown \/ HoldFires \/ FingerUp \/ Cancelled \/ SetsPad \/ LosesPage

PointerSpec == PointerInit /\ [][PointerNext]_pointerVars

PointerTypeOK ==
  /\ mode \in {"auto", "game", "desktop"}
  /\ {gaming, viewOnly, locked, wasLocked, changed, exiting, releasing, userReleased, mouse, grabs, pad, left,
      waits, unheard} \subseteq BOOLEAN
  /\ asks \subseteq {"fullscreen", "click", "page"}
  /\ touch \in {"up", "direct", "pad", "drag", "idle"}
  /\ lostBy \in {"nobody", "page", "viewer", "shortcut"}

\* The host's button is down only while the viewer holds the mouse or a finger down, over
\* every change of the mode, the lock and the trackpad in between; but for a release that
\* never got to the page's handler as one.
ButtonIsHeld == left /\ ~changed => mouse \/ touch # "up" \/ unheard

\* "The viewer let the mouse go (Esc, the shortcut, another window): auto waits for a
\* click" (input.ts:55).
AutoWaits == [][waits /\ waits' => "page" \notin asks' \ asks]_pointerVars
=============================================================================
