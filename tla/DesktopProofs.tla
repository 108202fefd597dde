---------------------------- MODULE DesktopProofs ----------------------------
(***************************************************************************)
(* Theorems about what a page keeps up with a device: the connection to    *)
(* it, those of its tabs to the device's ports, and its desktop, who is    *)
(* shown it, which keys are down on it, and what the mouse and the fingers *)
(* do there.                                                               *)
(***************************************************************************)
EXTENDS DevicePeer, Tunnel, DesktopSession, RemoteKeys, RemotePointer, FiniteSetTheorems, TLAPS

-----------------------------------------------------------------------------
(* The pointer: a mouse that was let go waits for a click, and no button is   *)
(* down under nothing.                                                        *)

\* A change of the lock that the page has not heard of is on its way, and the page
\* lets go of nothing but a lock that it has.
LockIsKnown == (changed <=> locked # wasLocked) /\ (exiting => locked)

\* The page lets go of the lock itself only where the mode does not want it, and the
\* mark is gone with the lock.
LetGoByMode == releasing => ~Relative /\ ~Settled

\* A mouse that the viewer let go is marked as let go.
LetGoIsMarked == waits => userReleased

\* What holds the button down: a touch of the picture or a drag, a release that was not
\* taken for one, or a mouse whose release will be; nothing in view only.
PressIsHeld ==
  /\ viewOnly => ~left /\ touch \notin {"pad", "drag"}
  /\ left /\ ~changed /\ touch \in {"up", "pad"} /\ ~unheard => mouse /\ (mode # "game" \/ locked)

PointerInv == PointerTypeOK /\ LockIsKnown /\ LetGoByMode /\ LetGoIsMarked /\ PressIsHeld

LEMMA PointerInitInv == PointerInit => PointerInv
BY DEF PointerInit, PointerInv, PointerTypeOK, LockIsKnown, LetGoByMode, LetGoIsMarked, PressIsHeld

LEMMA LeftIsTyped == ASSUME NEW b \in BOOLEAN, LeftIs(b) PROVE left' = b /\ left' \in BOOLEAN /\ unheard' \in BOOLEAN
BY DEF LeftIs

LEMMA ChangedTyped ==
  ASSUME PointerTypeOK, NEW was, NEW now, NEW auto, RelativeChanged(was, now, auto)
  PROVE  /\ exiting' \in BOOLEAN /\ releasing' \in BOOLEAN
         /\ asks' \subseteq {"fullscreen", "click", "page"}
<1>1. exiting \in BOOLEAN /\ releasing \in BOOLEAN /\ asks \subseteq {"fullscreen", "click", "page"}
  BY DEF PointerTypeOK
<1>2. exiting' \in BOOLEAN /\ releasing' \in BOOLEAN
  BY <1>1 DEF RelativeChanged, LetsGo
<1>3. asks' \subseteq {"fullscreen", "click", "page"}
  BY <1>1 DEF RelativeChanged
<1>4. QED
  BY <1>2, <1>3

LEMMA PointerTypeStep == PointerInv /\ [PointerNext]_pointerVars => PointerTypeOK'
<1> SUFFICES ASSUME PointerInv, [PointerNext]_pointerVars PROVE PointerTypeOK'
  OBVIOUS
<1> USE DEF PointerInv
<1>1. CASE HostPointerChanges
  <2>1. exiting' \in BOOLEAN /\ releasing' \in BOOLEAN /\ asks' \subseteq {"fullscreen", "click", "page"}
    BY <1>1, ChangedTyped DEF HostPointerChanges
  <2>2. gaming' \in BOOLEAN
    BY <1>1 DEF HostPointerChanges, PointerTypeOK
  <2>3. QED
    BY <1>1, <2>1, <2>2 DEF HostPointerChanges, PointerTypeOK, buttonVars
<1>2. CASE StartsViewOnly
  BY <1>2, ZenonT(30) DEF PointerTypeOK, StartsViewOnly, LeftIs, Reset
<1>3. CASE StopsViewOnly
  BY <1>3 DEF PointerTypeOK, StopsViewOnly, ModeBecomes, RelativeChanged, LetsGo, Reset
<1>4. CASE \E m \in {"auto", "game", "desktop"} : SetMode(m)
  BY <1>4 DEF PointerTypeOK, SetMode, ModeBecomes, RelativeChanged, LetsGo, LeftIs
<1>5. CASE WentFullscreen
  BY <1>5 DEF PointerTypeOK, WentFullscreen, buttonVars
<1>6. CASE PageUnlocks \/ ViewerUnlocks
  BY <1>6 DEF PointerTypeOK, PageUnlocks, ViewerUnlocks, Unlocks, buttonVars
<1>7. CASE Shortcut
  <2>1. left' \in BOOLEAN /\ unheard' \in BOOLEAN
    BY <1>7, LeftIsTyped DEF Shortcut
  <2>2. asks' \subseteq {"fullscreen", "click", "page"} /\ exiting' \in BOOLEAN /\ userReleased' \in BOOLEAN /\ waits' \in BOOLEAN
        /\ lostBy' \in {"nobody", "page", "viewer", "shortcut"}
    BY <1>7 DEF Shortcut, PointerTypeOK, Captures
  <2>3. QED
    BY <1>7, <2>1, <2>2 DEF Shortcut, PointerTypeOK
<1>8. CASE LockChanged
  <2>1. left' \in BOOLEAN /\ unheard' \in BOOLEAN /\ releasing' \in BOOLEAN /\ wasLocked' \in BOOLEAN /\ changed' \in BOOLEAN
    BY <1>8 DEF LockChanged, LetsButtonGo, LeftIs, MarkAfter, PointerTypeOK
  <2>2. userReleased' \in BOOLEAN
    BY <1>8 DEF LockChanged, PointerTypeOK
  <2>3. waits' \in BOOLEAN
    BY <1>8 DEF LockChanged, PointerTypeOK
  <2>4. QED
    BY <1>8, <2>1, <2>2, <2>3 DEF LockChanged, PointerTypeOK
<1>9. CASE \E who \in {"click", "page"} : Answers(who)
  BY <1>9 DEF PointerTypeOK, Answers, buttonVars
<1>10. CASE MouseDown
  <2>1. left' \in BOOLEAN /\ unheard' \in BOOLEAN
    BY <1>10, LeftIsTyped DEF MouseDown, PointerTypeOK
  <2>2. asks' \subseteq {"fullscreen", "click", "page"} /\ userReleased' \in BOOLEAN /\ waits' \in BOOLEAN /\ grabs' \in BOOLEAN /\ mouse' \in BOOLEAN
    BY <1>10 DEF MouseDown, PointerTypeOK, Captures
  <2>3. QED
    BY <1>10, <2>1, <2>2 DEF MouseDown, PointerTypeOK
<1>11. CASE MouseUp
  BY <1>11 DEF PointerTypeOK, MouseUp, LeftIs, lockVars
<1>12. CASE FingerDown \/ HoldFires
  BY <1>12 DEF PointerTypeOK, FingerDown, HoldFires, LeftIs, lockVars
<1>13. CASE FingerUp \/ Cancelled
  <2>1. left' \in BOOLEAN /\ unheard' \in BOOLEAN
    <3>1. CASE viewOnly \/ Cancelled
      BY <1>13, <3>1, LeftIsTyped DEF FingerUp, Cancelled, PointerTypeOK
    <3>2. CASE FingerUp /\ ~viewOnly /\ ~pad
      BY <3>2, LeftIsTyped DEF FingerUp
    <3>3. CASE FingerUp /\ ~viewOnly /\ pad
      <4>1. AfterTouch \subseteq BOOLEAN
        BY <1>13 DEF AfterTouch, PointerTypeOK
      <4>2. unheard' = (left' /\ (unheard \/ touch \in {"direct", "idle"}))
        BY <3>3 DEF FingerUp
      <4>3. QED
        BY <3>3, <4>1, <4>2 DEF FingerUp
    <3>4. QED
      BY <1>13, <3>1, <3>2, <3>3
  <2>2. touch' = "up"
    BY <1>13 DEF FingerUp, Cancelled
  <2>3. QED
    BY <1>13, <2>1, <2>2 DEF FingerUp, Cancelled, PointerTypeOK, lockVars
<1>14. CASE SetsPad \/ LosesPage
  BY <1>14 DEF PointerTypeOK, SetsPad, LosesPage, Reset, LeftIs, lockVars
<1>15. CASE UNCHANGED pointerVars
  BY <1>15 DEF PointerTypeOK, pointerVars, lockVars, buttonVars
<1>16. QED
  BY <1>1, <1>2, <1>3, <1>4, <1>5, <1>6, <1>7, <1>8, <1>9, <1>10, <1>11, <1>12, <1>13, <1>14, <1>15, Zenon DEF PointerNext

\* A step that touches neither the mode nor the lock leaves what is known of them.
LEMMA LockStep == PointerInv /\ [PointerNext]_pointerVars => (LockIsKnown /\ LetGoByMode /\ LetGoIsMarked)'
<1> SUFFICES ASSUME PointerInv, [PointerNext]_pointerVars PROVE (LockIsKnown /\ LetGoByMode /\ LetGoIsMarked)'
  OBVIOUS
<1> USE DEF PointerInv, PointerTypeOK, LockIsKnown, LetGoByMode, LetGoIsMarked
<1>1. CASE HostPointerChanges
  BY <1>1 DEF HostPointerChanges, Settled, RelativeChanged, LetsGo, Relative, buttonVars
<1>2. CASE StartsViewOnly
  BY <1>2 DEF StartsViewOnly, Settled, Relative, LeftIs, Reset
<1>3. CASE StopsViewOnly
  BY <1>3 DEF StopsViewOnly, Settled, Relative, ModeBecomes, RelativeChanged, LetsGo, Reset
<1>4. CASE \E m \in {"auto", "game", "desktop"} : SetMode(m)
  BY <1>4 DEF SetMode, Settled, Relative, ModeBecomes, RelativeChanged, LetsGo, LeftIs
<1>5. CASE WentFullscreen
  BY <1>5 DEF WentFullscreen, Settled, Relative, buttonVars
<1>6. CASE PageUnlocks \/ ViewerUnlocks
  BY <1>6 DEF PageUnlocks, ViewerUnlocks, Unlocks, Settled, Relative, buttonVars
<1>7. CASE Shortcut
  BY <1>7 DEF Shortcut, Settled, Relative, Captures, LeftIs
<1>8. CASE LockChanged
  BY <1>8 DEF LockChanged, Settled, Relative, LeftIs, LetsButtonGo, MarkAfter
<1>9. CASE \E who \in {"click", "page"} : Answers(who)
  <2>1. LetGoIsMarked'
    BY <1>9 DEF Answers
  <2>2. CASE UNCHANGED <<locked, changed>>
    BY <1>9, <2>2 DEF Answers, Settled, Relative
  <2>3. CASE ~exiting /\ ~changed /\ locked' = TRUE /\ changed' = ~locked
    <3>1. ~releasing /\ releasing' = releasing /\ exiting' = exiting
      BY <1>9, <2>3 DEF Answers, Settled
    <3>2. wasLocked' = wasLocked /\ wasLocked = locked
      BY <1>9, <2>3 DEF Answers
    <3>3. changed' <=> locked' # wasLocked'
      BY <2>3, <3>2
    <3>4. QED
      BY <2>1, <2>3, <3>1, <3>3
  <2>4. QED
    BY <1>9, <2>2, <2>3 DEF Answers
<1>10. CASE MouseDown
  BY <1>10 DEF MouseDown, Settled, Relative, Captures, LeftIs
<1>11. CASE MouseUp \/ FingerDown \/ HoldFires \/ FingerUp \/ Cancelled \/ SetsPad \/ LosesPage \/ UNCHANGED pointerVars
  <2>1. UNCHANGED <<mode, gaming, lockVars>>
    BY <1>11 DEF MouseUp, FingerDown, HoldFires, FingerUp, Cancelled, SetsPad, LosesPage, pointerVars
  <2>2. QED
    BY <2>1 DEF lockVars, Settled, Relative
<1>12. QED
  BY <1>1, <1>2, <1>3, <1>4, <1>5, <1>6, <1>7, <1>8, <1>9, <1>10, <1>11, Zenon DEF PointerNext

LEMMA PressStep == PointerInv /\ [PointerNext]_pointerVars => PressIsHeld'
<1> SUFFICES ASSUME PointerInv, [PointerNext]_pointerVars PROVE PressIsHeld'
  OBVIOUS
<1> USE DEF PointerInv, PointerTypeOK, LockIsKnown, PressIsHeld
<1>1. CASE HostPointerChanges
  BY <1>1 DEF HostPointerChanges, RelativeChanged, LetsGo, buttonVars
<1>2. CASE StartsViewOnly
  BY <1>2 DEF StartsViewOnly, LeftIs, Reset
<1>3. CASE StopsViewOnly
  BY <1>3 DEF StopsViewOnly, ModeBecomes, RelativeChanged, LetsGo, Reset
<1>4. CASE \E m \in {"auto", "game", "desktop"} : SetMode(m)
  BY <1>4 DEF SetMode, ModeBecomes, RelativeChanged, LetsGo, LeftIs
<1>5. CASE WentFullscreen
  BY <1>5 DEF WentFullscreen, buttonVars
<1>6. CASE PageUnlocks \/ ViewerUnlocks
  BY <1>6 DEF PageUnlocks, ViewerUnlocks, Unlocks, buttonVars
<1>7. CASE Shortcut
  BY <1>7 DEF Shortcut, Captures, LeftIs
<1>8. CASE LockChanged
  BY <1>8 DEF LockChanged, LeftIs, LetsButtonGo, MarkAfter
<1>9. CASE \E who \in {"click", "page"} : Answers(who)
  BY <1>9 DEF Answers, buttonVars
<1>10. CASE MouseDown
  BY <1>10 DEF MouseDown, Relative, Captures, LeftIs
<1>11. CASE MouseUp
  BY <1>11 DEF MouseUp, LeftIs, lockVars
<1>12. CASE FingerDown \/ HoldFires
  BY <1>12 DEF FingerDown, HoldFires, LeftIs, lockVars
<1>13. CASE FingerUp \/ Cancelled
  <2>1. UNCHANGED <<mode, viewOnly, locked, changed, mouse>> /\ touch' = "up"
    BY <1>13 DEF FingerUp, Cancelled, lockVars
  <2>2. CASE viewOnly
    BY <1>13, <2>1, <2>2 DEF FingerUp, Cancelled
  <2>3. CASE ~viewOnly /\ (Cancelled \/ ~pad \/ touch = "drag")
    <3>1. left' = FALSE
      BY <1>13, <2>3 DEF FingerUp, Cancelled, LeftIs, AfterTouch
    <3>2. QED
      BY <2>1, <2>3, <3>1
  <2>4. CASE ~viewOnly /\ FingerUp /\ pad /\ touch = "pad"
    <3>1. left' => left
      BY <2>4 DEF FingerUp, AfterTouch
    <3>2. left' /\ unheard => unheard'
      BY <2>4 DEF FingerUp
    <3>3. QED
      BY <2>1, <2>4, <3>1, <3>2
  <2>5. CASE ~viewOnly /\ FingerUp /\ pad /\ touch \in {"direct", "idle"}
    <3>1. left' => unheard'
      BY <2>5 DEF FingerUp, AfterTouch
    <3>2. QED
      BY <2>1, <2>5, <3>1
  <2>6. touch # "up"
    BY <1>13 DEF FingerUp, Cancelled
  <2>7. QED
    BY <1>13, <2>2, <2>3, <2>4, <2>5, <2>6
<1>14. CASE SetsPad \/ LosesPage
  BY <1>14 DEF SetsPad, LosesPage, Reset, LeftIs, lockVars
<1>15. CASE UNCHANGED pointerVars
  BY <1>15 DEF pointerVars, lockVars, buttonVars
<1>16. QED
  BY <1>1, <1>2, <1>3, <1>4, <1>5, <1>6, <1>7, <1>8, <1>9, <1>10, <1>11, <1>12, <1>13, <1>14, <1>15, Zenon DEF PointerNext

LEMMA PointerStepInv == PointerInv /\ [PointerNext]_pointerVars => PointerInv'
BY PointerTypeStep, LockStep, PressStep DEF PointerInv

(***************************************************************************)
(* The mode, the lock and the button agree on who holds what.              *)
(***************************************************************************)
THEOREM PointerInvariant == PointerSpec => []PointerInv
<1>1. QED
  BY PointerInitInv, PointerStepInv, PTL DEF PointerSpec

(* The host's button is down only while the viewer holds the mouse or a finger *)
(* down, over every change of the mode, the lock and the trackpad in between.  *)
THEOREM PointerButtonIsHeld == PointerSpec => []ButtonIsHeld
<1>1. PointerInv => ButtonIsHeld
  BY DEF PointerInv, PointerTypeOK, PressIsHeld, ButtonIsHeld
<1>2. QED
  BY <1>1, PointerInvariant, PTL

(* Once the viewer has let the mouse go, the page does not take it by itself. *)
THEOREM PointerAutoWaits == PointerSpec => AutoWaits
<1>1. PointerInv /\ [PointerNext]_pointerVars => [waits /\ waits' => "page" \notin asks' \ asks]_pointerVars
  <2> SUFFICES ASSUME PointerInv, PointerNext, waits, waits' PROVE "page" \notin asks' \ asks
    OBVIOUS
  <2>1. userReleased
    BY DEF PointerInv, LetGoIsMarked
  <2>2. CASE HostPointerChanges
    BY <2>1, <2>2 DEF HostPointerChanges, RelativeChanged, LetsGo
  <2>3. CASE StartsViewOnly \/ StopsViewOnly \/ \E m \in {"auto", "game", "desktop"} : SetMode(m)
    BY <2>3 DEF StartsViewOnly, StopsViewOnly, SetMode, ModeBecomes
  <2>4. CASE PageUnlocks \/ ViewerUnlocks \/ LockChanged
    BY <2>4 DEF PageUnlocks, ViewerUnlocks, Unlocks, LockChanged
  <2>5. CASE WentFullscreen \/ \E who \in {"click", "page"} : Answers(who)
    BY <2>5 DEF WentFullscreen, Answers
  <2>6. CASE Shortcut \/ MouseDown
    BY <2>6 DEF Shortcut, MouseDown, Captures
  <2>7. CASE MouseUp \/ FingerDown \/ HoldFires \/ FingerUp \/ Cancelled \/ SetsPad \/ LosesPage
    BY <2>7 DEF MouseUp, FingerDown, HoldFires, FingerUp, Cancelled, SetsPad, LosesPage, lockVars
  <2>8. QED
    BY <2>2, <2>3, <2>4, <2>5, <2>6, <2>7 DEF PointerNext
<1>2. QED
  BY <1>1, PointerInvariant, PTL DEF PointerSpec, AutoWaits

-----------------------------------------------------------------------------
(* The keys: what the page takes for held is held by the viewer and down on   *)
(* the host.                                                                  *)

\* A picture without the keyboard holds nothing.
HoldsWithFocus == ~focused => pressed = {}

\* The last message on its way about a key says whether the page holds it; where there
\* is none, the controller knows it.
Tells(m, k) == m.t = "all" \/ m.k = k
SaysLast(w, i, k) == Tells(w[i], k) /\ \A j \in DOMAIN w : j > i => ~Tells(w[j], k)
WireTells ==
  \A k \in KeyCode :
    /\ (\A i \in DOMAIN wire : ~Tells(wire[i], k)) => k \in missed \/ (k \in heldKeys <=> k \in pressed)
    /\ \A i \in DOMAIN wire : SaysLast(wire, i, k) => (wire[i].t = "down" <=> k \in pressed)

\* What the keyboard comes to once the write under way is done.
Written ==
  IF hand = AtRest \/ hand.to = "lost" \/ ~alive THEN keyboard
  ELSE CASE hand.t = "down" -> keyboard \cup {hand.k} [] hand.t = "up" -> keyboard \ {hand.k}
         [] hand.t = "all" -> {} [] hand.t = "replay" -> keyboard \cup heldKeys

\* The keyboard has no key that the controller does not hold, and all of those once the
\* keys of each capture are replayed; a capture that is gone has none.
KeyboardFollows ==
  /\ Written \subseteq heldKeys
  /\ capture # "none" /\ alive /\ replays = 0 => Written = heldKeys
  /\ ~alive => keyboard = {}
  /\ capture = "none" => ~alive /\ (hand = AtRest \/ hand.to = "lost")
  /\ hand.to = "lost" => capture = "none" \/ replays > 0
  /\ hand # AtRest => hand.t # "idle" /\ hand.to # "none"
  /\ hand.t \in {"down", "up"} => hand.k \in KeyCode

KeysInv == KeysTypeOK /\ HoldsWithFocus /\ LetGoIsSent /\ WireTells /\ KeyboardFollows

LEMMA Messages ==
  /\ All \in KeyMessage /\ \A k \in KeyCode : KeyDown(k) \in KeyMessage /\ KeyUp(k) \in KeyMessage
  /\ \A k \in KeyCode : Tells(All, k) /\ All.t = "all"
  /\ \A k, l \in KeyCode : /\ KeyDown(k).t = "down" /\ KeyUp(k).t = "up"
                           /\ Tells(KeyDown(k), l) <=> l = k
                           /\ Tells(KeyUp(k), l) <=> l = k
BY DEF All, KeyDown, KeyUp, KeyMessage, KeyCode, NoKey, Tells

LEMMA AppendedWire ==
  ASSUME wire \in Seq(KeyMessage), NEW ms \in Seq(KeyMessage), wire' = wire \o ms
  PROVE  /\ wire' \in Seq(KeyMessage) /\ Len(wire') = Len(wire) + Len(ms)
         /\ \A i \in 1 .. Len(wire) : wire'[i] = wire[i]
         /\ \A i \in 1 .. Len(ms) : wire'[Len(wire) + i] = ms[i]
OBVIOUS

\* What is sent tells of every key that the page takes or lets go.
LEMMA SentTells ==
  ASSUME KeysTypeOK, WireTells, NEW ms \in Seq(KeyMessage), wire' = wire \o ms, UNCHANGED <<heldKeys, missed>>,
         \A k \in KeyCode : (\A i \in 1 .. Len(ms) : ~Tells(ms[i], k)) => (k \in pressed' <=> k \in pressed),
         \A k \in KeyCode : \A i \in 1 .. Len(ms) : SaysLast(ms, i, k) => (ms[i].t = "down" <=> k \in pressed')
  PROVE  WireTells'
<1>1. /\ wire \in Seq(KeyMessage) /\ wire' \in Seq(KeyMessage) /\ Len(wire') = Len(wire) + Len(ms)
      /\ \A i \in 1 .. Len(wire) : wire'[i] = wire[i]
      /\ \A i \in 1 .. Len(ms) : wire'[Len(wire) + i] = ms[i]
  BY AppendedWire DEF KeysTypeOK
<1>2. /\ Len(wire) \in Nat /\ Len(ms) \in Nat /\ DOMAIN wire = 1 .. Len(wire) /\ DOMAIN ms = 1 .. Len(ms)
      /\ DOMAIN wire' = 1 .. (Len(wire) + Len(ms))
  BY <1>1
<1> SUFFICES ASSUME NEW k \in KeyCode
             PROVE  /\ (\A i \in DOMAIN wire' : ~Tells(wire'[i], k)) => k \in missed' \/ (k \in heldKeys' <=> k \in pressed')
                    /\ \A i \in DOMAIN wire' : SaysLast(wire', i, k) => (wire'[i].t = "down" <=> k \in pressed')
  BY DEF WireTells
<1>3. ASSUME \A i \in DOMAIN wire' : ~Tells(wire'[i], k)
      PROVE  k \in missed' \/ (k \in heldKeys' <=> k \in pressed')
  <2>1. \A i \in 1 .. Len(wire) : ~Tells(wire[i], k)
    BY <1>1, <1>2, <1>3
  <2>2. \A i \in 1 .. Len(ms) : ~Tells(ms[i], k)
    BY <1>1, <1>2, <1>3
  <2>3. QED
    BY <1>2, <2>1, <2>2 DEF WireTells
<1>4. ASSUME NEW i \in DOMAIN wire', SaysLast(wire', i, k)
      PROVE  wire'[i].t = "down" <=> k \in pressed'
  <2>1. CASE i <= Len(wire)
    <3>1. \A j \in 1 .. Len(ms) : ~Tells(ms[j], k)
      <4>1. ASSUME NEW j \in 1 .. Len(ms) PROVE ~Tells(ms[j], k)
        <5>1. Len(wire) + j \in DOMAIN wire' /\ Len(wire) + j > i
          BY <1>2, <2>1
        <5>2. QED
          BY <1>1, <1>4, <5>1 DEF SaysLast
      <4>2. QED
        BY <4>1
    <3>2. i \in DOMAIN wire /\ wire'[i] = wire[i]
      BY <1>1, <1>2, <2>1
    <3>3. SaysLast(wire, i, k)
      <4>1. \A j \in DOMAIN wire : j \in DOMAIN wire' /\ wire'[j] = wire[j]
        BY <1>1, <1>2
      <4>2. QED
        BY <1>4, <3>2, <4>1 DEF SaysLast
    <3>4. QED
      BY <3>1, <3>2, <3>3 DEF WireTells
  <2>2. CASE i > Len(wire)
    <3>1. PICK n \in 1 .. Len(ms) : i = Len(wire) + n
      <4>1. i - Len(wire) \in 1 .. Len(ms) /\ i = Len(wire) + (i - Len(wire))
        BY <1>2, <2>2
      <4>2. QED
        BY <4>1
    <3>2. SaysLast(ms, n, k)
      <4>1. ASSUME NEW j \in DOMAIN ms, j > n PROVE ~Tells(ms[j], k)
        <5>1. Len(wire) + j \in DOMAIN wire' /\ Len(wire) + j > i
          BY <1>2, <3>1, <4>1
        <5>2. QED
          BY <1>1, <1>2, <1>4, <5>1 DEF SaysLast
      <4>2. Tells(ms[n], k)
        BY <1>1, <1>4, <3>1 DEF SaysLast
      <4>3. QED
        BY <4>1, <4>2 DEF SaysLast
    <3>3. QED
      BY <1>1, <3>1, <3>2
  <2>3. QED
    BY <1>2, <2>1, <2>2
<1>5. QED
  BY <1>3, <1>4

\* What the host does with the first of them tells the controller, or is missed.
LEMMA ReceivedTells ==
  ASSUME KeysTypeOK, WireTells, wire # <<>>, wire' = Tail(wire), UNCHANGED pressed,
         \A k \in KeyCode : ~Tells(wire[1], k) => (k \in heldKeys' <=> k \in heldKeys) /\ (k \in missed => k \in missed'),
         \A k \in KeyCode : Tells(wire[1], k) => k \in missed' \/ (k \in heldKeys' <=> wire[1].t = "down")
  PROVE  WireTells'
<1>1. /\ wire \in Seq(KeyMessage) /\ Len(wire) \in Nat /\ Len(wire) > 0 /\ DOMAIN wire = 1 .. Len(wire)
      /\ wire' \in Seq(KeyMessage) /\ Len(wire') = Len(wire) - 1 /\ DOMAIN wire' = 1 .. (Len(wire) - 1)
      /\ \A i \in 1 .. (Len(wire) - 1) : wire'[i] = wire[i + 1]
  BY DEF KeysTypeOK
<1> SUFFICES ASSUME NEW k \in KeyCode
             PROVE  /\ (\A i \in DOMAIN wire' : ~Tells(wire'[i], k)) => k \in missed' \/ (k \in heldKeys' <=> k \in pressed')
                    /\ \A i \in DOMAIN wire' : SaysLast(wire', i, k) => (wire'[i].t = "down" <=> k \in pressed')
  BY DEF WireTells
<1>2. \A j \in DOMAIN wire : j > 1 => j - 1 \in DOMAIN wire' /\ wire'[j - 1] = wire[j]
  <2>1. ASSUME NEW j \in DOMAIN wire, j > 1 PROVE j - 1 \in DOMAIN wire' /\ wire'[j - 1] = wire[j]
    <3>1. j - 1 \in 1 .. (Len(wire) - 1) /\ (j - 1) + 1 = j
      BY <1>1, <2>1
    <3>2. QED
      BY <1>1, <3>1
  <2>2. QED
    BY <2>1
<1>3. ASSUME \A i \in DOMAIN wire' : ~Tells(wire'[i], k)
      PROVE  k \in missed' \/ (k \in heldKeys' <=> k \in pressed')
  <2>1. \A j \in DOMAIN wire : j > 1 => ~Tells(wire[j], k)
    BY <1>2, <1>3
  <2>2. CASE Tells(wire[1], k)
    <3>1. SaysLast(wire, 1, k) /\ 1 \in DOMAIN wire
      BY <1>1, <2>1, <2>2 DEF SaysLast
    <3>2. wire[1].t = "down" <=> k \in pressed
      BY <3>1 DEF WireTells
    <3>3. QED
      BY <2>2, <3>2
  <2>3. CASE ~Tells(wire[1], k)
    <3>1. \A j \in DOMAIN wire : ~Tells(wire[j], k)
      BY <1>1, <2>1, <2>3
    <3>2. QED
      BY <2>3, <3>1 DEF WireTells
  <2>4. QED
    BY <2>2, <2>3
<1>4. ASSUME NEW i \in DOMAIN wire', SaysLast(wire', i, k)
      PROVE  wire'[i].t = "down" <=> k \in pressed'
  <2>1. i + 1 \in DOMAIN wire /\ wire'[i] = wire[i + 1]
    BY <1>1
  <2>2. ASSUME NEW j \in DOMAIN wire, j > i + 1 PROVE ~Tells(wire[j], k)
    <3>1. j > 1 /\ j - 1 > i
      BY <1>1, <2>2
    <3>2. QED
      BY <1>2, <1>4, <3>1 DEF SaysLast
  <2>3. SaysLast(wire, i + 1, k)
    BY <1>4, <2>1, <2>2 DEF SaysLast
  <2>4. QED
    BY <2>1, <2>3 DEF WireTells
<1>5. QED
  BY <1>3, <1>4

LEMMA KeysInitInv == KeysInit => KeysInv
<1> SUFFICES ASSUME KeysInit PROVE KeysInv
  OBVIOUS
<1>1. KeysTypeOK
  BY KeysAssumption DEF KeysInit, KeysTypeOK, AtRest, KeyMessage
<1>2. HoldsWithFocus /\ LetGoIsSent /\ WireTells
  BY DEF KeysInit, HoldsWithFocus, LetGoIsSent, WireTells
<1>3. KeyboardFollows
  BY DEF KeysInit, KeyboardFollows, Written, AtRest
<1>4. QED
  BY <1>1, <1>2, <1>3 DEF KeysInv

LEMMA SendsTyped ==
  ASSUME KeysTypeOK, NEW ms \in Seq(KeyMessage), SendsKeys(ms)
  PROVE  wire' \in Seq(KeyMessage) /\ Len(wire') <= MaxWire /\ wire' = wire \o ms
<1>1. wire \in Seq(KeyMessage) /\ wire' = wire \o ms /\ Len(wire) + Len(ms) <= MaxWire
  BY DEF KeysTypeOK, SendsKeys
<1>2. wire' \in Seq(KeyMessage) /\ Len(wire') = Len(wire) + Len(ms)
  BY <1>1
<1>3. QED
  BY <1>1, <1>2

\* What the page sends: nothing, or one or two messages of the keys it has.
LEMMA PressSends ==
  ASSUME NEW k \in KeyCode, Presses(k)
  PROVE  \/ UNCHANGED <<pressed, swallowed, wire>> /\ ~focused
         \/ ReleasesAll
         \/ SendsKeys(<<KeyDown(k), KeyUp(k)>>) /\ pressed' = pressed \ {k} /\ swallowed' = swallowed \ {k}
         \/ SendsKeys(<<KeyDown(k)>>) /\ pressed' = pressed \cup {k} /\ UNCHANGED swallowed /\ focused
BY DEF Presses

LEMMA ReleaseSends ==
  ASSUME NEW k \in KeyCode, Releases(k)
  PROVE  \/ UNCHANGED <<pressed, wire>>
         \/ SendsKeys(<<KeyUp(k), KeyUp("letter")>>) /\ pressed' = pressed \ {k, "letter"}
         \/ SendsKeys(<<KeyUp(k)>>) /\ pressed' = pressed \ {k}
<1>1. CASE ~focused \/ (mac /\ k = "letter" /\ "meta" \in fingers) \/ (k = "letter" /\ "mods" \in fingers)
  BY <1>1 DEF Releases
<1>2. CASE ~(~focused \/ (mac /\ k = "letter" /\ "meta" \in fingers) \/ (k = "letter" /\ "mods" \in fingers))
  <2>1. /\ pressed' = pressed \ GoesUpWith(k)
        /\ SendsKeys(IF "letter" \in GoesUpWith(k) \ {k} THEN <<KeyUp(k), KeyUp("letter")>> ELSE <<KeyUp(k)>>)
    BY <1>2 DEF Releases
  <2>2. CASE "letter" \in GoesUpWith(k) \ {k}
    <3>1. GoesUpWith(k) = {k, "letter"}
      BY <2>2 DEF GoesUpWith
    <3>2. QED
      BY <2>1, <2>2, <3>1
  <2>3. CASE "letter" \notin GoesUpWith(k) \ {k}
    <3>1. GoesUpWith(k) = {k}
      BY <2>3 DEF GoesUpWith
    <3>2. QED
      BY <2>1, <2>3, <3>1
  <2>4. QED
    BY <2>2, <2>3
<1>3. QED
  BY <1>1, <1>2

LEMMA Sequences ==
  ASSUME NEW k \in KeyCode
  PROVE  /\ <<All>> \in Seq(KeyMessage) /\ <<KeyDown(k)>> \in Seq(KeyMessage) /\ <<KeyUp(k)>> \in Seq(KeyMessage)
         /\ <<KeyDown(k), KeyUp(k)>> \in Seq(KeyMessage) /\ <<KeyUp(k), KeyUp("letter")>> \in Seq(KeyMessage)
<1>1. "letter" \in KeyCode
  BY DEF KeyCode
<1>2. /\ All \in KeyMessage /\ KeyDown(k) \in KeyMessage /\ KeyUp(k) \in KeyMessage /\ KeyUp("letter") \in KeyMessage
  BY <1>1, Messages
<1>3. QED
  BY <1>2

LEMMA LoseTyped ==
  ASSUME KeysTypeOK, LoseKeyboard
  PROVE  /\ keyboard' = {} /\ (hand' = AtRest <=> hand = AtRest) /\ (hand = AtRest => hand' = hand)
         /\ hand # AtRest => hand'.to = "lost" /\ hand'.t = hand.t /\ hand'.k = hand.k
         /\ hand' \in [t : {"idle", "down", "up", "all", "replay"}, k : KeyCode \cup {NoKey}, to : {"none", "current", "lost"}]
BY DEF LoseKeyboard, KeysTypeOK, AtRest

LEMMA KeysTypeStep == KeysInv /\ [KeysNext]_keysVars => KeysTypeOK'
<1> SUFFICES ASSUME KeysTypeOK, KeyboardFollows, [KeysNext]_keysVars PROVE KeysTypeOK'
  BY DEF KeysInv
<1>0. ReleasesAll => wire' \in Seq(KeyMessage) /\ Len(wire') <= MaxWire /\ pressed' = {} /\ swallowed' = {}
  <2>1. "meta" \in KeyCode
    BY DEF KeyCode
  <2>2. QED
    BY <2>1, Sequences, SendsTyped DEF ReleasesAll
<1>1. ASSUME NEW k \in KeyCode, Presses(k) PROVE KeysTypeOK'
  <2>1. /\ wire' \in Seq(KeyMessage) /\ Len(wire') <= MaxWire
        /\ pressed' \subseteq KeyCode /\ swallowed' \subseteq KeyCode
    BY <1>0, <1>1, PressSends, Sequences, SendsTyped DEF KeysTypeOK
  <2>2. QED
    BY <1>1, <2>1 DEF Presses, KeysTypeOK, captureVars
<1>2. ASSUME NEW k \in KeyCode, Releases(k) PROVE KeysTypeOK'
  <2>1. wire' \in Seq(KeyMessage) /\ Len(wire') <= MaxWire /\ pressed' \subseteq KeyCode
    BY <1>2, ReleaseSends, Sequences, SendsTyped DEF KeysTypeOK
  <2>2. swallowed' \subseteq KeyCode
    BY <1>2 DEF Releases, KeysTypeOK
  <2>3. QED
    BY <1>2, <2>1, <2>2 DEF Releases, KeysTypeOK, captureVars
<1>3. CASE LosesFocus \/ GetsFocus \/ LetsAllGo
  BY <1>0, <1>3 DEF LosesFocus, GetsFocus, LetsAllGo, KeysTypeOK, captureVars
<1>4. CASE Applies
  <2>1. wire # <<>> /\ wire' = Tail(wire) /\ wire \in Seq(KeyMessage) /\ Len(wire) <= MaxWire /\ MaxWire \in Nat
    BY <1>4, KeysAssumption DEF Applies, KeysTypeOK
  <2>2. wire' \in Seq(KeyMessage) /\ Len(wire') <= MaxWire /\ Head(wire) \in KeyMessage
    BY <2>1
  <2>3. HeldAfter(Head(wire)) \subseteq KeyCode /\ About(Head(wire)) \subseteq KeyCode
    BY <2>2 DEF HeldAfter, About, KeyMessage, KeysTypeOK, KeyCode
  <2>4. [t |-> Head(wire).t, k |-> Head(wire).k, to |-> "current"]
          \in [t : {"idle", "down", "up", "all", "replay"}, k : KeyCode \cup {NoKey}, to : {"none", "current", "lost"}]
    BY <2>2 DEF KeyMessage
  <2>5. heldKeys' \subseteq KeyCode /\ missed' \subseteq KeyCode
        /\ hand' \in [t : {"idle", "down", "up", "all", "replay"}, k : KeyCode \cup {NoKey}, to : {"none", "current", "lost"}]
    BY <1>4, <2>3, <2>4 DEF Applies, KeysTypeOK
  <2>6. QED
    BY <1>4, <2>2, <2>5 DEF Applies, KeysTypeOK, viewerVars, captureVars
<1>5. CASE Replays
  BY <1>5, KeysAssumption DEF Replays, KeysTypeOK, AtRest, viewerVars
<1>6. CASE Writes
  <2>1. /\ hand.t \in {"down", "up", "all", "replay"} /\ keyboard \subseteq KeyCode /\ heldKeys \subseteq KeyCode
        /\ hand.t \in {"down", "up"} => hand.k \in KeyCode
    BY <1>6 DEF Writes, KeysTypeOK, KeyboardFollows
  <2>2. keyboard' \subseteq KeyCode
    BY <1>6, <2>1 DEF Writes
  <2>3. QED
    BY <1>6, <2>2 DEF Writes, KeysTypeOK, AtRest, viewerVars
<1>7. ASSUME NEW src \in {"monitor", "window"}, RestartsMedia(src) \/ RecoversMedia(src) PROVE KeysTypeOK'
  <2>1. replays' \in 0 .. MaxReplay /\ capture' = src /\ alive' = TRUE
    BY <1>7, KeysAssumption DEF RestartsMedia, RecoversMedia, StartsMedia, KeysTypeOK
  <2>2. /\ keyboard' \subseteq KeyCode
        /\ hand' \in [t : {"idle", "down", "up", "all", "replay"}, k : KeyCode \cup {NoKey}, to : {"none", "current", "lost"}]
    BY <1>7, LoseTyped DEF RestartsMedia, RecoversMedia, KeysTypeOK
  <2>3. QED
    BY <1>7, <2>1, <2>2 DEF RestartsMedia, RecoversMedia, KeysTypeOK, viewerVars
<1>8. CASE Crashes \/ StopsMedia
  <2>1. /\ keyboard' = {} /\ alive' = FALSE
        /\ hand' \in [t : {"idle", "down", "up", "all", "replay"}, k : KeyCode \cup {NoKey}, to : {"none", "current", "lost"}]
    BY <1>8, LoseTyped DEF Crashes, StopsMedia, KeysTypeOK
  <2>2. QED
    BY <1>8, <2>1 DEF Crashes, StopsMedia, KeysTypeOK, viewerVars
<1>9. CASE UNCHANGED keysVars
  BY <1>9 DEF keysVars, KeysTypeOK, viewerVars, captureVars
<1>10. QED
  BY <1>1, <1>2, <1>3, <1>4, <1>5, <1>6, <1>7, <1>8, <1>9 DEF KeysNext

\* The viewer's side: what is held is let go of, or said to be.
LEMMA ViewerStep == KeysInv /\ [KeysNext]_keysVars => (HoldsWithFocus /\ LetGoIsSent)'
<1> SUFFICES ASSUME KeysTypeOK, HoldsWithFocus, LetGoIsSent, [KeysNext]_keysVars PROVE (HoldsWithFocus /\ LetGoIsSent)'
  BY DEF KeysInv
<1>1. ASSUME NEW k \in KeyCode, Presses(k) PROVE (HoldsWithFocus /\ LetGoIsSent)'
  <2>1. UNCHANGED <<mac, focused>> /\ fingers' = fingers \cup {k}
    BY <1>1 DEF Presses
  <2>2. CASE pressed' = {}
    BY <2>2 DEF HoldsWithFocus, LetGoIsSent
  <2>3. CASE pressed' = pressed /\ swallowed' = swallowed
    BY <2>1, <2>3 DEF HoldsWithFocus, LetGoIsSent
  <2>4. CASE pressed' = pressed \ {k} /\ swallowed' = swallowed \ {k}
    BY <2>1, <2>4 DEF HoldsWithFocus, LetGoIsSent
  <2>5. CASE pressed' = pressed \cup {k} /\ swallowed' = swallowed /\ focused
    BY <2>1, <2>5 DEF HoldsWithFocus, LetGoIsSent
  <2>6. QED
    BY <1>1, <2>2, <2>3, <2>4, <2>5, PressSends DEF ReleasesAll
<1>2. ASSUME NEW k \in KeyCode, Releases(k) PROVE (HoldsWithFocus /\ LetGoIsSent)'
  <2>1. UNCHANGED <<mac, focused>> /\ fingers' = fingers \ {k}
    BY <1>2 DEF Releases
  <2>2. CASE ~focused
    BY <1>2, <2>1, <2>2 DEF Releases, HoldsWithFocus, LetGoIsSent
  <2>3. CASE focused /\ mac /\ k = "letter" /\ "meta" \in fingers
    BY <1>2, <2>1, <2>3 DEF Releases, HoldsWithFocus, LetGoIsSent
  <2>4. CASE focused /\ ~(mac /\ k = "letter" /\ "meta" \in fingers) /\ k = "letter" /\ "mods" \in fingers
    BY <1>2, <2>1, <2>4 DEF Releases, HoldsWithFocus, LetGoIsSent
  <2>5. CASE focused /\ ~(mac /\ k = "letter" /\ "meta" \in fingers) /\ ~(k = "letter" /\ "mods" \in fingers)
    <3>1. pressed' = pressed \ GoesUpWith(k) /\ swallowed' = swallowed \ GoesUpWith(k)
      BY <1>2, <2>5 DEF Releases
    <3>2. k \in GoesUpWith(k) /\ (mac /\ k = "meta" /\ "letter" \in pressed => "letter" \in GoesUpWith(k))
          /\ GoesUpWith(k) \subseteq {k, "letter"}
      BY DEF GoesUpWith
    <3>3. "letter" \in pressed /\ "letter" \in GoesUpWith(k) => "letter" \notin pressed'
      BY <3>1
    <3>4. ASSUME NEW l \in pressed'
          PROVE  l \in fingers' \/ l \in swallowed' \/ (mac' /\ l = "letter" /\ "meta" \in fingers')
      <4>1. l \in pressed /\ l # k /\ (mac /\ k = "meta" => l # "letter") /\ l \notin GoesUpWith(k)
        BY <3>1, <3>2, <3>4
      <4>2. l \in fingers \/ l \in swallowed \/ (mac /\ l = "letter" /\ "meta" \in fingers)
        BY <4>1 DEF LetGoIsSent
      <4>3. QED
        BY <2>1, <3>1, <4>1, <4>2
    <3>5. QED
      BY <2>1, <2>5, <3>4 DEF HoldsWithFocus, LetGoIsSent
  <2>6. QED
    BY <2>2, <2>3, <2>4, <2>5
<1>3. CASE LosesFocus \/ LetsAllGo
  BY <1>3 DEF LosesFocus, LetsAllGo, ReleasesAll, HoldsWithFocus, LetGoIsSent
<1>4. CASE GetsFocus
  BY <1>4 DEF GetsFocus, HoldsWithFocus, LetGoIsSent
<1>5. CASE UNCHANGED viewerVars
  BY <1>5 DEF viewerVars, HoldsWithFocus, LetGoIsSent
<1>6. Applies \/ Replays \/ Writes \/ Crashes \/ StopsMedia \/ UNCHANGED keysVars => UNCHANGED viewerVars
  BY DEF Applies, Replays, Writes, Crashes, StopsMedia, keysVars
<1>7. \A src \in {"monitor", "window"} : RestartsMedia(src) \/ RecoversMedia(src) => UNCHANGED viewerVars
  BY DEF RestartsMedia, RecoversMedia
<1>8. QED
  BY <1>1, <1>2, <1>3, <1>4, <1>5, <1>6, <1>7 DEF KeysNext

LEMMA AllTells ==
  ASSUME KeysTypeOK, WireTells, ReleasesAll, UNCHANGED <<heldKeys, missed>>
  PROVE  WireTells'
<1>1. PICK ms : ms = <<All>>
  OBVIOUS
<1>2. ms \in Seq(KeyMessage) /\ Len(ms) = 1 /\ ms[1] = All /\ DOMAIN ms = {1}
  BY <1>1, Messages
<1>3. wire' = wire \o ms /\ pressed' = {}
  BY <1>1 DEF ReleasesAll, SendsKeys
<1>4. \A k \in KeyCode : Tells(ms[1], k) /\ ms[1].t # "down"
  BY <1>2, Messages
<1>5. \A i \in 1 .. Len(ms) : i = 1
  BY <1>2
<1>6. 1 \in 1 .. Len(ms)
  BY <1>2
<1>7. QED
  BY <1>2, <1>3, <1>4, <1>5, <1>6, SentTells

LEMMA OneTells ==
  ASSUME KeysTypeOK, WireTells, UNCHANGED <<heldKeys, missed>>, NEW k \in KeyCode,
         \/ wire' = wire \o <<KeyDown(k)>> /\ pressed' = pressed \cup {k}
         \/ wire' = wire \o <<KeyUp(k)>> /\ pressed' = pressed \ {k}
  PROVE  WireTells'
<1>1. PICK m \in {KeyDown(k), KeyUp(k)} :
         wire' = wire \o <<m>> /\ pressed' = IF m = KeyDown(k) THEN pressed \cup {k} ELSE pressed \ {k}
  BY Messages
<1>2. /\ <<m>> \in Seq(KeyMessage) /\ Len(<<m>>) = 1 /\ <<m>>[1] = m
      /\ \A l \in KeyCode : Tells(m, l) <=> l = k
      /\ m.t = "down" <=> k \in pressed'
  BY <1>1, Messages
<1>3. /\ 1 \in 1 .. Len(<<m>>) /\ \A i \in 1 .. Len(<<m>>) : i = 1
      /\ \A l \in KeyCode \ {k} : l \in pressed' <=> l \in pressed
  BY <1>1, <1>2
<1>4. \A l \in KeyCode : (\A i \in 1 .. Len(<<m>>) : ~Tells(<<m>>[i], l)) => (l \in pressed' <=> l \in pressed)
  BY <1>2, <1>3
<1>5. \A l \in KeyCode : \A i \in 1 .. Len(<<m>>) : SaysLast(<<m>>, i, l) => (<<m>>[i].t = "down" <=> l \in pressed')
  BY <1>2, <1>3 DEF SaysLast
<1>6. QED
  BY <1>1, <1>2, <1>4, <1>5, SentTells

LEMMA TwoTell ==
  ASSUME KeysTypeOK, WireTells, UNCHANGED <<heldKeys, missed>>, NEW k \in KeyCode, NEW l \in KeyCode,
         NEW m \in {KeyDown(k), KeyUp(k)}, k = l \/ m = KeyUp(k),
         wire' = wire \o <<m, KeyUp(l)>>, pressed' = pressed \ {k, l}
  PROVE  WireTells'
<1>1. PICK ms : ms = <<m, KeyUp(l)>>
  OBVIOUS
<1>2. /\ ms \in Seq(KeyMessage) /\ Len(ms) = 2 /\ ms[1] = m /\ ms[2] = KeyUp(l)
      /\ \A x \in KeyCode : (Tells(m, x) <=> x = k) /\ (Tells(KeyUp(l), x) <=> x = l)
      /\ KeyUp(l).t = "up" /\ (m = KeyUp(k) => m.t = "up")
  BY <1>1, Messages
<1>3. /\ 1 \in 1 .. Len(ms) /\ 2 \in 1 .. Len(ms) /\ \A i \in 1 .. Len(ms) : i = 1 \/ i = 2
      /\ DOMAIN ms = 1 .. Len(ms)
      /\ \A x \in KeyCode \ {k, l} : x \in pressed' <=> x \in pressed
  BY <1>2
<1>4. \A x \in KeyCode : (\A i \in 1 .. Len(ms) : ~Tells(ms[i], x)) => (x \in pressed' <=> x \in pressed)
  BY <1>2, <1>3
<1>5. ASSUME NEW x \in KeyCode, NEW i \in 1 .. Len(ms), SaysLast(ms, i, x)
      PROVE  ms[i].t = "down" <=> x \in pressed'
  <2>1. x \in {k, l} /\ x \notin pressed'
    BY <1>2, <1>3, <1>5 DEF SaysLast
  <2>2. CASE i = 2
    BY <1>2, <2>1, <2>2
  <2>3. CASE i = 1
    <3>1. x = k /\ ~Tells(ms[2], x)
      BY <1>2, <1>3, <1>5, <2>3 DEF SaysLast
    <3>2. QED
      BY <1>2, <2>1, <2>3, <3>1
  <2>4. QED
    BY <1>3, <2>2, <2>3
<1>6. QED
  BY <1>1, <1>2, <1>4, <1>5, SentTells

LEMMA WireStep == KeysInv /\ [KeysNext]_keysVars => WireTells'
<1> SUFFICES ASSUME KeysTypeOK, WireTells, [KeysNext]_keysVars PROVE WireTells'
  BY DEF KeysInv
<1>0. "letter" \in KeyCode
  BY DEF KeyCode
<1>1. ASSUME NEW k \in KeyCode, Presses(k) PROVE WireTells'
  <2>1. UNCHANGED <<heldKeys, missed>>
    BY <1>1 DEF Presses
  <2>2. CASE UNCHANGED <<pressed, swallowed, wire>>
    BY <2>1, <2>2 DEF WireTells, SaysLast
  <2>3. CASE ReleasesAll
    BY <2>1, <2>3, AllTells
  <2>4. CASE SendsKeys(<<KeyDown(k), KeyUp(k)>>) /\ pressed' = pressed \ {k}
    BY <2>1, <2>4, TwoTell DEF SendsKeys
  <2>5. CASE SendsKeys(<<KeyDown(k)>>) /\ pressed' = pressed \cup {k}
    BY <2>1, <2>5, OneTells DEF SendsKeys
  <2>6. QED
    BY <1>1, <2>2, <2>3, <2>4, <2>5, PressSends
<1>2. ASSUME NEW k \in KeyCode, Releases(k) PROVE WireTells'
  <2>1. UNCHANGED <<heldKeys, missed>>
    BY <1>2 DEF Releases
  <2>2. CASE UNCHANGED <<pressed, wire>>
    BY <2>1, <2>2 DEF WireTells, SaysLast
  <2>3. CASE SendsKeys(<<KeyUp(k), KeyUp("letter")>>) /\ pressed' = pressed \ {k, "letter"}
    BY <1>0, <2>1, <2>3, TwoTell DEF SendsKeys
  <2>4. CASE SendsKeys(<<KeyUp(k)>>) /\ pressed' = pressed \ {k}
    BY <2>1, <2>4, OneTells DEF SendsKeys
  <2>5. QED
    BY <1>2, <2>2, <2>3, <2>4, ReleaseSends
<1>3. CASE LosesFocus \/ LetsAllGo
  BY <1>3, AllTells DEF LosesFocus, LetsAllGo
<1>4. CASE Applies
  <2>1. /\ wire # <<>> /\ wire' = Tail(wire) /\ UNCHANGED pressed /\ Head(wire) = wire[1] /\ wire[1] \in KeyMessage
    BY <1>4 DEF Applies, viewerVars, KeysTypeOK
  <2>2. \A k \in KeyCode : Tells(wire[1], k) <=> k \in About(wire[1])
    BY <2>1 DEF Tells, About, KeyMessage
  <2>3. CASE missed' = missed \cup About(wire[1]) /\ UNCHANGED heldKeys
    BY <2>1, <2>2, <2>3, ReceivedTells
  <2>4. CASE missed' = missed \ About(wire[1]) /\ heldKeys' = HeldAfter(wire[1])
    <3>1. \A k \in KeyCode : ~Tells(wire[1], k) => (k \in heldKeys' <=> k \in heldKeys)
      BY <2>1, <2>4 DEF HeldAfter, Tells, KeyMessage
    <3>2. \A k \in KeyCode : Tells(wire[1], k) => (k \in heldKeys' <=> wire[1].t = "down")
      BY <2>1, <2>4 DEF HeldAfter, Tells, KeyMessage
    <3>3. QED
      BY <2>1, <2>2, <2>4, <3>1, <3>2, ReceivedTells
  <2>5. QED
    BY <1>4, <2>1, <2>3, <2>4 DEF Applies
<1>5. CASE UNCHANGED <<pressed, wire, heldKeys, missed>>
  BY <1>5 DEF WireTells, SaysLast
<1>6. GetsFocus \/ Replays \/ Writes \/ Crashes \/ StopsMedia \/ UNCHANGED keysVars
        => UNCHANGED <<pressed, wire, heldKeys, missed>>
  BY DEF GetsFocus, Replays, Writes, Crashes, StopsMedia, keysVars, viewerVars
<1>7. \A src \in {"monitor", "window"} :
        RestartsMedia(src) \/ RecoversMedia(src) => UNCHANGED <<pressed, wire, heldKeys, missed>>
  BY DEF RestartsMedia, RecoversMedia, viewerVars
<1>8. QED
  BY <1>1, <1>2, <1>3, <1>4, <1>5, <1>6, <1>7 DEF KeysNext

\* The host's side: the controller's keys come to the keyboard.
LEMMA KeyboardStep == KeysInv /\ [KeysNext]_keysVars => KeyboardFollows'
<1> SUFFICES ASSUME KeysTypeOK, KeyboardFollows, [KeysNext]_keysVars PROVE KeyboardFollows'
  BY DEF KeysInv
<1>0. /\ hand \in [t : {"idle", "down", "up", "all", "replay"}, k : KeyCode \cup {NoKey}, to : {"none", "current", "lost"}]
      /\ replays \in 0 .. MaxReplay /\ MaxReplay \in Nat /\ alive \in BOOLEAN
      /\ AtRest.t = "idle" /\ AtRest.to = "none"
  BY KeysAssumption DEF KeysTypeOK, AtRest
<1>1. CASE UNCHANGED <<captureVars, heldKeys, hand>>
  BY <1>1 DEF captureVars, KeyboardFollows, Written
<1>2. CASE Applies /\ UNCHANGED <<heldKeys, hand>>
  BY <1>1, <1>2 DEF Applies
<1>3. CASE Applies /\ capture # "none" /\ heldKeys' = HeldAfter(wire[1])
           /\ hand' = [t |-> wire[1].t, k |-> wire[1].k, to |-> "current"]
  <2>1. wire[1] \in KeyMessage /\ hand = AtRest /\ UNCHANGED captureVars
    BY <1>3 DEF Applies, KeysTypeOK
  <2>2. /\ hand'.t = wire[1].t /\ hand'.k = wire[1].k /\ hand'.to = "current" /\ hand' # AtRest
        /\ wire[1].t \in {"down", "up", "all"} /\ (wire[1].t \in {"down", "up"} => wire[1].k \in KeyCode)
    BY <1>0, <1>3, <2>1 DEF KeyMessage
  <2>3. Written = keyboard
    BY <2>1 DEF Written
  <2>4. Written' = IF ~alive THEN keyboard
                   ELSE CASE wire[1].t = "down" -> keyboard \cup {wire[1].k}
                          [] wire[1].t = "up" -> keyboard \ {wire[1].k} [] OTHER -> {}
    BY <2>1, <2>2 DEF Written, captureVars
  <2>5. QED
    BY <1>3, <2>1, <2>2, <2>3, <2>4 DEF KeyboardFollows, HeldAfter, captureVars
<1>4. CASE Replays
  <2>1. /\ hand = AtRest /\ replays > 0 /\ replays' = replays - 1 /\ UNCHANGED <<capture, alive, keyboard, heldKeys>>
    BY <1>4 DEF Replays
  <2>2. CASE capture = "none"
    BY <1>0, <1>4, <2>1, <2>2 DEF Replays, KeyboardFollows, Written
  <2>3. CASE capture # "none"
    <3>1. hand' = [t |-> "replay", k |-> NoKey, to |-> "current"]
      BY <1>4, <2>3 DEF Replays
    <3>2. hand'.t = "replay" /\ hand'.to = "current" /\ hand' # AtRest
      BY <1>0, <3>1
    <3>3. Written = keyboard /\ Written' = IF ~alive THEN keyboard ELSE keyboard \cup heldKeys
      BY <2>1, <3>2 DEF Written
    <3>4. QED
      BY <2>1, <2>3, <3>2, <3>3 DEF KeyboardFollows
  <2>4. QED
    BY <2>2, <2>3
<1>5. CASE Writes
  <2>1. hand' = AtRest /\ hand # AtRest /\ UNCHANGED <<capture, alive, replays, heldKeys>>
    BY <1>5 DEF Writes
  <2>2. keyboard' = Written
    <3>1. hand.t \in {"down", "up", "all", "replay"}
      BY <1>0, <2>1 DEF KeyboardFollows
    <3>2. QED
      BY <1>5, <2>1, <3>1 DEF Writes, Written
  <2>3. Written' = keyboard'
    BY <2>1 DEF Written, AtRest
  <2>4. ~alive => Written = keyboard
    BY DEF Written
  <2>5. QED
    BY <1>0, <2>1, <2>2, <2>3, <2>4 DEF KeyboardFollows
<1>6. CASE keyboard' = {} /\ LoseKeyboard /\ UNCHANGED heldKeys
           /\ ((capture' = "none" /\ alive' = FALSE) \/ (capture' # "none" /\ alive' = TRUE /\ replays' > 0))
  <2>1. (hand = AtRest => hand' = AtRest) /\ (hand # AtRest => hand' # AtRest /\ hand'.to = "lost" /\ hand'.t = hand.t /\ hand'.k = hand.k)
    BY <1>6, LoseTyped
  <2>2. Written' = {}
    BY <1>6, <2>1 DEF Written
  <2>3. hand'.to = "lost" => hand # AtRest
    BY <1>0, <2>1
  <2>4. QED
    BY <1>0, <1>6, <2>1, <2>2, <2>3 DEF KeyboardFollows
<1>7. ASSUME NEW src \in {"monitor", "window"}, RestartsMedia(src) PROVE KeyboardFollows'
  <2>1. replays' = replays + 1 /\ replays' > 0 /\ capture' = src /\ alive' = TRUE /\ LoseKeyboard /\ UNCHANGED heldKeys
    BY <1>0, <1>7 DEF RestartsMedia, StartsMedia
  <2>2. QED
    BY <1>6, <2>1 DEF LoseKeyboard
<1>8. ASSUME NEW src \in {"monitor", "window"}, RecoversMedia(src) PROVE KeyboardFollows'
  <2>1. /\ capture = "none" /\ replays' = replays + 1 /\ replays' > 0 /\ capture' = src /\ alive' = TRUE
        /\ UNCHANGED <<keyboard, heldKeys, hand>>
    BY <1>0, <1>8 DEF RecoversMedia, StartsMedia
  <2>2. keyboard = {} /\ (hand = AtRest \/ hand.to = "lost")
    BY <1>0, <2>1 DEF KeyboardFollows
  <2>3. Written' = {}
    BY <2>1, <2>2 DEF Written
  <2>4. QED
    BY <2>1, <2>3 DEF KeyboardFollows
<1>9. CASE Crashes
  <2>1. /\ capture # "none" /\ alive' = FALSE /\ keyboard' = {} /\ UNCHANGED <<capture, replays, heldKeys, hand>>
    BY <1>9 DEF Crashes
  <2>2. Written' = {}
    BY <2>1 DEF Written
  <2>3. QED
    BY <2>1, <2>2 DEF KeyboardFollows
<1>10. CASE StopsMedia
  BY <1>6, <1>10 DEF StopsMedia, LoseKeyboard
<1>11. \A k \in KeyCode : Presses(k) \/ Releases(k) => UNCHANGED <<captureVars, heldKeys, hand>>
  BY DEF Presses, Releases
<1>12. LosesFocus \/ GetsFocus \/ LetsAllGo \/ UNCHANGED keysVars => UNCHANGED <<captureVars, heldKeys, hand>>
  BY DEF LosesFocus, GetsFocus, LetsAllGo, keysVars
<1>13. CASE Applies
  <2>1. wire # <<>> => Head(wire) = wire[1]
    BY DEF KeysTypeOK
  <2>2. QED
    BY <1>2, <1>3, <1>13, <2>1 DEF Applies
<1>14. QED
  BY <1>1, <1>4, <1>5, <1>7, <1>8, <1>9, <1>10, <1>11, <1>12, <1>13 DEF KeysNext

LEMMA KeysStepInv == KeysInv /\ [KeysNext]_keysVars => KeysInv'
BY KeysTypeStep, ViewerStep, WireStep, KeyboardStep DEF KeysInv

(***************************************************************************)
(* What the page, the channel, the controller and the capture know of the  *)
(* keys comes to the same, whatever is on its way between them.            *)
(***************************************************************************)
THEOREM KeysInvariant == KeysSpec => []KeysInv
<1>1. QED
  BY KeysInitInv, KeysStepInv, PTL DEF KeysSpec

(* The page holds no key that the viewer has let go of, but for a letter taken    *)
(* for a shortcut and those of a Mac; the host's keyboard has down what the        *)
(* controller holds; and once all has arrived, both hold the same keys but for     *)
(* those whose last message found no capture, or no window that takes it.          *)
THEOREM KeysDoAgree == KeysSpec => []KeysAgree
<1>1. KeysInv => KeysAgree
  <2> SUFFICES ASSUME KeysInv PROVE HostFollows
    BY DEF KeysInv, KeysAgree
  <2> SUFFICES ASSUME hand = AtRest, capture # "none", alive, replays = 0
               PROVE  /\ keyboard = heldKeys
                      /\ Arrived => \A k \in KeyCode \ missed : k \in keyboard <=> k \in pressed
    BY DEF HostFollows
  <2>1. keyboard = heldKeys
    BY DEF KeysInv, KeyboardFollows, Written
  <2>2. ASSUME wire = <<>>, NEW k \in KeyCode \ missed PROVE k \in keyboard <=> k \in pressed
    <3>1. \A i \in DOMAIN wire : ~Tells(wire[i], k)
      BY <2>2
    <3>2. QED
      BY <2>1, <3>1 DEF KeysInv, WireTells
  <2>3. QED
    BY <2>1, <2>2 DEF Arrived
<1>2. QED
  BY <1>1, KeysInvariant, PTL

-----------------------------------------------------------------------------
(* The session: the desktop is shown to the view that has taken it last.      *)

\* An attempt that has not been made is nowhere; an open on its way is its attempt's
\* only one; a session that the view was told of has been answered for.
Unmade == \A a \in Try : a > attempts => attempt[a].st = "none" /\ opener[a] = "none"
NoneTwice(q) == \A i, j \in DOMAIN q : q[i].t = "open" /\ q[j] = q[i] => j = i
OpensOnce ==
  /\ \A v \in Viewer : \A r \in Range(requests[v]) : r.t = "open" =>
       attempt[r.a].by = v /\ r.a <= attempts /\ opener[r.a] = "none"
  /\ \A v \in Viewer : NoneTwice(requests[v])
AnsweredFor ==
  /\ \A a \in Try : attempt[a].st \in {"shown", "closed"} => opener[a] = "answered"
  /\ \A a \in Try : desk[a] # "none" => opener[a] \in {"started", "answered"}
  /\ \A a \in unlisting : desk[a] \notin {"none", "running"}

\* A view shows an attempt of its own, and what waits does so on the view's connection.
OwnAttempts ==
  /\ \A v \in Viewer : shows[v] # 0 => shows[v] <= attempts /\ attempt[shows[v]].by = v
  /\ \A a \in Try : attempt[a].link <= link[attempt[a].by]
  /\ \A a \in Try : Waits(a) => attempt[a].link = link[attempt[a].by]

\* A session is the registry's until it is closed, and its desktop the plugin's.
Registered ==
  /\ \A a \in Try : closing[a] = "no" /\ opener[a] \in {"registered", "started", "refused", "answered"} => a \in rtc
  /\ \A a \in Try : closing[a] = "no" /\ opener[a] = "answered" => a \in stored
  /\ \A a \in stored : opener[a] = "answered"
  /\ \A a \in Try : opener[a] \in {"none", "called"} => closing[a] = "no" /\ a \notin rtc \cup toClose
  /\ \A a \in rtc : closing[a] = "no"

\* It is closed for its view's sake or its connection's.
ClosedForIt ==
  /\ \A v \in Viewer : \A r \in Range(requests[v]) : r.t = "close" => attempt[r.a].st = "closed" /\ attempt[r.a].by = v
  /\ \A v \in Viewer, n \in 1 .. MaxLink : <<v, n>> \in gone => n < link[v]
  /\ \A a \in toClose : attempt[a].link < link[attempt[a].by]
  /\ \A a \in Try : closing[a] # "no" =>
       attempt[a].st = "closed" \/ attempt[a].link < link[attempt[a].by] \/ opener[a] = "failed"
  /\ \A a \in Try : closing[a] \in {"asked", "peer"} => opener[a] = "answered"

\* Nobody's close is forgotten: it is on its way, or that of its connection is.
CloseComes ==
  \A a \in Try : attempt[a].st \in {"shown", "closed"} /\ closing[a] = "no" =>
    \/ attempt[a].link < link[attempt[a].by] /\ (<<attempt[a].by, attempt[a].link>> \in gone \/ a \in toClose)
    \/ attempt[a].link = link[attempt[a].by]
         /\ (attempt[a].st = "closed" => [t |-> "close", a |-> a] \in Range(requests[attempt[a].by]))

\* What was closed does not run, and what was stopped was left.
DoneIsStopped ==
  \A a \in Try :
    /\ attempt[a].st \in {"shown", "closed"} /\ closing[a] = "done" => desk[a] # "running"
    /\ desk[a] = "left" => attempt[a].st = "closed" \/ attempt[a].link < link[attempt[a].by]

SessionInv ==
  /\ DesktopTypeOK /\ Unmade /\ OpensOnce /\ AnsweredFor /\ OwnAttempts /\ Registered
  /\ ClosedForIt /\ CloseComes /\ DoneIsStopped /\ OneDesktop

LEMMA Ranges ==
  ASSUME NEW s \in Seq(DesktopRequest), NEW t \in Seq(DesktopRequest)
  PROVE  s \o t \in Seq(DesktopRequest) /\ Range(s \o t) = Range(s) \cup Range(t)
<1>1. /\ s \o t \in Seq(DesktopRequest) /\ Len(s \o t) = Len(s) + Len(t) /\ Len(s) \in Nat /\ Len(t) \in Nat
      /\ DOMAIN s = 1 .. Len(s) /\ DOMAIN t = 1 .. Len(t) /\ DOMAIN (s \o t) = 1 .. (Len(s) + Len(t))
      /\ \A i \in 1 .. Len(s) : (s \o t)[i] = s[i]
      /\ \A i \in 1 .. Len(t) : (s \o t)[Len(s) + i] = t[i]
  OBVIOUS
<1>2. ASSUME NEW r \in Range(s \o t) PROVE r \in Range(s) \cup Range(t)
  <2>1. PICK i \in 1 .. (Len(s) + Len(t)) : r = (s \o t)[i]
    BY <1>1 DEF Range
  <2>2. CASE i <= Len(s)
    BY <1>1, <2>1, <2>2 DEF Range
  <2>3. CASE i > Len(s)
    <3>1. i - Len(s) \in 1 .. Len(t) /\ i = Len(s) + (i - Len(s))
      BY <1>1, <2>3
    <3>2. QED
      BY <1>1, <2>1, <3>1 DEF Range
  <2>4. QED
    BY <1>1, <2>2, <2>3
<1>3. ASSUME NEW r \in Range(s) PROVE r \in Range(s \o t)
  <2>1. PICK i \in 1 .. Len(s) : r = s[i]
    BY <1>1 DEF Range
  <2>2. i \in 1 .. (Len(s) + Len(t))
    BY <1>1
  <2>3. QED
    BY <1>1, <2>1, <2>2 DEF Range
<1>4. ASSUME NEW r \in Range(t) PROVE r \in Range(s \o t)
  <2>1. PICK i \in 1 .. Len(t) : r = t[i]
    BY <1>1 DEF Range
  <2>2. Len(s) + i \in 1 .. (Len(s) + Len(t))
    BY <1>1
  <2>3. QED
    BY <1>1, <2>1, <2>2 DEF Range
<1>5. QED
  BY <1>1, <1>2, <1>3, <1>4

LEMMA OneRange == \A r \in DesktopRequest : <<r>> \in Seq(DesktopRequest) /\ Range(<<r>>) = {r}
BY DEF Range

LEMMA NoRange == <<>> \in Seq(DesktopRequest) /\ Range(<<>>) = {} /\ NoneTwice(<<>>)
BY DEF Range, NoneTwice

\* What is read was on its way, and an open is not any longer.
LEMMA ReadRange ==
  ASSUME NEW s \in Seq(DesktopRequest), s # <<>>
  PROVE  /\ Head(s) \in DesktopRequest /\ Tail(s) \in Seq(DesktopRequest)
         /\ Range(s) = Range(Tail(s)) \cup {Head(s)}
         /\ NoneTwice(s) => NoneTwice(Tail(s)) /\ (Head(s).t = "open" => Head(s) \notin Range(Tail(s)))
<1>1. /\ Len(s) \in Nat /\ Len(s) > 0 /\ DOMAIN s = 1 .. Len(s) /\ Head(s) = s[1] /\ s[1] \in DesktopRequest
      /\ Tail(s) \in Seq(DesktopRequest) /\ DOMAIN Tail(s) = 1 .. (Len(s) - 1)
      /\ \A i \in 1 .. (Len(s) - 1) : Tail(s)[i] = s[i + 1]
  OBVIOUS
<1>2. \A j \in 2 .. Len(s) : j - 1 \in 1 .. (Len(s) - 1) /\ s[j] = Tail(s)[j - 1]
  <2>1. ASSUME NEW j \in 2 .. Len(s) PROVE j - 1 \in 1 .. (Len(s) - 1) /\ s[j] = Tail(s)[j - 1]
    <3>1. j - 1 \in 1 .. (Len(s) - 1) /\ (j - 1) + 1 = j
      BY <1>1
    <3>2. QED
      BY <1>1, <3>1
  <2>2. QED
    BY <2>1
<1>3. \A j \in 1 .. Len(s) : j = 1 \/ j \in 2 .. Len(s)
  BY <1>1
<1>4. \A i \in 1 .. (Len(s) - 1) : i + 1 \in 1 .. Len(s) /\ i + 1 # 1
  BY <1>1
<1>5. Range(s) = Range(Tail(s)) \cup {Head(s)}
  <2>1. ASSUME NEW r \in Range(s), r # Head(s) PROVE r \in Range(Tail(s))
    <3>1. PICK j \in 2 .. Len(s) : r = s[j]
      BY <1>1, <1>3, <2>1 DEF Range
    <3>2. j - 1 \in 1 .. (Len(s) - 1) /\ r = Tail(s)[j - 1]
      BY <1>2, <3>1
    <3>3. QED
      BY <1>1, <3>2 DEF Range
  <2>2. \A r \in Range(Tail(s)) : r \in Range(s)
    BY <1>1, <1>4 DEF Range
  <2>3. Head(s) \in Range(s)
    BY <1>1 DEF Range
  <2>4. QED
    BY <2>1, <2>2, <2>3
<1>6. ASSUME NoneTwice(s) PROVE NoneTwice(Tail(s))
  <2>1. ASSUME NEW i \in 1 .. (Len(s) - 1), NEW j \in 1 .. (Len(s) - 1), Tail(s)[i].t = "open", Tail(s)[j] = Tail(s)[i]
        PROVE  j = i
    <3>1. j + 1 = i + 1
      BY <1>1, <1>4, <1>6, <2>1 DEF NoneTwice
    <3>2. QED
      BY <1>1, <3>1
  <2>2. QED
    BY <1>1, <2>1 DEF NoneTwice
<1>7. ASSUME NoneTwice(s), Head(s).t = "open", Head(s) \in Range(Tail(s)) PROVE FALSE
  <2>1. PICK i \in 1 .. (Len(s) - 1) : Tail(s)[i] = Head(s)
    BY <1>1, <1>7 DEF Range
  <2>2. i + 1 = 1
    BY <1>1, <1>4, <1>7, <2>1 DEF NoneTwice
  <2>3. QED
    BY <1>4, <2>1, <2>2
<1>8. QED
  BY <1>1, <1>5, <1>6, <1>7

\* A request that is not on its way can be sent.
LEMMA SentOnce ==
  ASSUME NEW s \in Seq(DesktopRequest), NoneTwice(s), NEW r \in DesktopRequest, r.t = "open" => r \notin Range(s)
  PROVE  NoneTwice(s \o <<r>>)
<1>1. /\ Len(s) \in Nat /\ DOMAIN s = 1 .. Len(s) /\ DOMAIN (s \o <<r>>) = 1 .. (Len(s) + 1)
      /\ \A i \in 1 .. Len(s) : (s \o <<r>>)[i] = s[i]
      /\ (s \o <<r>>)[Len(s) + 1] = r
  OBVIOUS
<1>2. \A i \in 1 .. (Len(s) + 1) : i \in 1 .. Len(s) \/ i = Len(s) + 1
  BY <1>1
<1>3. \A i \in 1 .. Len(s) : r.t = "open" => s[i] # r
  BY <1>1 DEF Range
<1>4. QED
  BY <1>1, <1>2, <1>3 DEF NoneTwice

LEMMA SessionInitInv == DesktopInit => SessionInv
<1> SUFFICES ASSUME DesktopInit PROVE SessionInv
  OBVIOUS
<1>1. \A v \in Viewer : Range(requests[v]) = {} /\ NoneTwice(requests[v]) /\ requests[v] \in Seq(DesktopRequest)
  BY NoRange DEF DesktopInit
<1>2. DesktopTypeOK
  BY <1>1, DesktopAssumption DEF DesktopInit, DesktopTypeOK, AttemptState
<1>3. Unmade /\ OpensOnce /\ AnsweredFor /\ OwnAttempts
  BY <1>1, <1>2, DesktopAssumption DEF DesktopInit, Unmade, OpensOnce, AnsweredFor, OwnAttempts, Waits, DesktopTypeOK
<1>4. Registered /\ ClosedForIt /\ CloseComes /\ DoneIsStopped /\ OneDesktop
  BY <1>1, <1>2 DEF DesktopInit, Registered, ClosedForIt, CloseComes, DoneIsStopped, OneDesktop, DesktopTypeOK
<1>5. QED
  BY <1>2, <1>3, <1>4 DEF SessionInv

LEMMA SessionTypes ==
  ASSUME DesktopTypeOK
  PROVE  /\ attempts \in 0 .. MaxTry /\ MaxTry \in Nat /\ MaxLink \in Nat
         /\ \A a \in Try : /\ attempt[a] \in AttemptState /\ attempt[a].by \in Viewer /\ attempt[a].link \in 0 .. MaxLink
                           /\ attempt[a].st \in {"none", "asked", "cancelled", "shown", "closed", "failed"}
                           /\ a \in Nat
         /\ \A v \in Viewer : /\ shows[v] \in 0 .. MaxTry /\ link[v] \in 1 .. MaxLink
                              /\ shows[v] # 0 => shows[v] \in Try
                              /\ requests[v] \in Seq(DesktopRequest)
         /\ \A v \in Viewer : Range(requests[v]) \subseteq DesktopRequest
BY DesktopAssumption DEF DesktopTypeOK, AttemptState, Try, Range

\* What the cleanup does with the attempt that the view shows, and what it sends.
LEMMA CleanedSays ==
  ASSUME DesktopTypeOK, NEW v \in Viewer, NEW c, c = CleanedUp(v)
  PROVE  /\ c \in [Try -> AttemptState]
         /\ \A a \in Try : c[a].by = attempt[a].by /\ c[a].link = attempt[a].link
         /\ \A a \in Try : a # shows[v] => c[a] = attempt[a]
         /\ \A a \in Try : c[a].st = CASE a = shows[v] /\ attempt[a].st = "asked" -> "cancelled"
                                       [] a = shows[v] /\ attempt[a].st = "shown" -> "closed"
                                       [] OTHER -> attempt[a].st
<1>1. attempt \in [Try -> AttemptState] /\ (shows[v] # 0 => shows[v] \in Try) /\ 0 \notin Try
  BY SessionTypes DEF DesktopTypeOK, Try
<1>2. CASE shows[v] = 0
  BY <1>1, <1>2 DEF CleanedUp
<1>3. CASE shows[v] # 0
  <2>1. c = [attempt EXCEPT ![shows[v]].st =
               CASE attempt[shows[v]].st = "asked" -> "cancelled" [] attempt[shows[v]].st = "shown" -> "closed"
                 [] OTHER -> attempt[shows[v]].st]
    BY <1>3 DEF CleanedUp
  <2>2. QED
    BY <1>1, <1>3, <2>1 DEF AttemptState
<1>4. QED
  BY <1>2, <1>3

LEMMA GoodbyeSays ==
  ASSUME DesktopTypeOK, NEW v \in Viewer
  PROVE  \/ Goodbye(v) = <<>> /\ (shows[v] = 0 \/ attempt[shows[v]].st # "shown")
         \/ /\ shows[v] \in Try /\ attempt[shows[v]].st = "shown"
            /\ [t |-> "close", a |-> shows[v]] \in DesktopRequest /\ Goodbye(v) = <<[t |-> "close", a |-> shows[v]]>>
BY SessionTypes DEF Goodbye, DesktopRequest

\* What the view has on its way once it has said goodbye.
LEMMA GoodbyeRange ==
  ASSUME DesktopTypeOK, NEW v \in Viewer, NEW q, q = requests[v] \o Goodbye(v), NoneTwice(requests[v])
  PROVE  /\ q \in Seq(DesktopRequest) /\ NoneTwice(q)
         /\ Range(q) = Range(requests[v]) \cup (IF shows[v] # 0 /\ attempt[shows[v]].st = "shown"
                                               THEN {[t |-> "close", a |-> shows[v]]} ELSE {})
<1>1. requests[v] \in Seq(DesktopRequest)
  BY SessionTypes
<1>2. CASE Goodbye(v) = <<>> /\ (shows[v] = 0 \/ attempt[shows[v]].st # "shown")
  BY <1>1, <1>2
<1>3. CASE /\ shows[v] \in Try /\ attempt[shows[v]].st = "shown"
           /\ [t |-> "close", a |-> shows[v]] \in DesktopRequest /\ Goodbye(v) = <<[t |-> "close", a |-> shows[v]]>>
  <2>1. PICK r \in DesktopRequest : r = [t |-> "close", a |-> shows[v]]
    BY <1>3
  <2>2. r.t # "open" /\ q = requests[v] \o <<r>> /\ shows[v] # 0
    BY <1>3, <2>1 DEF Try
  <2>3. NoneTwice(q)
    BY <1>1, <2>2, SentOnce
  <2>4. q \in Seq(DesktopRequest) /\ Range(q) = Range(requests[v]) \cup {r}
    BY <1>1, <2>2, Ranges, OneRange
  <2>5. QED
    BY <1>3, <2>1, <2>2, <2>3, <2>4
<1>4. QED
  BY <1>2, <1>3, GoodbyeSays

-----------------------------------------------------------------------------

\* What stays closed, or lost, is closed for its own sake still.
LEMMA AttendedKept ==
  ASSUME DesktopTypeOK, ClosedForIt, UNCHANGED <<link, gone, opener, registry>>,
         \A a \in Try : attempt'[a].by = attempt[a].by /\ attempt'[a].link = attempt[a].link
         /\ (attempt[a].st = "closed" => attempt'[a].st = "closed"),
         \A w \in Viewer : \A r \in Range(requests'[w]) : r.t = "close" => attempt'[r.a].st = "closed" /\ attempt'[r.a].by = w
  PROVE  ClosedForIt'
<1>1. \A a \in toClose : a \in Try
  BY DEF DesktopTypeOK
<1>2. \A v \in Viewer, n \in 1 .. MaxLink : <<v, n>> \in gone' => n < link'[v]
  BY DEF ClosedForIt
<1>3. \A a \in toClose' : attempt'[a].link < link'[attempt'[a].by]
  BY <1>1 DEF ClosedForIt, registry
<1>4. \A a \in Try : closing'[a] # "no" =>
        attempt'[a].st = "closed" \/ attempt'[a].link < link'[attempt'[a].by] \/ opener'[a] = "failed"
  BY DEF ClosedForIt, registry
<1>5. \A a \in Try : closing'[a] \in {"asked", "peer"} => opener'[a] = "answered"
  BY DEF ClosedForIt, registry
<1>6. QED
  BY <1>2, <1>3, <1>4, <1>5 DEF ClosedForIt

\* What a view does to its attempts and what it sends leaves the daemon to the others.
LEMMA HideStep == ASSUME SessionInv, NEW v \in Viewer, Hide(v) PROVE SessionInv'
<1>1. PICK c, q : c = CleanedUp(v) /\ q = requests[v] \o Goodbye(v)
  OBVIOUS
<1>2. /\ attempt' = c /\ shows' = [shows EXCEPT ![v] = 0] /\ requests' = [requests EXCEPT ![v] = q]
      /\ UNCHANGED <<attempts, link, gone, opener, registry, manager>>
  BY <1>1 DEF Hide
<1>3. DesktopTypeOK /\ NoneTwice(requests[v])
  BY DEF SessionInv, OpensOnce
<1>4. /\ c \in [Try -> AttemptState]
      /\ \A a \in Try : c[a].by = attempt[a].by /\ c[a].link = attempt[a].link
      /\ \A a \in Try : a # shows[v] => c[a] = attempt[a]
      /\ \A a \in Try : c[a].st = CASE a = shows[v] /\ attempt[a].st = "asked" -> "cancelled"
                                       [] a = shows[v] /\ attempt[a].st = "shown" -> "closed"
                                       [] OTHER -> attempt[a].st
  BY <1>1, <1>3, CleanedSays
<1>5. /\ q \in Seq(DesktopRequest) /\ NoneTwice(q)
      /\ Range(q) = Range(requests[v]) \cup (IF shows[v] # 0 /\ attempt[shows[v]].st = "shown"
                                               THEN {[t |-> "close", a |-> shows[v]]} ELSE {})
  BY <1>1, <1>3, GoodbyeRange
<1>6. /\ \A w \in Viewer : requests'[w] = IF w = v THEN q ELSE requests[w]
      /\ \A w \in Viewer : shows'[w] = IF w = v THEN 0 ELSE shows[w]
  BY <1>2, <1>3 DEF DesktopTypeOK
<1>7. DesktopTypeOK'
  <2>1. shows' \in [Viewer -> 0 .. MaxTry] /\ requests' \in [Viewer -> Seq(DesktopRequest)]
    BY <1>2, <1>3, <1>5, DesktopAssumption DEF DesktopTypeOK
  <2>2. QED
    BY <1>2, <1>3, <1>4, <2>1 DEF DesktopTypeOK, registry, manager
<1>8. Unmade'
  BY <1>2, <1>3, <1>4, SessionTypes DEF SessionInv, Unmade, OwnAttempts
<1>9. OpensOnce'
  BY <1>2, <1>3, <1>4, <1>5, <1>6, SessionTypes DEF SessionInv, OpensOnce, DesktopRequest
<1>10. AnsweredFor'
  BY <1>2, <1>4 DEF SessionInv, AnsweredFor, manager
<1>11. OwnAttempts'
  BY <1>2, <1>3, <1>4, <1>6, SessionTypes DEF SessionInv, OwnAttempts, Waits
<1>12. Registered'
  BY <1>2 DEF SessionInv, Registered, registry
<1>13. ClosedForIt'
  <2>1. ASSUME NEW w \in Viewer, NEW r \in Range(requests'[w]), r.t = "close"
        PROVE  attempt'[r.a].st = "closed" /\ attempt'[r.a].by = w
    <3>1. CASE r \in Range(requests[w])
      <4>1. r.a \in Try /\ attempt[r.a].st = "closed" /\ attempt[r.a].by = w
        BY <1>3, <2>1, <3>1, SessionTypes DEF SessionInv, ClosedForIt, DesktopRequest
      <4>2. QED
        BY <1>2, <1>4, <4>1
    <3>2. CASE w = v /\ shows[v] # 0 /\ attempt[shows[v]].st = "shown" /\ r = [t |-> "close", a |-> shows[v]]
      <4>1. shows[v] \in Try /\ attempt[shows[v]].by = v
        BY <1>3, <3>2, SessionTypes DEF SessionInv, OwnAttempts
      <4>2. QED
        BY <1>2, <1>4, <3>2, <4>1
    <3>3. QED
      BY <1>5, <1>6, <2>1, <3>1, <3>2
  <2>2. \A a \in Try : attempt[a].st = "closed" => attempt'[a].st = "closed"
    BY <1>2, <1>4
  <2>3. QED
    BY <1>2, <1>4, <2>1, <2>2, AttendedKept DEF SessionInv
<1>14. CloseComes'
  <2>1. ASSUME NEW a \in Try, attempt'[a].st \in {"shown", "closed"}, closing'[a] = "no"
        PROVE  \/ attempt'[a].link < link'[attempt'[a].by]
                    /\ (<<attempt'[a].by, attempt'[a].link>> \in gone' \/ a \in toClose')
               \/ attempt'[a].link = link'[attempt'[a].by]
                    /\ (attempt'[a].st = "closed" => [t |-> "close", a |-> a] \in Range(requests'[attempt'[a].by]))
    <3>1. /\ attempt[a].st \in {"shown", "closed"} /\ closing[a] = "no"
          /\ attempt'[a].by = attempt[a].by /\ attempt'[a].link = attempt[a].link
          /\ UNCHANGED <<link, gone, toClose>>
      BY <1>2, <1>4, <2>1 DEF registry
    <3>2. Range(requests[attempt[a].by]) \subseteq Range(requests'[attempt[a].by])
      BY <1>3, <1>5, <1>6, SessionTypes
    <3>3. CASE attempt'[a].st = "closed" => attempt[a].st = "closed"
      BY <3>1, <3>2, <3>3 DEF SessionInv, CloseComes
    <3>4. CASE attempt'[a].st = "closed" /\ attempt[a].st = "shown"
      <4>1. a = shows[v] /\ shows[v] # 0 /\ attempt[a].by = v
        BY <1>2, <1>3, <1>4, <3>4, SessionTypes DEF SessionInv, OwnAttempts, Try
      <4>2. [t |-> "close", a |-> a] \in Range(requests'[v])
        BY <1>5, <1>6, <3>4, <4>1
      <4>3. QED
        BY <3>1, <4>1, <4>2 DEF SessionInv, CloseComes
    <3>5. QED
      BY <3>1, <3>3, <3>4
  <2>2. QED
    BY <2>1 DEF CloseComes
<1>15. DoneIsStopped' /\ OneDesktop'
  BY <1>2, <1>4 DEF SessionInv, DoneIsStopped, OneDesktop, registry, manager
<1>16. QED
  BY <1>7, <1>8, <1>9, <1>10, <1>11, <1>12, <1>13, <1>14, <1>15 DEF SessionInv

LEMMA CallFailsStep == ASSUME SessionInv, NEW b \in Try, CallFails(b) PROVE SessionInv'
<1>1. /\ Waits(b) /\ attempt' = [attempt EXCEPT ![b].st = "failed"]
      /\ UNCHANGED <<attempts, shows, wires, opener, registry, manager>>
  BY DEF CallFails
<1>2. DesktopTypeOK /\ attempt[b].st \in {"asked", "cancelled"}
  BY <1>1 DEF SessionInv, Waits
<1>3. /\ attempt' \in [Try -> AttemptState]
      /\ \A a \in Try : attempt'[a].by = attempt[a].by /\ attempt'[a].link = attempt[a].link
      /\ \A a \in Try : attempt'[a].st = IF a = b THEN "failed" ELSE attempt[a].st
  BY <1>1, <1>2 DEF DesktopTypeOK, AttemptState
<1>4. DesktopTypeOK'
  BY <1>1, <1>2, <1>3 DEF DesktopTypeOK, wires, registry, manager
<1>5. Unmade' /\ OwnAttempts'
  BY <1>1, <1>2, <1>3, SessionTypes DEF SessionInv, Unmade, OwnAttempts, Waits, wires
<1>6. OpensOnce' /\ ClosedForIt'
  BY <1>1, <1>2, <1>3, SessionTypes DEF SessionInv, OpensOnce, ClosedForIt, wires, registry, DesktopRequest
<1>7. AnsweredFor' /\ Registered'
  BY <1>1, <1>2, <1>3 DEF SessionInv, AnsweredFor, Registered, registry, manager
<1>8. CloseComes' /\ DoneIsStopped' /\ OneDesktop'
  BY <1>1, <1>2, <1>3, SessionTypes DEF SessionInv, CloseComes, DoneIsStopped, OneDesktop, wires, registry, manager
<1>9. QED
  BY <1>4, <1>5, <1>6, <1>7, <1>8 DEF SessionInv

LEMMA AnsweredStep == ASSUME SessionInv, NEW b \in Try, Answered(b) PROVE SessionInv'
<1>1. /\ Waits(b) /\ opener[b] = "answered" /\ attempt[b].link = link[attempt[b].by]
      /\ UNCHANGED <<attempts, shows, link, gone, opener, registry, manager>>
  BY DEF Answered
<1>2. DesktopTypeOK /\ attempt[b].st \in {"asked", "cancelled"}
  BY <1>1 DEF SessionInv, Waits
<1>3. PICK how \in {"shown", "closed"} : attempt' = [attempt EXCEPT ![b].st = how]
  BY DEF Answered
<1>4. /\ attempt' \in [Try -> AttemptState]
      /\ \A a \in Try : attempt'[a].by = attempt[a].by /\ attempt'[a].link = attempt[a].link
      /\ \A a \in Try : attempt'[a].st = IF a = b THEN how ELSE attempt[a].st
  BY <1>2, <1>3 DEF DesktopTypeOK, AttemptState
<1>5. PICK r \in DesktopRequest : r = [t |-> "close", a |-> b]
  BY DEF DesktopRequest
<1>6. PICK v \in Viewer : v = attempt[b].by
  BY <1>2, SessionTypes
<1>7. PICK q : /\ (how = "shown" /\ q = requests[v]) \/ (how = "closed" /\ q = requests[v] \o <<r>>)
               /\ \A w \in Viewer : requests'[w] = IF w = v THEN q ELSE requests[w]
               /\ DOMAIN requests' = Viewer /\ requests' = [w \in Viewer |-> requests'[w]]
  <2>1. CASE how = "shown"
    <3>1. attempt'[b].st # "closed"
      BY <1>4, <2>1
    <3>2. requests' = requests
      BY <1>2, <3>1 DEF Answered, DesktopTypeOK, AttemptState
    <3>3. QED
      BY <1>2, <2>1, <3>2 DEF DesktopTypeOK
  <2>2. CASE how = "closed"
    <3>1. attempt'[b].st # "shown"
      BY <1>4, <2>2
    <3>2. requests' = [requests EXCEPT ![v] = Append(requests[v], r)]
      BY <1>2, <1>5, <1>6, <3>1 DEF Answered, DesktopTypeOK, AttemptState
    <3>3. Append(requests[v], r) = requests[v] \o <<r>>
      BY <1>2, SessionTypes, SMTT(20)
    <3>4. QED
      BY <1>2, <2>2, <3>2, <3>3 DEF DesktopTypeOK
  <2>3. QED
    BY <2>1, <2>2
<1>8. /\ q \in Seq(DesktopRequest) /\ NoneTwice(q) /\ Range(requests[v]) \subseteq Range(q)
      /\ Range(q) \subseteq Range(requests[v]) \cup {r} /\ (how = "closed" => r \in Range(q))
      /\ how = "shown" => q = requests[v]
  <2>1. requests[v] \in Seq(DesktopRequest) /\ NoneTwice(requests[v]) /\ r.t # "open"
    BY <1>2, <1>5, SessionTypes DEF SessionInv, OpensOnce
  <2>2. QED
    BY <1>7, <2>1, SentOnce, Ranges, OneRange, ZenonT(30)
<1>9. /\ \A w \in Viewer : requests'[w] = IF w = v THEN q ELSE requests[w]
      /\ requests' \in [Viewer -> Seq(DesktopRequest)]
  BY <1>2, <1>7, <1>8 DEF DesktopTypeOK
<1>10. closing[b] = "no"
  BY <1>1, <1>2, SessionTypes DEF SessionInv, ClosedForIt
<1>11. DesktopTypeOK'
  BY <1>1, <1>2, <1>4, <1>9 DEF DesktopTypeOK, registry, manager
<1>12. Unmade' /\ OwnAttempts'
  <2>1. Unmade'
    BY <1>1, <1>2, <1>4 DEF SessionInv, Unmade
  <2>2. \A a \in Try : Waits(a)' => Waits(a)
    BY <1>3, <1>4 DEF Waits
  <2>3. OwnAttempts'
    BY <1>1, <1>2, <1>4, <2>2, SessionTypes, SMTT(20) DEF SessionInv, OwnAttempts
  <2>4. QED
    BY <2>1, <2>3
<1>13. OpensOnce'
  <2>1. \A w \in Viewer : \A x \in Range(requests'[w]) : x.t = "open" => x \in Range(requests[w])
    BY <1>5, <1>8, <1>9
  <2>2. \A w \in Viewer : NoneTwice(requests'[w])
    BY <1>8, <1>9 DEF SessionInv, OpensOnce
  <2>3. QED
    BY <1>1, <1>2, <1>4, <2>1, <2>2, SessionTypes DEF SessionInv, OpensOnce, DesktopRequest
<1>14. AnsweredFor' /\ Registered'
  BY <1>1, <1>4 DEF SessionInv, AnsweredFor, Registered, registry, manager
<1>15. ClosedForIt'
  <2>1. ASSUME NEW w \in Viewer, NEW x \in Range(requests'[w]), x.t = "close"
        PROVE  attempt'[x.a].st = "closed" /\ attempt'[x.a].by = w
    <3>1. CASE x \in Range(requests[w])
      <4>1. x.a \in Try /\ attempt[x.a].st = "closed" /\ attempt[x.a].by = w
        BY <1>2, <2>1, <3>1, SessionTypes DEF SessionInv, ClosedForIt, DesktopRequest
      <4>2. QED
        BY <1>2, <1>4, <4>1
    <3>2. CASE w = v /\ how = "closed" /\ x = r
      BY <1>4, <1>5, <1>6, <3>2
    <3>3. how = "shown" => x \in Range(requests[w])
      BY <1>8, <1>9, <2>1
    <3>4. QED
      BY <1>8, <1>9, <2>1, <3>1, <3>2, <3>3
  <2>2. \A a \in Try : attempt[a].st = "closed" => attempt'[a].st = "closed"
    BY <1>2, <1>4
  <2>3. QED
    BY <1>1, <1>4, <2>1, <2>2, AttendedKept DEF SessionInv
<1>16. CloseComes'
  <2>1. \A w \in Viewer : Range(requests[w]) \subseteq Range(requests'[w])
    BY <1>8, <1>9
  <2>2. attempt'[b].st = "closed" => [t |-> "close", a |-> b] \in Range(requests'[attempt[b].by])
    BY <1>4, <1>5, <1>6, <1>8, <1>9
  <2>3. QED
    BY <1>1, <1>2, <1>4, <2>1, <2>2, SessionTypes, ZenonT(30) DEF SessionInv, CloseComes, registry
<1>17. DoneIsStopped' /\ OneDesktop'
  BY <1>1, <1>2, <1>4, <1>10 DEF SessionInv, DoneIsStopped, OneDesktop, registry, manager
<1>18. QED
  BY <1>11, <1>12, <1>13, <1>14, <1>15, <1>16, <1>17 DEF SessionInv

LEMMA ShowStep == ASSUME SessionInv, NEW v \in Viewer, Show(v) PROVE SessionInv'
<1>1. PICK c, p, n : c = CleanedUp(v) /\ p = requests[v] \o Goodbye(v) /\ n = attempts + 1
  OBVIOUS
<1>2. PICK r : r = [t |-> "open", a |-> n]
  OBVIOUS
<1>3. /\ attempts < MaxTry /\ attempts' = n
      /\ attempt' = [c EXCEPT ![n] = [by |-> v, link |-> link[v], st |-> "asked"]]
      /\ shows' = [shows EXCEPT ![v] = n] /\ requests' = [requests EXCEPT ![v] = p \o <<r>>]
      /\ UNCHANGED <<link, gone, opener, registry, manager>>
  BY <1>1, <1>2 DEF Show
<1>4. DesktopTypeOK /\ NoneTwice(requests[v]) /\ n \in Try /\ attempts \in Nat
  BY <1>1, <1>3, DesktopAssumption, SMTT(20) DEF SessionInv, OpensOnce, DesktopTypeOK, Try
<1>5. /\ attempt[n].st = "none" /\ opener[n] = "none" /\ closing[n] = "no" /\ desk[n] = "none"
      /\ n \notin rtc /\ n \notin toClose /\ n \notin stored
  <2>1. attempt[n].st = "none" /\ opener[n] = "none"
    BY <1>1, <1>4 DEF SessionInv, Unmade
  <2>2. QED
    BY <1>4, <2>1 DEF SessionInv, Registered, AnsweredFor
<1>6. n # shows[v] /\ (shows[v] # 0 => shows[v] \in Try /\ shows[v] <= attempts /\ attempt[shows[v]].by = v)
  BY <1>1, <1>4, SessionTypes DEF SessionInv, OwnAttempts
<1>7. /\ attempt' \in [Try -> AttemptState]
      /\ attempt'[n].by = v /\ attempt'[n].link = link[v] /\ attempt'[n].st = "asked"
      /\ \A a \in Try : a # n => /\ attempt'[a].by = attempt[a].by /\ attempt'[a].link = attempt[a].link
                                 /\ attempt'[a].st = CASE a = shows[v] /\ attempt[a].st = "asked" -> "cancelled"
                                                       [] a = shows[v] /\ attempt[a].st = "shown" -> "closed"
                                                       [] OTHER -> attempt[a].st
  <2>1. /\ c \in [Try -> AttemptState]
        /\ \A a \in Try : c[a].by = attempt[a].by /\ c[a].link = attempt[a].link
        /\ \A a \in Try : c[a].st = CASE a = shows[v] /\ attempt[a].st = "asked" -> "cancelled"
                                       [] a = shows[v] /\ attempt[a].st = "shown" -> "closed"
                                       [] OTHER -> attempt[a].st
    BY <1>1, <1>4, CleanedSays
  <2>2. link[v] \in 0 .. MaxLink
    BY <1>4, SessionTypes
  <2>3. QED
    BY <1>3, <1>4, <2>1, <2>2 DEF AttemptState
<1>8. PICK q : q = p \o <<r>>
  OBVIOUS
<1>9. /\ q \in Seq(DesktopRequest) /\ NoneTwice(q)
      /\ Range(q) = Range(requests[v]) \cup {r} \cup (IF shows[v] # 0 /\ attempt[shows[v]].st = "shown"
                                                      THEN {[t |-> "close", a |-> shows[v]]} ELSE {})
  <2>1. /\ p \in Seq(DesktopRequest) /\ NoneTwice(p)
        /\ Range(p) = Range(requests[v]) \cup (IF shows[v] # 0 /\ attempt[shows[v]].st = "shown"
                                                THEN {[t |-> "close", a |-> shows[v]]} ELSE {})
    BY <1>1, <1>4, GoodbyeRange
  <2>2. r \in DesktopRequest
    BY <1>2, <1>4 DEF DesktopRequest
  <2>3. r \notin Range(requests[v])
    BY <1>1, <1>2, <1>4 DEF SessionInv, OpensOnce
  <2>4. r \notin Range(p)
    BY <1>2, <2>1, <2>3
  <2>5. NoneTwice(q)
    BY <1>8, <2>1, <2>2, <2>4, SentOnce
  <2>6. q \in Seq(DesktopRequest) /\ Range(q) = Range(p) \cup {r}
    BY <1>8, <2>1, <2>2, Ranges, OneRange
  <2>7. QED
    BY <2>1, <2>5, <2>6
<1>10. /\ \A w \in Viewer : requests'[w] = IF w = v THEN q ELSE requests[w]
       /\ \A w \in Viewer : shows'[w] = IF w = v THEN n ELSE shows[w]
  BY <1>3, <1>4, <1>8 DEF DesktopTypeOK
<1>11. DesktopTypeOK'
  <2>1. shows' \in [Viewer -> 0 .. MaxTry] /\ requests' \in [Viewer -> Seq(DesktopRequest)] /\ attempts' \in 0 .. MaxTry
    BY <1>1, <1>3, <1>4, <1>8, <1>9, DesktopAssumption DEF DesktopTypeOK
  <2>2. QED
    BY <1>3, <1>4, <1>7, <2>1 DEF DesktopTypeOK, registry, manager
<1>12. Unmade'
  <2>1. \A a \in Try : a > n => a > attempts /\ a # n /\ a # shows[v]
    BY <1>1, <1>4, <1>6, SessionTypes
  <2>2. QED
    BY <1>3, <1>7, <2>1 DEF SessionInv, Unmade
<1>13. OpensOnce'
  <2>1. ASSUME NEW w \in Viewer, NEW x \in Range(requests'[w]), x.t = "open"
        PROVE  attempt'[x.a].by = w /\ x.a <= attempts' /\ opener'[x.a] = "none"
    <3>1. CASE x \in Range(requests[w])
      <4>1. x.a \in Try /\ attempt[x.a].by = w /\ x.a <= attempts /\ opener[x.a] = "none"
        BY <1>4, <2>1, <3>1, SessionTypes DEF SessionInv, OpensOnce, DesktopRequest
      <4>2. x.a # n /\ x.a <= n
        BY <1>1, <1>4, <4>1 DEF Try
      <4>3. QED
        BY <1>3, <1>7, <4>1, <4>2
    <3>2. CASE w = v /\ x = r
      <4>1. x.a = n /\ n <= n
        BY <1>2, <1>4, <3>2 DEF Try
      <4>2. QED
        BY <1>3, <1>5, <1>7, <3>2, <4>1
    <3>3. QED
      BY <1>9, <1>10, <2>1, <3>1, <3>2
  <2>2. \A w \in Viewer : NoneTwice(requests'[w])
    BY <1>9, <1>10 DEF SessionInv, OpensOnce
  <2>3. QED
    BY <2>1, <2>2 DEF OpensOnce
<1>14. AnsweredFor' /\ Registered'
  <2>1. \A a \in Try : attempt'[a].st \in {"shown", "closed"} => attempt[a].st \in {"shown", "closed"}
    BY <1>7
  <2>2. QED
    BY <1>3, <2>1 DEF SessionInv, AnsweredFor, Registered, registry, manager
<1>15. OwnAttempts'
  <2>1. \A w \in Viewer : shows'[w] # 0 => shows'[w] <= attempts' /\ attempt'[shows'[w]].by = w
    <3>1. ASSUME NEW w \in Viewer, w # v, shows[w] # 0
          PROVE  shows[w] <= attempts' /\ attempt'[shows[w]].by = w
      <4>1. shows[w] \in Try /\ shows[w] <= attempts /\ attempt[shows[w]].by = w
        BY <1>4, <3>1, SessionTypes DEF SessionInv, OwnAttempts
      <4>2. shows[w] # n /\ shows[w] <= n
        BY <1>1, <1>4, <4>1, SessionTypes
      <4>3. QED
        BY <1>3, <1>7, <4>1, <4>2
    <3>2. n <= attempts'
      BY <1>1, <1>3, <1>4
    <3>3. QED
      BY <1>7, <1>10, <3>1, <3>2
  <2>2. \A a \in Try : a # n => (Waits(a)' => Waits(a))
    BY <1>7 DEF Waits
  <2>3. link[v] \in Nat
    BY <1>4, SessionTypes
  <2>4. QED
    BY <1>3, <1>7, <2>1, <2>2, <2>3 DEF SessionInv, OwnAttempts
<1>16. ClosedForIt'
  <2>1. ASSUME NEW w \in Viewer, NEW x \in Range(requests'[w]), x.t = "close"
        PROVE  attempt'[x.a].st = "closed" /\ attempt'[x.a].by = w
    <3>1. CASE x \in Range(requests[w])
      <4>1. x.a \in Try /\ attempt[x.a].st = "closed" /\ attempt[x.a].by = w
        BY <1>4, <2>1, <3>1, SessionTypes DEF SessionInv, ClosedForIt, DesktopRequest
      <4>2. QED
        BY <1>5, <1>7, <4>1
    <3>2. CASE w = v /\ shows[v] # 0 /\ attempt[shows[v]].st = "shown" /\ x = [t |-> "close", a |-> shows[v]]
      BY <1>6, <1>7, <3>2
    <3>3. QED
      BY <1>2, <1>9, <1>10, <2>1, <3>1, <3>2
  <2>2. \A a \in toClose : a # n /\ a \in Try
    BY <1>4, <1>5 DEF DesktopTypeOK
  <2>3. \A a \in toClose' : attempt'[a].link < link'[attempt'[a].by]
    BY <1>3, <1>7, <2>2 DEF SessionInv, ClosedForIt, registry
  <2>4. \A a \in Try : closing'[a] # "no" =>
          attempt'[a].st = "closed" \/ attempt'[a].link < link'[attempt'[a].by] \/ opener'[a] = "failed"
    <3>1. \A a \in Try : closing[a] # "no" => a # n
      BY <1>5
    <3>2. QED
      BY <1>3, <1>7, <3>1 DEF SessionInv, ClosedForIt, registry
  <2>5. /\ \A w \in Viewer, l \in 1 .. MaxLink : <<w, l>> \in gone' => l < link'[w]
        /\ \A a \in Try : closing'[a] \in {"asked", "peer"} => opener'[a] = "answered"
    BY <1>3 DEF SessionInv, ClosedForIt, registry
  <2>6. QED
    BY <2>1, <2>3, <2>4, <2>5 DEF ClosedForIt
<1>17. CloseComes'
  <2>1. ASSUME NEW a \in Try, attempt'[a].st \in {"shown", "closed"}, closing'[a] = "no"
        PROVE  \/ attempt'[a].link < link'[attempt'[a].by]
                    /\ (<<attempt'[a].by, attempt'[a].link>> \in gone' \/ a \in toClose')
               \/ attempt'[a].link = link'[attempt'[a].by]
                    /\ (attempt'[a].st = "closed" => [t |-> "close", a |-> a] \in Range(requests'[attempt'[a].by]))
    <3>1. /\ a # n /\ attempt[a].st \in {"shown", "closed"} /\ closing[a] = "no"
          /\ attempt'[a].by = attempt[a].by /\ attempt'[a].link = attempt[a].link
          /\ UNCHANGED <<link, gone, toClose>>
      BY <1>3, <1>7, <2>1 DEF registry
    <3>2. Range(requests[attempt[a].by]) \subseteq Range(requests'[attempt[a].by])
      BY <1>4, <1>9, <1>10, SessionTypes
    <3>3. CASE attempt'[a].st = "closed" => attempt[a].st = "closed"
      BY <3>1, <3>2, <3>3 DEF SessionInv, CloseComes
    <3>4. CASE attempt'[a].st = "closed" /\ attempt[a].st = "shown"
      <4>1. a = shows[v] /\ shows[v] # 0 /\ attempt[a].by = v
        BY <1>6, <1>7, <3>1, <3>4, SessionTypes DEF Try
      <4>2. [t |-> "close", a |-> a] \in Range(requests'[v])
        BY <1>9, <1>10, <3>4, <4>1
      <4>3. QED
        BY <3>1, <4>1, <4>2 DEF SessionInv, CloseComes
    <3>5. QED
      BY <3>1, <3>3, <3>4
  <2>2. QED
    BY <2>1 DEF CloseComes
<1>18. DoneIsStopped' /\ OneDesktop'
  BY <1>3, <1>5, <1>7 DEF SessionInv, DoneIsStopped, OneDesktop, registry, manager
<1>19. QED
  BY <1>11, <1>12, <1>13, <1>14, <1>15, <1>16, <1>17, <1>18 DEF SessionInv

LEMMA LinkLostStep == ASSUME SessionInv, NEW v \in Viewer, LinkLost(v) PROVE SessionInv'
<1>1. PICK i \in 0 .. Len(requests[v]) :
        /\ requests' = [requests EXCEPT ![v] = <<>>]
        /\ opener' = [a \in Try |-> IF \E j \in 1 .. i : requests[v][j] = [t |-> "open", a |-> a]
                                    THEN "called" ELSE opener[a]]
  BY DEF LinkLost
<1>2. /\ link[v] < MaxLink /\ link' = [link EXCEPT ![v] = link[v] + 1] /\ gone' = gone \cup {<<v, link[v]>>}
      /\ attempt' = [a \in Try |-> IF attempt[a].by = v /\ Waits(a) THEN [attempt[a] EXCEPT !.st = "failed"]
                                   ELSE attempt[a]]
      /\ UNCHANGED <<attempts, shows, registry, manager>>
  BY DEF LinkLost, DesktopTypeOK, SessionInv
<1>3. DesktopTypeOK
  BY DEF SessionInv
<1>4. /\ attempt' \in [Try -> AttemptState]
      /\ \A a \in Try : attempt'[a].by = attempt[a].by /\ attempt'[a].link = attempt[a].link
      /\ \A a \in Try : attempt'[a].st = IF attempt[a].by = v /\ Waits(a) THEN "failed" ELSE attempt[a].st
  <2>1. \A a \in Try : attempt[a] \in AttemptState
    BY <1>3, SessionTypes
  <2>2. \A a \in Try : [attempt[a] EXCEPT !.st = "failed"] \in AttemptState
    BY <2>1 DEF AttemptState
  <2>3. QED
    BY <1>2, <2>1, <2>2 DEF AttemptState
<1>5. /\ opener' \in [Try -> {"none", "called", "registered", "started", "refused", "failed", "answered"}]
      /\ \A a \in Try : opener'[a] = opener[a]
           \/ (opener[a] = "none" /\ opener'[a] = "called" /\ attempt[a].by = v /\ a <= attempts)
  <2>1. ASSUME NEW a \in Try, NEW j \in 1 .. i, requests[v][j] = [t |-> "open", a |-> a]
        PROVE  opener[a] = "none" /\ attempt[a].by = v /\ a <= attempts
    <3>1. requests[v] \in Seq(DesktopRequest) /\ j \in DOMAIN requests[v]
      BY <1>3, SessionTypes
    <3>2. [t |-> "open", a |-> a] \in Range(requests[v])
      BY <2>1, <3>1 DEF Range
    <3>3. QED
      BY <3>2 DEF SessionInv, OpensOnce
  <2>2. \A a \in Try : opener[a] \in {"none", "called", "registered", "started", "refused", "failed", "answered"}
    BY <1>3 DEF DesktopTypeOK
  <2>3. \A a \in Try : opener'[a] = IF \E j \in 1 .. i : requests[v][j] = [t |-> "open", a |-> a]
                                    THEN "called" ELSE opener[a]
    BY <1>1
  <2>4. QED
    BY <1>1, <2>1, <2>2, <2>3
<1>6. /\ \A w \in Viewer : link'[w] = IF w = v THEN link[v] + 1 ELSE link[w]
      /\ \A w \in Viewer : link'[w] \in 1 .. MaxLink /\ link[w] <= link'[w] /\ link[w] \in Nat
      /\ \A w \in Viewer : Range(requests'[w]) = IF w = v THEN {} ELSE Range(requests[w])
      /\ \A w \in Viewer : NoneTwice(requests'[w])
  <2>1. \A w \in Viewer : link'[w] = IF w = v THEN link[v] + 1 ELSE link[w]
    BY <1>2, <1>3 DEF DesktopTypeOK
  <2>2. \A w \in Viewer : link'[w] \in 1 .. MaxLink /\ link[w] <= link'[w] /\ link[w] \in Nat
    BY <1>2, <1>3, <2>1, SessionTypes
  <2>3. \A w \in Viewer : requests'[w] = IF w = v THEN <<>> ELSE requests[w]
    BY <1>1, <1>3 DEF DesktopTypeOK
  <2>4. QED
    BY <2>1, <2>2, <2>3, NoRange DEF SessionInv, OpensOnce
<1>7. DesktopTypeOK'
  <2>1. link' \in [Viewer -> 1 .. MaxLink]
    BY <1>2, <1>3, <1>6 DEF DesktopTypeOK
  <2>2. requests' \in [Viewer -> Seq(DesktopRequest)]
    BY <1>1, <1>3, NoRange DEF DesktopTypeOK
  <2>3. gone' \subseteq (Viewer \X (1 .. MaxLink))
    BY <1>2, <1>3, SessionTypes DEF DesktopTypeOK
  <2>4. QED
    BY <1>2, <1>3, <1>4, <1>5, <2>1, <2>2, <2>3 DEF DesktopTypeOK, registry, manager
<1>8. Unmade'
  <2>1. \A a \in Try : a > attempts => ~Waits(a) /\ ~(a <= attempts)
    BY <1>3, SessionTypes DEF SessionInv, Unmade, Waits
  <2>2. QED
    BY <1>2, <1>4, <1>5, <2>1 DEF SessionInv, Unmade
<1>9. OpensOnce'
  <2>1. ASSUME NEW w \in Viewer, NEW x \in Range(requests'[w]), x.t = "open"
        PROVE  attempt'[x.a].by = w /\ x.a <= attempts' /\ opener'[x.a] = "none"
    <3>1. w # v /\ x \in Range(requests[w])
      BY <1>6, <2>1
    <3>2. x.a \in Try /\ attempt[x.a].by = w /\ x.a <= attempts /\ opener[x.a] = "none"
      BY <1>3, <2>1, <3>1, SessionTypes DEF SessionInv, OpensOnce, DesktopRequest
    <3>3. QED
      BY <1>2, <1>4, <1>5, <3>1, <3>2
  <2>2. QED
    BY <1>6, <2>1 DEF OpensOnce
<1>10. AnsweredFor'
  <2>1. \A a \in Try : opener[a] # "none" => opener'[a] = opener[a]
    BY <1>5
  <2>2. \A a \in Try : attempt'[a].st \in {"shown", "closed"} => attempt[a].st = attempt'[a].st
    BY <1>4
  <2>3. desk' = desk /\ unlisting' = unlisting
    BY <1>2 DEF manager
  <2>4. \A a \in Try : attempt'[a].st \in {"shown", "closed"} => opener'[a] = "answered"
    BY <2>1, <2>2 DEF SessionInv, AnsweredFor
  <2>5. \A a \in Try : desk'[a] # "none" => opener'[a] \in {"started", "answered"}
    BY <2>1, <2>3 DEF SessionInv, AnsweredFor
  <2>6. QED
    BY <2>3, <2>4, <2>5 DEF SessionInv, AnsweredFor
<1>11. OwnAttempts'
  <2>1. \A w \in Viewer : shows'[w] # 0 => shows'[w] <= attempts' /\ attempt'[shows'[w]].by = w
    BY <1>2, <1>3, <1>4, SessionTypes DEF SessionInv, OwnAttempts
  <2>2. \A a \in Try : attempt'[a].link <= link'[attempt'[a].by]
    <3>1. ASSUME NEW a \in Try PROVE attempt[a].link <= link'[attempt[a].by]
      <4>1. /\ attempt[a].by \in Viewer /\ attempt[a].link \in Nat
            /\ attempt[a].link <= link[attempt[a].by] /\ link[attempt[a].by] <= link'[attempt[a].by]
            /\ link[attempt[a].by] \in Nat /\ link'[attempt[a].by] \in Nat
        BY <1>3, <1>6, SessionTypes DEF SessionInv, OwnAttempts
      <4>2. QED
        BY <4>1
    <3>2. QED
      BY <1>4, <3>1
  <2>3. \A a \in Try : Waits(a)' => Waits(a) /\ attempt[a].by # v
    BY <1>4 DEF Waits
  <2>4. \A a \in Try : Waits(a)' => attempt'[a].link = link'[attempt'[a].by]
    BY <1>3, <1>4, <1>6, <2>3, SessionTypes DEF SessionInv, OwnAttempts
  <2>5. QED
    BY <2>1, <2>2, <2>4 DEF OwnAttempts
<1>12. Registered'
  <2>1. \A a \in Try : opener[a] = "none" => closing[a] = "no" /\ a \notin rtc /\ a \notin stored /\ a \notin toClose
    BY DEF SessionInv, Registered
  <2>2. QED
    BY <1>2, <1>3, <1>5, <2>1 DEF SessionInv, Registered, registry, DesktopTypeOK
<1>13. \A a \in Try : attempt[a].link < link[attempt[a].by] => attempt'[a].link < link'[attempt'[a].by]
  <2>1. ASSUME NEW a \in Try, attempt[a].link < link[attempt[a].by] PROVE attempt[a].link < link'[attempt[a].by]
    <3>1. /\ attempt[a].by \in Viewer /\ attempt[a].link \in Nat
          /\ link[attempt[a].by] <= link'[attempt[a].by] /\ link[attempt[a].by] \in Nat /\ link'[attempt[a].by] \in Nat
      BY <1>3, <1>6, SessionTypes
    <3>2. QED
      BY <2>1, <3>1
  <2>2. QED
    BY <1>4, <2>1
<1>14. \A a \in Try : attempt[a].st \in {"shown", "closed"} <=> attempt'[a].st \in {"shown", "closed"}
  BY <1>4 DEF Waits
<1>15. \A a \in Try : attempt[a].st = "closed" <=> attempt'[a].st = "closed"
  BY <1>4 DEF Waits
<1>16. ClosedForIt'
  <2>1. ASSUME NEW w \in Viewer, NEW x \in Range(requests'[w]), x.t = "close"
        PROVE  attempt'[x.a].st = "closed" /\ attempt'[x.a].by = w
    <3>1. x \in Range(requests[w])
      BY <1>6, <2>1
    <3>2. x.a \in Try /\ attempt[x.a].st = "closed" /\ attempt[x.a].by = w
      BY <1>3, <2>1, <3>1, SessionTypes DEF SessionInv, ClosedForIt, DesktopRequest
    <3>3. QED
      BY <1>4, <1>15, <3>2
  <2>2. \A w \in Viewer, l \in 1 .. MaxLink : <<w, l>> \in gone' => l < link'[w]
    <3>1. ASSUME NEW w \in Viewer, NEW l \in 1 .. MaxLink, <<w, l>> \in gone PROVE l < link'[w]
      <4>1. l < link[w]
        BY <3>1 DEF SessionInv, ClosedForIt
      <4>2. QED
        BY <1>6, <4>1
    <3>2. link[v] < link'[v]
      BY <1>6
    <3>3. QED
      BY <1>2, <3>1, <3>2
  <2>3. \A a \in toClose' : attempt'[a].link < link'[attempt'[a].by]
    BY <1>2, <1>3, <1>13 DEF SessionInv, ClosedForIt, registry, DesktopTypeOK
  <2>4. \A a \in Try : closing'[a] # "no" =>
          attempt'[a].st = "closed" \/ attempt'[a].link < link'[attempt'[a].by] \/ opener'[a] = "failed"
    BY <1>2, <1>5, <1>13, <1>15 DEF SessionInv, ClosedForIt, registry
  <2>5. \A a \in Try : closing'[a] \in {"asked", "peer"} => opener'[a] = "answered"
    BY <1>2, <1>5 DEF SessionInv, ClosedForIt, registry
  <2>6. QED
    BY <2>1, <2>2, <2>3, <2>4, <2>5 DEF ClosedForIt
<1>17. CloseComes'
  <2>1. ASSUME NEW a \in Try, attempt'[a].st \in {"shown", "closed"}, closing'[a] = "no"
        PROVE  \/ attempt'[a].link < link'[attempt'[a].by]
                    /\ (<<attempt'[a].by, attempt'[a].link>> \in gone' \/ a \in toClose')
               \/ attempt'[a].link = link'[attempt'[a].by]
                    /\ (attempt'[a].st = "closed" => [t |-> "close", a |-> a] \in Range(requests'[attempt'[a].by]))
    <3>1. /\ attempt[a].st \in {"shown", "closed"} /\ closing[a] = "no" /\ toClose' = toClose /\ gone \subseteq gone'
      BY <1>2, <1>14, <2>1 DEF registry
    <3>2. CASE attempt[a].link < link[attempt[a].by] /\ (<<attempt[a].by, attempt[a].link>> \in gone \/ a \in toClose)
      BY <1>4, <1>13, <3>1, <3>2
    <3>3. CASE attempt[a].link = link[attempt[a].by] /\ attempt[a].by = v
      BY <1>2, <1>4, <1>6, <3>1, <3>3
    <3>4. CASE attempt[a].link = link[attempt[a].by] /\ attempt[a].by # v
      <4>0. attempt[a].by \in Viewer /\ ~(attempt[a].link < link[attempt[a].by])
        BY <1>3, <1>6, <3>4, SessionTypes
      <4>1. attempt[a].st = "closed" => [t |-> "close", a |-> a] \in Range(requests[attempt[a].by])
        BY <3>1, <4>0 DEF SessionInv, CloseComes
      <4>2. QED
        BY <1>4, <1>6, <1>15, <3>4, <4>0, <4>1
    <3>5. QED
      BY <3>1, <3>2, <3>3, <3>4 DEF SessionInv, CloseComes
  <2>2. QED
    BY <2>1 DEF CloseComes
<1>18. DoneIsStopped' /\ OneDesktop'
  BY <1>2, <1>4, <1>13, <1>14, <1>15 DEF SessionInv, DoneIsStopped, OneDesktop, registry, manager
<1>19. QED
  BY <1>7, <1>8, <1>9, <1>10, <1>11, <1>12, <1>16, <1>17, <1>18 DEF SessionInv

-----------------------------------------------------------------------------

\* A session that is closed was the registry's, and is closed for a reason.
LEMMA ClosesStep ==
  ASSUME SessionInv, NEW b \in Try, NEW who \in {"asked", "peer"}, b \in rtc, Closes(b, who),
         toClose' \subseteq toClose, toClose \subseteq toClose' \cup {b},
         attempt[b].st = "closed" \/ attempt[b].link < link[attempt[b].by],
         \A v \in Viewer : \/ requests'[v] = requests[v]
                           \/ /\ requests[v] # <<>> /\ requests'[v] = Tail(requests[v])
                              /\ Head(requests[v]) = [t |-> "close", a |-> b],
         requests' \in [Viewer -> Seq(DesktopRequest)],
         UNCHANGED <<viewVars, link, gone, opener, manager>>
  PROVE  SessionInv'
<1>1. /\ rtc' = rtc \ {b} /\ stored' = stored \ {b}
      /\ closing' = [closing EXCEPT ![b] = IF b \in stored THEN who ELSE "done"]
  BY DEF Closes
<1>2. DesktopTypeOK /\ closing[b] = "no"
  BY DEF SessionInv, Registered
<1>3. /\ closing' \in [Try -> {"no", "asked", "peer", "done"}] /\ closing'[b] # "no"
      /\ \A a \in Try : a # b => closing'[a] = closing[a]
      /\ closing'[b] \in {"asked", "peer"} => b \in stored
      /\ b \in stored => closing'[b] # "done"
  BY <1>1, <1>2 DEF DesktopTypeOK
<1>4. /\ \A v \in Viewer : Range(requests'[v]) \subseteq Range(requests[v]) /\ NoneTwice(requests'[v])
      /\ \A v \in Viewer : \A a \in Try \ {b} :
           [t |-> "close", a |-> a] \in Range(requests[v]) => [t |-> "close", a |-> a] \in Range(requests'[v])
  <2>1. ASSUME NEW v \in Viewer
        PROVE  /\ Range(requests'[v]) \subseteq Range(requests[v]) /\ NoneTwice(requests'[v])
               /\ \A a \in Try \ {b} :
                    [t |-> "close", a |-> a] \in Range(requests[v]) => [t |-> "close", a |-> a] \in Range(requests'[v])
    <3>1. requests[v] \in Seq(DesktopRequest) /\ NoneTwice(requests[v])
      BY <1>2, SessionTypes DEF SessionInv, OpensOnce
    <3>2. CASE requests'[v] = requests[v]
      BY <3>1, <3>2
    <3>3. CASE /\ requests[v] # <<>> /\ requests'[v] = Tail(requests[v])
               /\ Head(requests[v]) = [t |-> "close", a |-> b]
      BY <3>1, <3>3, ReadRange
    <3>4. QED
      BY <3>2, <3>3
  <2>2. QED
    BY <2>1
<1>5. UNCHANGED <<attempt, attempts, shows, current, desk, unlisting>>
  BY DEF viewVars, manager
<1>6. DesktopTypeOK' /\ Unmade' /\ OwnAttempts'
  BY <1>1, <1>2, <1>3, <1>5 DEF SessionInv, DesktopTypeOK, Unmade, OwnAttempts, Waits
<1>7. OpensOnce' /\ AnsweredFor'
  BY <1>4, <1>5 DEF SessionInv, OpensOnce, AnsweredFor
<1>8. opener[b] \notin {"none", "called"}
  BY DEF SessionInv, Registered
<1>9. Registered'
  BY <1>1, <1>2, <1>3, <1>8 DEF SessionInv, Registered, DesktopTypeOK
<1>10. ClosedForIt'
  <2>1. \A v \in Viewer : \A r \in Range(requests'[v]) : r.t = "close" => attempt'[r.a].st = "closed" /\ attempt'[r.a].by = v
    BY <1>4, <1>5 DEF SessionInv, ClosedForIt
  <2>2. \A a \in toClose' : attempt'[a].link < link'[attempt'[a].by]
    BY <1>5 DEF SessionInv, ClosedForIt
  <2>3. \A a \in Try : closing'[a] # "no" =>
          attempt'[a].st = "closed" \/ attempt'[a].link < link'[attempt'[a].by] \/ opener'[a] = "failed"
    BY <1>3, <1>5 DEF SessionInv, ClosedForIt
  <2>4. \A a \in Try : closing'[a] \in {"asked", "peer"} => opener'[a] = "answered"
    BY <1>3 DEF SessionInv, ClosedForIt, Registered
  <2>5. QED
    BY <2>1, <2>2, <2>3, <2>4 DEF SessionInv, ClosedForIt
<1>11. CloseComes'
  <2>1. \A a \in Try : closing'[a] = "no" => a # b /\ closing[a] = "no" /\ (a \in toClose => a \in toClose')
    BY <1>3
  <2>2. QED
    BY <1>2, <1>4, <1>5, <2>1, SessionTypes DEF SessionInv, CloseComes
<1>12. attempt[b].st \in {"shown", "closed"} => b \in stored
  BY <1>2 DEF SessionInv, AnsweredFor, Registered
<1>13. DoneIsStopped' /\ OneDesktop'
  BY <1>3, <1>5, <1>12 DEF SessionInv, DoneIsStopped, OneDesktop
<1>14. QED
  BY <1>6, <1>7, <1>9, <1>10, <1>11, <1>13 DEF SessionInv

LEMMA PeerClosesStep == ASSUME SessionInv, NEW b \in Try, PeerCloses(b) PROVE SessionInv'
<1>1. b \in toClose /\ toClose' = toClose \ {b} /\ UNCHANGED <<viewVars, wires, opener, manager>>
  BY DEF PeerCloses
<1>2. DesktopTypeOK /\ attempt[b].link < link[attempt[b].by]
  BY <1>1 DEF SessionInv, ClosedForIt
<1>3. CASE b \in rtc
  <2>1. Closes(b, "peer")
    BY <1>3 DEF PeerCloses
  <2>2. UNCHANGED <<link, gone, requests>>
    BY <1>1 DEF wires
  <2>3. toClose' \subseteq toClose /\ toClose \subseteq toClose' \cup {b} /\ requests' \in [Viewer -> Seq(DesktopRequest)]
    BY <1>1, <1>2, <2>2 DEF DesktopTypeOK
  <2>4. QED
    BY <1>1, <1>2, <1>3, <2>1, <2>2, <2>3, ClosesStep
<1>4. CASE b \notin rtc
  <2>1. UNCHANGED <<rtc, stored, closing>> /\ UNCHANGED <<attempt, attempts, shows, link, gone, requests, current, desk, unlisting>>
    BY <1>1, <1>4 DEF PeerCloses, viewVars, wires, manager
  <2>2. attempt[b].st \in {"shown", "closed"} => closing[b] # "no"
    BY <1>4 DEF SessionInv, AnsweredFor, Registered
  <2>3. DesktopTypeOK' /\ Unmade' /\ OpensOnce' /\ AnsweredFor' /\ OwnAttempts' /\ Registered'
    BY <1>1, <1>2, <2>1 DEF SessionInv, DesktopTypeOK, Unmade, OpensOnce, AnsweredFor, OwnAttempts, Registered, Waits
  <2>4. ClosedForIt' /\ DoneIsStopped' /\ OneDesktop'
    BY <1>1, <2>1 DEF SessionInv, ClosedForIt, DoneIsStopped, OneDesktop
  <2>5. CloseComes'
    BY <1>1, <2>1, <2>2 DEF SessionInv, CloseComes
  <2>6. QED
    BY <2>3, <2>4, <2>5 DEF SessionInv
<1>5. QED
  BY <1>3, <1>4

LEMMA ReadsStep == ASSUME SessionInv, NEW v \in Viewer, Reads(v) PROVE SessionInv'
<1>1. PICK m : m = Head(requests[v])
  OBVIOUS
<1>2. /\ requests[v] # <<>> /\ requests' = [requests EXCEPT ![v] = Tail(requests[v])]
      /\ UNCHANGED <<viewVars, link, gone, toClose, manager>>
  BY DEF Reads, SessionInv, DesktopTypeOK
<1>3. DesktopTypeOK /\ requests[v] \in Seq(DesktopRequest) /\ NoneTwice(requests[v])
  BY SessionTypes DEF SessionInv, OpensOnce
<1>4. /\ m \in DesktopRequest /\ m.a \in Try /\ Tail(requests[v]) \in Seq(DesktopRequest)
      /\ Range(requests[v]) = Range(Tail(requests[v])) \cup {m}
      /\ NoneTwice(Tail(requests[v])) /\ (m.t = "open" => m \notin Range(Tail(requests[v])))
  <2>1. m \in DesktopRequest
    BY <1>1, <1>2, <1>3, ReadRange
  <2>2. QED
    BY <1>1, <1>2, <1>3, <2>1, ReadRange DEF DesktopRequest
<1>5. /\ \A w \in Viewer : requests'[w] = IF w = v THEN Tail(requests[v]) ELSE requests[w]
      /\ requests' \in [Viewer -> Seq(DesktopRequest)]
  BY <1>2, <1>3, <1>4 DEF DesktopTypeOK
<1>6. UNCHANGED <<attempt, attempts, shows, link, gone, toClose, current, desk, unlisting>>
  BY <1>2 DEF viewVars, manager
<1>7. CASE m.t = "close" /\ m.a \in rtc /\ attempt[m.a].link = link[v]
  <2>1. Closes(m.a, "asked") /\ UNCHANGED opener
    BY <1>1, <1>7 DEF Reads
  <2>2. m = [t |-> "close", a |-> m.a]
    BY <1>4, <1>7 DEF DesktopRequest
  <2>3. attempt[m.a].st = "closed"
    BY <1>4, <1>7 DEF SessionInv, ClosedForIt
  <2>4. \A w \in Viewer : \/ requests'[w] = requests[w]
                          \/ /\ requests[w] # <<>> /\ requests'[w] = Tail(requests[w])
                             /\ Head(requests[w]) = [t |-> "close", a |-> m.a]
    BY <1>1, <1>2, <1>5, <2>2
  <2>5. toClose' \subseteq toClose /\ toClose \subseteq toClose' \cup {m.a}
    BY <1>6
  <2>6. QED
    BY <1>2, <1>4, <1>5, <1>7, <2>1, <2>3, <2>4, <2>5, ClosesStep
<1>8. /\ \A w \in Viewer : Range(requests'[w]) \subseteq Range(requests[w]) /\ NoneTwice(requests'[w])
      /\ \A w \in Viewer : Range(requests[w]) \subseteq Range(requests'[w]) \cup {m}
      /\ \A w \in Viewer : w # v => Range(requests[w]) = Range(requests'[w])
  BY <1>4, <1>5 DEF SessionInv, OpensOnce
<1>9. CASE m.t = "close" /\ ~(m.a \in rtc /\ attempt[m.a].link = link[v])
  <2>1. UNCHANGED <<opener, rtc, stored, closing>>
    BY <1>1, <1>9 DEF Reads
  <2>2. DesktopTypeOK' /\ Unmade' /\ AnsweredFor' /\ OwnAttempts' /\ Registered'
    BY <1>3, <1>5, <1>6, <2>1 DEF SessionInv, DesktopTypeOK, Unmade, AnsweredFor, OwnAttempts, Registered, Waits
  <2>3. OpensOnce' /\ ClosedForIt'
    BY <1>6, <1>8, <2>1 DEF SessionInv, OpensOnce, ClosedForIt
  <2>4. m = [t |-> "close", a |-> m.a] /\ attempt[m.a].by = v /\ attempt[m.a].st = "closed"
    BY <1>4, <1>9 DEF SessionInv, ClosedForIt, DesktopRequest
  <2>5. closing[m.a] = "no" => attempt[m.a].link # link[v]
    BY <1>4, <1>9, <2>4 DEF SessionInv, AnsweredFor, Registered
  <2>6. \A a \in Try : a # m.a =>
          \A w \in Viewer : [t |-> "close", a |-> a] \in Range(requests[w]) => [t |-> "close", a |-> a] \in Range(requests'[w])
    BY <1>8, <2>4
  <2>7. CloseComes'
    BY <1>3, <1>4, <1>6, <2>1, <2>4, <2>5, <2>6, SessionTypes DEF SessionInv, CloseComes
  <2>8. DoneIsStopped' /\ OneDesktop'
    BY <1>6, <2>1 DEF SessionInv, DoneIsStopped, OneDesktop
  <2>9. QED
    BY <2>2, <2>3, <2>7, <2>8 DEF SessionInv
<1>10. CASE m.t = "open"
  <2>1. opener' = [opener EXCEPT ![m.a] = "called"] /\ UNCHANGED <<rtc, stored, closing>>
    BY <1>1, <1>10 DEF Reads
  <2>2. opener[m.a] = "none" /\ m.a <= attempts /\ attempt[m.a].by = v
    BY <1>4, <1>10 DEF SessionInv, OpensOnce
  <2>3. /\ opener' \in [Try -> {"none", "called", "registered", "started", "refused", "failed", "answered"}]
        /\ \A a \in Try : opener'[a] = IF a = m.a THEN "called" ELSE opener[a]
    BY <1>3, <1>4, <2>1 DEF DesktopTypeOK
  <2>4. DesktopTypeOK' /\ OwnAttempts'
    BY <1>3, <1>5, <1>6, <2>1, <2>3 DEF SessionInv, DesktopTypeOK, OwnAttempts, Waits
  <2>5. Unmade'
    BY <1>3, <1>4, <1>6, <2>2, <2>3, SessionTypes DEF SessionInv, Unmade
  <2>6. AnsweredFor' /\ Registered'
    BY <1>3, <1>6, <2>1, <2>2, <2>3 DEF SessionInv, AnsweredFor, Registered, DesktopTypeOK
  <2>7. \A w \in Viewer : \A r \in Range(requests'[w]) : r.t = "open" =>
          attempt'[r.a].by = w /\ r.a <= attempts' /\ opener'[r.a] = "none"
    <3>1. ASSUME NEW w \in Viewer, NEW r \in Range(requests'[w]), r.t = "open"
          PROVE  attempt'[r.a].by = w /\ r.a <= attempts' /\ opener'[r.a] = "none"
      <4>1. r \in Range(requests[w]) /\ r \in DesktopRequest /\ r.a \in Try
        BY <1>3, <1>8, <3>1, SessionTypes DEF DesktopRequest
      <4>2. attempt[r.a].by = w /\ r.a <= attempts /\ opener[r.a] = "none"
        BY <3>1, <4>1 DEF SessionInv, OpensOnce
      <4>3. r # m
        BY <1>4, <1>5, <1>10, <2>2, <3>1, <4>2
      <4>4. r.a # m.a
        BY <1>4, <1>10, <3>1, <4>1, <4>3 DEF DesktopRequest
      <4>5. QED
        BY <1>6, <2>3, <4>1, <4>2, <4>4
    <3>2. QED
      BY <3>1
  <2>8. OpensOnce'
    BY <1>8, <2>7 DEF OpensOnce
  <2>9. ClosedForIt'
    BY <1>6, <1>8, <2>1, <2>2, <2>3 DEF SessionInv, ClosedForIt
  <2>10. \A a \in Try, w \in Viewer :
           [t |-> "close", a |-> a] \in Range(requests[w]) => [t |-> "close", a |-> a] \in Range(requests'[w])
    BY <1>8, <1>10
  <2>11. CloseComes' /\ DoneIsStopped' /\ OneDesktop'
    BY <1>3, <1>6, <2>1, <2>10, SessionTypes DEF SessionInv, CloseComes, DoneIsStopped, OneDesktop
  <2>12. QED
    BY <2>4, <2>5, <2>6, <2>8, <2>9, <2>11 DEF SessionInv
<1>11. m.t = "open" \/ m.t = "close"
  BY <1>4 DEF DesktopRequest
<1>12. QED
  BY <1>7, <1>9, <1>10, <1>11

LEMMA RegistersStep == ASSUME SessionInv, NEW b \in Try, Registers(b) PROVE SessionInv'
<1>1. UNCHANGED <<attempt, attempts, shows, link, gone, requests>>
  BY DEF Registers, viewVars, wires
<1>2. DesktopTypeOK
  BY DEF SessionInv
<1>3. /\ opener[b] = "called" /\ opener' = [opener EXCEPT ![b] = "registered"] /\ rtc' = rtc \cup {b}
      /\ UNCHANGED <<stored, toClose, closing, current, desk, unlisting>>
  BY DEF Registers, manager
<1>4. DesktopTypeOK'
  BY <1>1, <1>2, <1>3, DesktopAssumption DEF DesktopTypeOK, Try
<1>5. Unmade' /\ OpensOnce' /\ OwnAttempts'
  BY <1>1, <1>2, <1>3, SessionTypes DEF SessionInv, Unmade, OpensOnce, OwnAttempts, Waits, DesktopTypeOK, DesktopRequest
<1>6. AnsweredFor'
  BY <1>1, <1>2, <1>3 DEF SessionInv, AnsweredFor, DesktopTypeOK
<1>7. Registered'
  BY <1>1, <1>2, <1>3 DEF SessionInv, Registered, DesktopTypeOK
<1>8. ClosedForIt'
  BY <1>1, <1>2, <1>3 DEF SessionInv, ClosedForIt, DesktopTypeOK
<1>9. CloseComes'
  BY <1>1, <1>2, <1>3 DEF SessionInv, CloseComes, DesktopTypeOK
<1>10. DoneIsStopped' /\ OneDesktop'
  BY <1>1, <1>2, <1>3 DEF SessionInv, DoneIsStopped, OneDesktop, AnsweredFor, ClosedForIt, DesktopTypeOK
<1>11. QED
  BY <1>4, <1>5, <1>6, <1>7, <1>8, <1>9, <1>10 DEF SessionInv

LEMMA StoresStep == ASSUME SessionInv, NEW b \in Try, Stores(b) PROVE SessionInv'
<1>1. UNCHANGED <<attempt, attempts, shows, link, gone, requests>>
  BY DEF Stores, viewVars, wires
<1>2. DesktopTypeOK
  BY DEF SessionInv
<1>3. /\ opener[b] = "started" /\ opener' = [opener EXCEPT ![b] = "answered"] /\ stored' = stored \cup {b}
      /\ UNCHANGED <<rtc, toClose, closing, current, desk, unlisting>>
  BY DEF Stores, manager
<1>4. DesktopTypeOK'
  BY <1>1, <1>2, <1>3, DesktopAssumption DEF DesktopTypeOK, Try
<1>5. Unmade' /\ OpensOnce' /\ OwnAttempts'
  BY <1>1, <1>2, <1>3, SessionTypes DEF SessionInv, Unmade, OpensOnce, OwnAttempts, Waits, DesktopTypeOK, DesktopRequest
<1>6. AnsweredFor'
  BY <1>1, <1>2, <1>3 DEF SessionInv, AnsweredFor, DesktopTypeOK
<1>7. Registered'
  BY <1>1, <1>2, <1>3 DEF SessionInv, Registered, DesktopTypeOK
<1>8. ClosedForIt'
  BY <1>1, <1>2, <1>3 DEF SessionInv, ClosedForIt, DesktopTypeOK
<1>9. CloseComes'
  BY <1>1, <1>2, <1>3 DEF SessionInv, CloseComes, DesktopTypeOK
<1>10. DoneIsStopped' /\ OneDesktop'
  BY <1>1, <1>2, <1>3 DEF SessionInv, DoneIsStopped, OneDesktop, AnsweredFor, ClosedForIt, DesktopTypeOK
<1>11. QED
  BY <1>4, <1>5, <1>6, <1>7, <1>8, <1>9, <1>10 DEF SessionInv

LEMMA OpenFailsStep == ASSUME SessionInv, NEW b \in Try, OpenFails(b) PROVE SessionInv'
<1>1. UNCHANGED <<attempt, attempts, shows, link, gone, requests>>
  BY DEF OpenFails, viewVars, wires
<1>2. DesktopTypeOK
  BY DEF SessionInv
<1>3. /\ opener[b] = "refused" /\ opener' = [opener EXCEPT ![b] = "failed"] /\ b \notin stored
      /\ rtc' = rtc \ {b} /\ closing' = (IF b \in rtc THEN [closing EXCEPT ![b] = "done"] ELSE closing)
      /\ UNCHANGED <<stored, toClose, current, desk, unlisting>>
  <2>1. opener[b] = "refused" /\ b \notin stored
    BY DEF OpenFails, SessionInv, Registered
  <2>2. QED
    BY <2>1 DEF OpenFails, Closes, manager
<1>4. DesktopTypeOK'
  BY <1>1, <1>2, <1>3, DesktopAssumption DEF DesktopTypeOK, Try
<1>5. Unmade' /\ OpensOnce' /\ OwnAttempts'
  BY <1>1, <1>2, <1>3, SessionTypes DEF SessionInv, Unmade, OpensOnce, OwnAttempts, Waits, DesktopTypeOK, DesktopRequest
<1>6. AnsweredFor'
  BY <1>1, <1>2, <1>3 DEF SessionInv, AnsweredFor, DesktopTypeOK
<1>7. Registered'
  BY <1>1, <1>2, <1>3 DEF SessionInv, Registered, DesktopTypeOK
<1>8. ClosedForIt'
  BY <1>1, <1>2, <1>3 DEF SessionInv, ClosedForIt, DesktopTypeOK
<1>9. CloseComes'
  BY <1>1, <1>2, <1>3 DEF SessionInv, CloseComes, DesktopTypeOK
<1>10. DoneIsStopped' /\ OneDesktop'
  BY <1>1, <1>2, <1>3 DEF SessionInv, DoneIsStopped, OneDesktop, AnsweredFor, ClosedForIt, DesktopTypeOK
<1>11. QED
  BY <1>4, <1>5, <1>6, <1>7, <1>8, <1>9, <1>10 DEF SessionInv

LEMMA StartsStep == ASSUME SessionInv, NEW b \in Try, Starts(b) PROVE SessionInv'
<1>1. UNCHANGED <<attempt, attempts, shows, link, gone, requests>>
  BY DEF Starts, viewVars, wires
<1>2. DesktopTypeOK
  BY DEF SessionInv
<1>3. PICK ended :
         /\ ended = [a \in Try |-> IF a = current /\ desk[a] = "running" THEN "taken" ELSE desk[a]]
         /\ opener[b] = "registered" /\ UNCHANGED <<rtc, stored, toClose, closing, unlisting>>
         /\ \/ opener' = [opener EXCEPT ![b] = "refused"] /\ UNCHANGED <<current, desk>>
            \/ /\ opener' = [opener EXCEPT ![b] = "started"]
               /\ current' = b /\ desk' = [ended EXCEPT ![b] = "running"]
            \/ opener' = [opener EXCEPT ![b] = "refused"] /\ current' = 0 /\ desk' = ended
  BY DEF Starts, registry
<1>4. PICK how \in {"refused", "started"} :
         /\ opener' = [opener EXCEPT ![b] = how]
         /\ how = "refused" => (UNCHANGED <<current, desk>> \/ (current' = 0 /\ desk' = ended))
         /\ how = "started" => (current' = b /\ desk' = [ended EXCEPT ![b] = "running"])
  BY <1>3
<1>5. /\ opener' \in [Try -> {"none", "called", "registered", "started", "refused", "failed", "answered"}]
      /\ \A a \in Try : opener'[a] = IF a = b THEN how ELSE opener[a]
  BY <1>2, <1>4 DEF DesktopTypeOK
<1>6. /\ ended \in [Try -> {"none", "running", "taken", "left", "closed", "died"}]
      /\ \A a \in Try : (ended[a] = desk[a]) \/ (desk[a] = "running" /\ ended[a] = "taken")
      /\ \A a \in Try : ended[a] # "running"
  BY <1>2, <1>3 DEF DesktopTypeOK, SessionInv, OneDesktop
<1>7. /\ desk' \in [Try -> {"none", "running", "taken", "left", "closed", "died"}] /\ current' \in 0 .. MaxTry
      /\ \A a \in Try : \/ desk'[a] = desk[a]
                          \/ (desk[a] = "running" /\ desk'[a] = "taken")
                          \/ (how = "started" /\ a = b /\ desk'[a] = "running")
      /\ \A a \in Try : desk'[a] = "running" => current' = a
  <2>1. b \in 0 .. MaxTry /\ 0 \in 0 .. MaxTry
    BY DesktopAssumption DEF Try
  <2>2. CASE how = "refused"
    <3>1. CASE UNCHANGED <<current, desk>>
      BY <1>2, <3>1 DEF DesktopTypeOK, SessionInv, OneDesktop
    <3>2. CASE current' = 0 /\ desk' = ended
      BY <1>6, <2>1, <3>2
    <3>3. QED
      BY <1>4, <2>2, <3>1, <3>2
  <2>3. CASE how = "started"
    <3>1. current' = b /\ desk' = [ended EXCEPT ![b] = "running"]
      BY <1>4, <2>3
    <3>2. \A a \in Try : desk'[a] = IF a = b THEN "running" ELSE ended[a]
      BY <1>6, <3>1
    <3>3. desk' \in [Try -> {"none", "running", "taken", "left", "closed", "died"}]
      BY <1>6, <3>1
    <3>4. QED
      BY <1>6, <2>1, <2>3, <3>1, <3>2, <3>3
  <2>4. QED
    BY <2>2, <2>3
<1>8. /\ opener[b] = "registered" /\ desk[b] = "none" /\ attempt[b].st \notin {"shown", "closed"}
      /\ UNCHANGED <<rtc, stored, toClose, closing, unlisting>>
  BY <1>2, <1>3 DEF SessionInv, AnsweredFor
<1>9. DesktopTypeOK'
  BY <1>1, <1>2, <1>5, <1>7, <1>8, DesktopAssumption DEF DesktopTypeOK, Try
<1>10. Unmade' /\ OpensOnce' /\ OwnAttempts'
  <2>1. Unmade' /\ OwnAttempts'
    BY <1>1, <1>5, <1>8 DEF SessionInv, Unmade, OwnAttempts, Waits
  <2>2. \A v \in Viewer : \A r \in Range(requests[v]) : r.a \in Try
    BY SessionTypes DEF DesktopRequest, SessionInv
  <2>3. OpensOnce'
    BY <1>1, <1>5, <1>8, <2>2 DEF SessionInv, OpensOnce, NoneTwice
  <2>4. QED
    BY <2>1, <2>3
<1>11. AnsweredFor'
  BY <1>1, <1>2, <1>5, <1>7, <1>8 DEF SessionInv, AnsweredFor, DesktopTypeOK
<1>12. Registered'
  BY <1>1, <1>2, <1>5, <1>7, <1>8 DEF SessionInv, Registered, DesktopTypeOK
<1>13. ClosedForIt'
  BY <1>1, <1>2, <1>5, <1>7, <1>8 DEF SessionInv, ClosedForIt, DesktopTypeOK
<1>14. CloseComes'
  BY <1>1, <1>2, <1>5, <1>7, <1>8 DEF SessionInv, CloseComes, DesktopTypeOK
<1>15. DoneIsStopped' /\ OneDesktop'
  BY <1>1, <1>2, <1>5, <1>7, <1>8 DEF SessionInv, DoneIsStopped, OneDesktop, AnsweredFor, ClosedForIt, DesktopTypeOK
<1>16. QED
  BY <1>9, <1>10, <1>11, <1>12, <1>13, <1>14, <1>15 DEF SessionInv

LEMMA StopsStep == ASSUME SessionInv, NEW b \in Try, Stops(b) PROVE SessionInv'
<1>1. UNCHANGED <<attempt, attempts, shows, link, gone, requests>>
  BY DEF Stops, viewVars, wires
<1>2. DesktopTypeOK
  BY DEF SessionInv
<1>3. /\ closing[b] \in {"asked", "peer"} /\ closing' = [closing EXCEPT ![b] = "done"]
      /\ \/ current = b /\ current' = 0 /\ desk' = [desk EXCEPT ![b] = IF desk[b] = "running" THEN "left" ELSE desk[b]]
         \/ current # b /\ UNCHANGED <<desk, current>>
      /\ UNCHANGED <<opener, rtc, stored, toClose, unlisting>>
  BY <1>2 DEF Stops, Ends, DesktopTypeOK
<1>4. DesktopTypeOK'
  BY <1>1, <1>2, <1>3, DesktopAssumption DEF DesktopTypeOK, Try
<1>5. Unmade' /\ OpensOnce' /\ OwnAttempts'
  BY <1>1, <1>2, <1>3, SessionTypes DEF SessionInv, Unmade, OpensOnce, OwnAttempts, Waits, DesktopTypeOK, DesktopRequest
<1>6. AnsweredFor'
  BY <1>1, <1>2, <1>3 DEF SessionInv, AnsweredFor, DesktopTypeOK
<1>7. Registered'
  BY <1>1, <1>2, <1>3 DEF SessionInv, Registered, DesktopTypeOK
<1>8. ClosedForIt'
  BY <1>1, <1>2, <1>3 DEF SessionInv, ClosedForIt, DesktopTypeOK
<1>9. CloseComes'
  BY <1>1, <1>2, <1>3 DEF SessionInv, CloseComes, DesktopTypeOK
<1>10. DoneIsStopped' /\ OneDesktop'
  <2>1. attempt[b].st = "closed" \/ attempt[b].link < link[attempt[b].by]
    BY <1>3 DEF SessionInv, ClosedForIt
  <2>2. /\ \A a \in Try : a # b => closing'[a] = closing[a] /\ desk'[a] = desk[a]
        /\ desk'[b] # "running"
    BY <1>2, <1>3 DEF SessionInv, OneDesktop, DesktopTypeOK
  <2>3. \A a \in Try : desk'[a] = "running" => desk[a] = "running" /\ a # b /\ current' = a
    BY <1>3, <2>2 DEF SessionInv, OneDesktop
  <2>4. QED
    BY <1>1, <2>1, <2>2, <2>3 DEF SessionInv, DoneIsStopped, OneDesktop
<1>11. QED
  BY <1>4, <1>5, <1>6, <1>7, <1>8, <1>9, <1>10 DEF SessionInv

LEMMA DiesStep == ASSUME SessionInv, NEW b \in Try, Dies(b) PROVE SessionInv'
<1>1. UNCHANGED <<attempt, attempts, shows, link, gone, requests>>
  BY DEF Dies, viewVars, wires
<1>2. DesktopTypeOK
  BY DEF SessionInv
<1>3. /\ desk[b] = "running" /\ desk' = [desk EXCEPT ![b] = "died"] /\ unlisting' = unlisting \cup {b}
      /\ UNCHANGED <<opener, rtc, stored, toClose, closing, current>>
  BY <1>2 DEF Dies, Ends, registry, DesktopTypeOK
<1>4. DesktopTypeOK'
  BY <1>1, <1>2, <1>3, DesktopAssumption DEF DesktopTypeOK, Try
<1>5. Unmade' /\ OpensOnce' /\ OwnAttempts'
  BY <1>1, <1>2, <1>3, SessionTypes DEF SessionInv, Unmade, OpensOnce, OwnAttempts, Waits, DesktopTypeOK, DesktopRequest
<1>6. AnsweredFor'
  BY <1>1, <1>2, <1>3 DEF SessionInv, AnsweredFor, DesktopTypeOK
<1>7. Registered'
  BY <1>1, <1>2, <1>3 DEF SessionInv, Registered, DesktopTypeOK
<1>8. ClosedForIt'
  BY <1>1, <1>2, <1>3 DEF SessionInv, ClosedForIt, DesktopTypeOK
<1>9. CloseComes'
  BY <1>1, <1>2, <1>3 DEF SessionInv, CloseComes, DesktopTypeOK
<1>10. DoneIsStopped' /\ OneDesktop'
  BY <1>1, <1>2, <1>3 DEF SessionInv, DoneIsStopped, OneDesktop, AnsweredFor, ClosedForIt, DesktopTypeOK
<1>11. QED
  BY <1>4, <1>5, <1>6, <1>7, <1>8, <1>9, <1>10 DEF SessionInv

LEMMA UnlistsStep == ASSUME SessionInv, NEW b \in Try, Unlists(b) PROVE SessionInv'
<1>1. UNCHANGED <<attempt, attempts, shows, link, gone, requests>>
  BY DEF Unlists, viewVars, wires
<1>2. DesktopTypeOK
  BY DEF SessionInv
<1>3. /\ b \in unlisting /\ unlisting' = unlisting \ {b} /\ current' = (IF current = b THEN 0 ELSE current)
      /\ UNCHANGED <<opener, rtc, stored, toClose, closing, desk>>
  BY DEF Unlists, registry
<1>4. DesktopTypeOK'
  BY <1>1, <1>2, <1>3, DesktopAssumption DEF DesktopTypeOK, Try
<1>5. Unmade' /\ OpensOnce' /\ OwnAttempts'
  BY <1>1, <1>2, <1>3, SessionTypes DEF SessionInv, Unmade, OpensOnce, OwnAttempts, Waits, DesktopTypeOK, DesktopRequest
<1>6. AnsweredFor'
  BY <1>1, <1>2, <1>3 DEF SessionInv, AnsweredFor, DesktopTypeOK
<1>7. Registered'
  BY <1>1, <1>2, <1>3 DEF SessionInv, Registered, DesktopTypeOK
<1>8. ClosedForIt'
  BY <1>1, <1>2, <1>3 DEF SessionInv, ClosedForIt, DesktopTypeOK
<1>9. CloseComes'
  BY <1>1, <1>2, <1>3 DEF SessionInv, CloseComes, DesktopTypeOK
<1>10. DoneIsStopped' /\ OneDesktop'
  BY <1>1, <1>2, <1>3 DEF SessionInv, DoneIsStopped, OneDesktop, AnsweredFor, ClosedForIt, DesktopTypeOK
<1>11. QED
  BY <1>4, <1>5, <1>6, <1>7, <1>8, <1>9, <1>10 DEF SessionInv

LEMMA ClosedForStep == ASSUME SessionInv, NEW v \in Viewer, ClosedFor(v) PROVE SessionInv'
<1>1. UNCHANGED <<attempt, attempts, shows, link, gone, requests>>
  BY DEF ClosedFor, viewVars, wires
<1>2. DesktopTypeOK
  BY DEF SessionInv
<1>3. /\ current # 0 /\ current \in Try /\ current' = 0
      /\ desk' = [desk EXCEPT ![current] = IF desk[current] = "running" THEN "closed" ELSE desk[current]]
      /\ UNCHANGED <<opener, rtc, stored, toClose, closing, unlisting>>
  BY <1>2, DesktopAssumption DEF ClosedFor, Ends, registry, DesktopTypeOK, Try
<1>4. DesktopTypeOK'
  BY <1>1, <1>2, <1>3, DesktopAssumption, SMTT(20) DEF DesktopTypeOK, Try
<1>5. Unmade' /\ OpensOnce' /\ OwnAttempts'
  BY <1>1, <1>2, <1>3, SessionTypes DEF SessionInv, Unmade, OpensOnce, OwnAttempts, Waits, DesktopTypeOK, DesktopRequest
<1>6. AnsweredFor'
  BY <1>1, <1>2, <1>3 DEF SessionInv, AnsweredFor, DesktopTypeOK
<1>7. Registered'
  BY <1>1, <1>2, <1>3 DEF SessionInv, Registered, DesktopTypeOK
<1>8. ClosedForIt'
  BY <1>1, <1>2, <1>3 DEF SessionInv, ClosedForIt, DesktopTypeOK
<1>9. CloseComes'
  BY <1>1, <1>2, <1>3 DEF SessionInv, CloseComes, DesktopTypeOK
<1>10. DoneIsStopped' /\ OneDesktop'
  BY <1>1, <1>2, <1>3 DEF SessionInv, DoneIsStopped, OneDesktop, AnsweredFor, ClosedForIt, DesktopTypeOK
<1>11. QED
  BY <1>4, <1>5, <1>6, <1>7, <1>8, <1>9, <1>10 DEF SessionInv

LEMMA PeerClosedStep == ASSUME SessionInv, NEW v \in Viewer, NEW n \in 1 .. MaxLink, PeerClosed(v, n) PROVE SessionInv'
<1>1. DesktopTypeOK
  BY DEF SessionInv
<1>2. UNCHANGED <<attempt, attempts, shows, link, requests, opener, rtc, stored, closing, current, desk, unlisting>>
  BY DEF PeerClosed, viewVars, manager
<1>3. /\ <<v, n>> \in gone /\ gone' = gone \ {<<v, n>>}
      /\ toClose' = toClose \cup {a \in rtc : attempt[a].by = v /\ attempt[a].link = n}
  BY DEF PeerClosed
<1>4. DesktopTypeOK'
  BY <1>1, <1>2, <1>3 DEF DesktopTypeOK
<1>5. Unmade' /\ OpensOnce' /\ AnsweredFor' /\ OwnAttempts' /\ DoneIsStopped' /\ OneDesktop'
  BY <1>2 DEF SessionInv, Unmade, OpensOnce, AnsweredFor, OwnAttempts, Waits, DoneIsStopped, OneDesktop
<1>6. Registered'
  BY <1>2, <1>3 DEF SessionInv, Registered
<1>7. ClosedForIt'
  <2>1. \A a \in toClose' : attempt[a].link < link[attempt[a].by]
    BY <1>3 DEF SessionInv, ClosedForIt
  <2>2. QED
    BY <1>2, <1>3, <2>1 DEF SessionInv, ClosedForIt
<1>8. CloseComes'
  <2>1. SUFFICES ASSUME NEW a \in Try, attempt[a].st \in {"shown", "closed"}, closing[a] = "no"
                 PROVE  \/ attempt[a].link < link[attempt[a].by]
                             /\ (<<attempt[a].by, attempt[a].link>> \in gone' \/ a \in toClose')
                        \/ attempt[a].link = link[attempt[a].by]
                             /\ (attempt[a].st = "closed" => [t |-> "close", a |-> a] \in Range(requests[attempt[a].by]))
    BY <1>2 DEF CloseComes
  <2>2. a \in rtc
    BY <2>1 DEF SessionInv, AnsweredFor, Registered
  <2>3. <<attempt[a].by, attempt[a].link>> \in gone => <<attempt[a].by, attempt[a].link>> \in gone' \/ a \in toClose'
    BY <1>3, <2>2
  <2>4. QED
    BY <1>3, <2>1, <2>3 DEF SessionInv, CloseComes
<1>9. QED
  BY <1>4, <1>5, <1>6, <1>7, <1>8 DEF SessionInv

LEMMA SessionStepInv == SessionInv /\ [DesktopNext]_desktopVars => SessionInv'
<1>1. SUFFICES ASSUME SessionInv, [DesktopNext]_desktopVars PROVE SessionInv'
  OBVIOUS
<1>2. CASE UNCHANGED desktopVars
  BY <1>1, <1>2 DEF desktopVars, SessionInv, DesktopTypeOK, Unmade, OpensOnce, AnsweredFor, OwnAttempts, Waits,
     Registered, ClosedForIt, CloseComes, DoneIsStopped, OneDesktop
<1>3. ASSUME NEW v \in Viewer, Hide(v) \/ Show(v) \/ LinkLost(v) \/ Reads(v) \/ ClosedFor(v) PROVE SessionInv'
  BY <1>1, <1>3, HideStep, ShowStep, LinkLostStep, ReadsStep, ClosedForStep
<1>4. ASSUME NEW v \in Viewer, NEW n \in 1 .. MaxLink, PeerClosed(v, n) PROVE SessionInv'
  BY <1>1, <1>4, PeerClosedStep
<1>5. ASSUME NEW a \in Try, \/ Answered(a) \/ CallFails(a) \/ Registers(a) \/ Starts(a) \/ Stores(a) \/ OpenFails(a)
                            \/ PeerCloses(a) \/ Stops(a) \/ Dies(a) \/ Unlists(a)
      PROVE  SessionInv'
  BY <1>1, <1>5, AnsweredStep, CallFailsStep, RegistersStep, StartsStep, StoresStep, OpenFailsStep, PeerClosesStep,
     StopsStep, DiesStep, UnlistsStep
<1>6. QED
  BY <1>1, <1>2, <1>3, <1>4, <1>5 DEF DesktopNext

\* However views come and go, connections are lost and answers cross, the state of views,
\* registry and manager keeps to SessionInv.
THEOREM SessionInvariant == DesktopSpec => []SessionInv
<1>1. DesktopInit => SessionInv
  BY SessionInitInv
<1>2. SessionInv /\ [DesktopNext]_desktopVars => SessionInv'
  BY SessionStepInv
<1>3. QED
  BY <1>1, <1>2, PTL DEF DesktopSpec

LEMMA NobodyIsCutOff == SessionInv => StopsItsOwn
<1>1. SUFFICES ASSUME SessionInv, NEW a \in Try
               PROVE  /\ /\ attempt[a].st = "closed" /\ requests[attempt[a].by] = <<>>
                         /\ ~(\E n \in 1 .. MaxLink : <<attempt[a].by, n>> \in gone)
                         /\ toClose = {} /\ closing[a] \in {"no", "done"}
                         => desk[a] # "running"
                      /\ desk[a] = "left" => attempt[a].st = "closed" \/ attempt[a].link < link[attempt[a].by]
  BY DEF StopsItsOwn
<1>2. ASSUME attempt[a].st = "closed", requests[attempt[a].by] = <<>>, toClose = {}, closing[a] = "no",
             ~(\E n \in 1 .. MaxLink : <<attempt[a].by, n>> \in gone)
      PROVE  FALSE
  <2>1. \A n : <<attempt[a].by, n>> \notin gone
    BY <1>1, <1>2 DEF SessionInv, DesktopTypeOK
  <2>2. Range(requests[attempt[a].by]) = {}
    BY <1>2, NoRange
  <2>3. QED
    BY <1>1, <1>2, <2>1, <2>2 DEF SessionInv, CloseComes
<1>3. QED
  BY <1>1, <1>2 DEF SessionInv, DoneIsStopped

\* DesktopIsTheirs, for any number of views, attempts and connections: one desktop runs and
\* the manager knows it, a view that is gone is shown none, and nobody else is cut off.
THEOREM SessionDesktopIsTheirs == DesktopSpec => []DesktopIsTheirs
<1>1. SessionInv => DesktopIsTheirs
  BY NobodyIsCutOff DEF DesktopIsTheirs, SessionInv
<1>2. QED
  BY <1>1, SessionInvariant, PTL

-----------------------------------------------------------------------------
(* The connection to a device: what connects is timed, and what waits does so *)
(* on the connection that is there.                                           *)

\* Only a peer that connects or is connected has a connection. While it connects, the
\* timer runs and the hub knows where its answers go; calls wait on it once it is up.
WaitsRightly(p) ==
  /\ p.pc # 0 => p.state \in {"connecting", "connected"}
  /\ p.state = "connecting" /\ p.pc # 0 => p.connectTimer /\ p.sink = p.pc
  /\ \A c \in Call : p.calls[c].st = "waiting" => p.state = "connected" /\ p.calls[c].sid = p.pc

\* Something will end the connecting.
MovesOn(p, h) ==
  p.state = "connecting" =>
    \/ p.pc # 0 /\ p.connectTimer
    \/ p.ice \/ p.reconnectTimer
    \/ ~h.open \/ ~h.known

SoundPeer(p, h) == p \in Peer /\ WaitsRightly(p) /\ MovesOn(p, h)

\* No offer comes to a tab.
NoOffers == \A i \in DOMAIN toTab : toTab[i].t # "offer"

PeerInv == TypeOK /\ NoOffers /\ SoundPeer(peer, hub)

LEMMA TheBounds == /\ 0 \in 0 .. MaxSid /\ Sid \subseteq 0 .. MaxSid
                   /\ \A n \in 0 .. MaxSid : n # 0 => n \in Sid
BY BoundAssumption DEF Sid

\* Whatever a method sends goes to what the hub is to take.
LEMMA SendSaysSo ==
  ASSUME NEW p \in Peer, NEW h, NEW m \in Signal
  PROVE  /\ Send(p, h, m) \in Peer
         /\ Send(p, h, m) = [p EXCEPT !.out = Send(p, h, m).out]
         /\ ~h.open => Send(p, h, m) = p
<1>1. Append(p.out, m) \in Seq(Signal)
  BY DEF Peer
<1>2. CASE h.open
  BY <1>1, <1>2 DEF Send, Peer
<1>3. CASE ~h.open
  BY <1>3 DEF Send, Peer
<1>4. QED
  BY <1>2, <1>3

\* teardown leaves no connection, no timer and no call that waits.
LEMMA TeardownSays ==
  ASSUME NEW p \in Peer, NEW h
  PROVE  LET q == Teardown(p, h)
         IN /\ q \in Peer /\ q.state = p.state /\ q.viewers = p.viewers /\ q.ice = p.ice
            /\ q.pc = 0 /\ ~q.connectTimer /\ ~q.reconnectTimer
            /\ \A c \in Call : q.calls[c].st # "waiting"
<1> DEFINE calls == [c \in Call |-> IF p.calls[c].st = "waiting" THEN [p.calls[c] EXCEPT !.st = "failed"]
                                                                ELSE p.calls[c]]
           q == [p EXCEPT !.connectTimer = FALSE, !.reconnectTimer = FALSE, !.sink = 0, !.pc = 0,
                          !.made = FALSE, !.remote = "none", !.queued = {}, !.applied = {},
                          !.calls = calls]
<1>1. /\ calls \in [Call -> [st : {"none", "waiting", "done", "failed"}, sid : 0 .. MaxSid]]
      /\ \A c \in Call : calls[c].st # "waiting"
  <2>1. p.calls \in [Call -> [st : {"none", "waiting", "done", "failed"}, sid : 0 .. MaxSid]]
    BY DEF Peer
  <2>2. QED
    BY <2>1
<1>2. Teardown(p, h) = IF p.pc # 0 THEN Send(q, h, [t |-> "bye", sid |-> p.pc]) ELSE q
  BY DEF Teardown
<1> HIDE DEF calls
<1>3. /\ q \in Peer /\ q.state = p.state /\ q.viewers = p.viewers /\ q.ice = p.ice
      /\ q.pc = 0 /\ ~q.connectTimer /\ ~q.reconnectTimer /\ q.calls = calls
  BY <1>1, TheBounds DEF Peer
<1> HIDE DEF q
<1>4. CASE p.pc = 0
  BY <1>1, <1>2, <1>3, <1>4
<1>5. CASE p.pc # 0
  <2> DEFINE m == [t |-> "bye", sid |-> p.pc]
             s == Send(q, h, m)
  <2>1. m \in Signal
    BY <1>5, TheBounds DEF Peer, Signal
  <2> HIDE DEF m
  <2>2. s \in Peer /\ s = [q EXCEPT !.out = s.out]
    BY <1>3, <2>1, SendSaysSo
  <2> HIDE DEF s
  <2>3. /\ s.state = q.state /\ s.viewers = q.viewers /\ s.ice = q.ice /\ s.pc = q.pc
        /\ s.connectTimer = q.connectTimer /\ s.reconnectTimer = q.reconnectTimer /\ s.calls = q.calls
    BY <1>3, <2>2 DEF Peer
  <2>4. Teardown(p, h) = s
    BY <1>2, <1>5 DEF s, m
  <2>5. QED
    BY <1>1, <1>3, <2>2, <2>3, <2>4
<1>6. QED
  BY <1>4, <1>5

LEMMA ToSays ==
  ASSUME NEW p \in Peer, NEW h, NEW state \in State
  PROVE  LET q == To(p, h, state)
         IN /\ q \in Peer /\ q.state = state /\ q.pc = 0 /\ WaitsRightly(q)
            /\ state # "connecting" => SoundPeer(q, h)
<1> DEFINE s == Teardown(p, h)
           q == To(p, h, state)
<1>1. /\ s \in Peer /\ s.pc = 0 /\ \A c \in Call : s.calls[c].st # "waiting"
  BY TeardownSays
<1>2. q = [s EXCEPT !.state = state]
  BY DEF To
<1> HIDE DEF s, q
<1>3. /\ q \in Peer /\ q.state = state /\ q.pc = 0 /\ q.calls = s.calls
  BY <1>1, <1>2 DEF Peer
<1>4. WaitsRightly(q) /\ (state # "connecting" => SoundPeer(q, h))
  BY <1>1, <1>3 DEF WaitsRightly, SoundPeer, MovesOn
<1>5. QED
  BY <1>3, <1>4 DEF q

LEMMA KickSound ==
  ASSUME NEW p \in Peer, NEW h, WaitsRightly(p)
  PROVE  SoundPeer(Kick(p, h), h)
<1> DEFINE i == [p EXCEPT !.ice = TRUE]
           f == [p EXCEPT !.state = "offline"]
<1>1. CASE p.state # "connecting" \/ p.pc # 0 \/ ~h.open \/ ~h.known
  BY <1>1 DEF Kick, SoundPeer, WaitsRightly, MovesOn
<1>2. CASE p.state = "connecting" /\ p.pc = 0 /\ h.open /\ h.known /\ h.online
  <2>1. Kick(p, h) = i
    BY <1>2 DEF Kick
  <2>2. /\ i \in Peer /\ i.ice /\ i.pc = p.pc /\ i.state = p.state /\ i.connectTimer = p.connectTimer
        /\ i.sink = p.sink /\ i.calls = p.calls
    BY DEF Peer
  <2> HIDE DEF i
  <2>3. QED
    BY <2>1, <2>2 DEF SoundPeer, WaitsRightly, MovesOn
<1>3. CASE p.state = "connecting" /\ p.pc = 0 /\ h.open /\ h.known /\ ~h.online
  <2>1. Kick(p, h) = f
    BY <1>3 DEF Kick
  <2>2. f \in Peer /\ f.pc = 0 /\ f.state = "offline" /\ f.calls = p.calls
    BY <1>3 DEF Peer, State
  <2> HIDE DEF f
  <2>3. QED
    BY <1>3, <2>1, <2>2 DEF SoundPeer, WaitsRightly, MovesOn
<1>4. QED
  BY <1>1, <1>2, <1>3

LEMMA EnsureSound ==
  ASSUME NEW p \in Peer, NEW h, WaitsRightly(p), MovesOn(p, h)
  PROVE  SoundPeer(Ensure(p, h), h)
<1> DEFINE f == [p EXCEPT !.state = "offline"]
           k == [p EXCEPT !.state = "connecting"]
<1>1. CASE p.viewers = 0 \/ p.state \in {"connected", "connecting", "failed"}
  BY <1>1 DEF Ensure, SoundPeer
<1>2. CASE ~(p.viewers = 0 \/ p.state \in {"connected", "connecting", "failed"})
  <2>1. p.pc = 0 /\ \A c \in Call : p.calls[c].st # "waiting"
    BY <1>2 DEF WaitsRightly
  <2>2. /\ f \in Peer /\ f.pc = 0 /\ f.state = "offline" /\ f.calls = p.calls
        /\ k \in Peer /\ k.pc = 0 /\ k.state = "connecting" /\ k.calls = p.calls
    BY <2>1 DEF Peer, State
  <2>3. Ensure(p, h) = f \/ Ensure(p, h) = Kick(k, h)
    BY <1>2 DEF Ensure
  <2> HIDE DEF f, k
  <2>4. SoundPeer(f, h) /\ WaitsRightly(k)
    BY <2>1, <2>2 DEF SoundPeer, WaitsRightly, MovesOn
  <2>5. QED
    BY <2>2, <2>3, <2>4, KickSound
<1>3. QED
  BY <1>1, <1>2

LEMMA OnDropSound ==
  ASSUME NEW p \in Peer, NEW h
  PROVE  SoundPeer(OnDrop(p, h), h)
<1>1. CASE p.state # "connected"
  BY <1>1, ToSays DEF OnDrop, Fail, State
<1>2. CASE p.state = "connected" /\ p.viewers = 0
  BY <1>2, ToSays DEF OnDrop, State
<1>3. CASE p.state = "connected" /\ p.viewers # 0
  <2> DEFINE c == To(p, h, "connecting")
             r == [c EXCEPT !.reconnectTimer = TRUE]
  <2>1. OnDrop(p, h) = r
    BY <1>3 DEF OnDrop
  <2>2. c \in Peer /\ c.state = "connecting" /\ c.pc = 0 /\ WaitsRightly(c)
    BY ToSays DEF State
  <2> HIDE DEF c
  <2>3. /\ r \in Peer /\ r.state = c.state /\ r.pc = 0 /\ r.reconnectTimer /\ r.calls = c.calls
    BY <2>2 DEF Peer
  <2> HIDE DEF r
  <2>4. QED
    BY <2>1, <2>2, <2>3 DEF SoundPeer, WaitsRightly, MovesOn
<1>4. QED
  BY <1>1, <1>2, <1>3

LEMMA RestartSound ==
  ASSUME NEW p \in Peer, NEW h
  PROVE  SoundPeer(Restart(p, h), h)
<1> DEFINE q == To(p, h, "idle")
<1>1. SoundPeer(q, h)
  BY ToSays DEF State
<1>2. Restart(p, h) = Ensure(q, h)
  BY DEF Restart
<1> HIDE DEF q
<1>3. QED
  BY <1>1, <1>2, EnsureSound DEF SoundPeer

\* A change of the hub: a negotiation that may have lost its sink goes with the socket.
LEMMA OnHubChangeSound ==
  ASSUME NEW p \in Peer, NEW h,
         p.pc # 0 => p.state \in {"connecting", "connected"},
         p.state = "connecting" /\ p.pc # 0 /\ h.open => p.connectTimer /\ p.sink = p.pc,
         \A c \in Call : p.calls[c].st = "waiting" => p.state = "connected" /\ p.calls[c].sid = p.pc
  PROVE  SoundPeer(OnHubChange(p, h), h)
<1>1. CASE h.known /\ ~h.online
  <2>1. CASE p.state \in {"offline", "connected"} \/ (p.state = "idle" /\ p.viewers = 0)
    BY <1>1, <2>1 DEF OnHubChange, SoundPeer, WaitsRightly, MovesOn
  <2>2. CASE ~(p.state \in {"offline", "connected"} \/ (p.state = "idle" /\ p.viewers = 0))
    BY <1>1, <2>2, ToSays DEF OnHubChange, State
  <2>3. QED
    BY <2>1, <2>2
<1>2. CASE ~(h.known /\ ~h.online) /\ h.known /\ p.state = "offline"
  <2> DEFINE i == [p EXCEPT !.state = "idle"]
  <2>1. OnHubChange(p, h) = Ensure(i, h)
    BY <1>2 DEF OnHubChange
  <2>2. i \in Peer /\ i.state = "idle" /\ i.pc = p.pc /\ i.calls = p.calls
    BY DEF Peer, State
  <2> HIDE DEF i
  <2>3. WaitsRightly(i) /\ MovesOn(i, h)
    BY <1>2, <2>2 DEF WaitsRightly, MovesOn
  <2>4. QED
    BY <2>1, <2>2, <2>3, EnsureSound
<1>3. CASE ~(h.known /\ ~h.online) /\ p.state = "connecting"
  <2> DEFINE q == Teardown(p, h)
  <2>1. OnHubChange(p, h) = Kick(IF ~h.open /\ p.pc # 0 THEN q ELSE p, h)
    BY <1>3 DEF OnHubChange
  <2>2. q \in Peer /\ q.state = p.state /\ q.pc = 0 /\ \A c \in Call : q.calls[c].st # "waiting"
    BY TeardownSays
  <2> HIDE DEF q
  <2>3. CASE ~h.open /\ p.pc # 0
    <3>1. WaitsRightly(q)
      BY <2>2 DEF WaitsRightly
    <3>2. QED
      BY <2>1, <2>2, <2>3, <3>1, KickSound
  <2>4. CASE ~(~h.open /\ p.pc # 0)
    <3>1. WaitsRightly(p)
      BY <2>4 DEF WaitsRightly
    <3>2. QED
      BY <2>1, <2>4, <3>1, KickSound
  <2>5. QED
    BY <2>3, <2>4
<1>4. CASE ~(h.known /\ ~h.online) /\ ~(h.known /\ p.state = "offline") /\ p.state # "connecting"
  BY <1>4 DEF OnHubChange, SoundPeer, WaitsRightly, MovesOn
<1>5. QED
  BY <1>1, <1>2, <1>3, <1>4

LEMMA Hubs == ASSUME NEW h \in Hub, NEW b \in BOOLEAN, NEW c \in BOOLEAN, NEW d \in BOOLEAN
              PROVE [h EXCEPT !.open = b, !.known = c] \in Hub /\ [h EXCEPT !.known = c, !.online = d] \in Hub
BY DEF Hub

LEMMA PeerInitInv == Init => PeerInv
<1>1. SUFFICES ASSUME Init PROVE PeerInv
  OBVIOUS
<1>2. peer \in Peer
  BY <1>1, TheBounds DEF Init, Peer, State
<1>3. <<>> \in Seq(Signal) /\ 0 \in 0 .. MaxFault
  BY BoundAssumption
<1>4. TypeOK
  BY <1>1, <1>2, <1>3, TheBounds DEF Init, TypeOK, Daemon
<1>5. WaitsRightly(peer) /\ MovesOn(peer, hub)
  BY <1>1 DEF Init, WaitsRightly, MovesOn
<1>6. QED
  BY <1>1, <1>2, <1>4, <1>5 DEF PeerInv, SoundPeer, NoOffers, Init

\* What the peer sends is on its way, and it is as sound as before.
LEMMA PeerBecomes ==
  ASSUME PeerInv, NEW p, SoundPeer(p, hub'), Becomes(p)
  PROVE  SoundPeer(peer, hub)' /\ toDaemon' \in Seq(Signal)
<1>1. /\ peer' = [p EXCEPT !.out = <<>>] /\ toDaemon' = toDaemon \o p.out /\ p \in Peer
      /\ toDaemon \in Seq(Signal)
  BY DEF Becomes, SoundPeer, PeerInv, TypeOK
<1>2. p.out \in Seq(Signal) /\ <<>> \in Seq(Signal)
  BY <1>1 DEF Peer
<1>3. /\ peer' \in Peer /\ peer'.pc = p.pc /\ peer'.state = p.state /\ peer'.connectTimer = p.connectTimer
      /\ peer'.sink = p.sink /\ peer'.calls = p.calls /\ peer'.ice = p.ice
      /\ peer'.reconnectTimer = p.reconnectTimer
  BY <1>1, <1>2 DEF Peer
<1>4. WaitsRightly(peer')
  BY <1>3 DEF SoundPeer, WaitsRightly
<1>5. MovesOn(peer', hub')
  BY <1>3 DEF SoundPeer, MovesOn
<1>6. toDaemon' \in Seq(Signal)
  BY <1>1, <1>2
<1>7. QED
  BY <1>3, <1>4, <1>5, <1>6 DEF SoundPeer

LEMMA PeerOnly == ASSUME PeerInv, NEW p, SoundPeer(p, hub), Only(p) PROVE PeerInv'
<1>1. hub' = hub /\ UNCHANGED <<toTab, daemon, sids, faults>> /\ Becomes(p)
  BY DEF Only
<1>2. SoundPeer(peer, hub)' /\ toDaemon' \in Seq(Signal)
  BY <1>1, PeerBecomes
<1>3. QED
  BY <1>1, <1>2 DEF PeerInv, TypeOK, SoundPeer, NoOffers

LEMMA PeerFault == ASSUME PeerInv, NEW p, SoundPeer(p, hub), Fault(p) PROVE PeerInv'
<1>1. /\ hub' = hub /\ UNCHANGED <<toTab, daemon, sids>> /\ Becomes(p)
      /\ faults < MaxFault /\ faults' = faults + 1
  BY DEF Fault
<1>2. SoundPeer(peer, hub)' /\ toDaemon' \in Seq(Signal)
  BY <1>1, PeerBecomes
<1>3. faults' \in 0 .. MaxFault
  BY <1>1, BoundAssumption DEF PeerInv, TypeOK
<1>4. QED
  BY <1>1, <1>2, <1>3 DEF PeerInv, TypeOK, SoundPeer, NoOffers

LEMMA PageStep ==
  ASSUME PeerInv, Acquire \/ Release \/ Retry \/ CheckAlive
  PROVE  PeerInv'
<1>1. peer \in Peer /\ WaitsRightly(peer) /\ MovesOn(peer, hub)
  BY DEF PeerInv, SoundPeer
<1>2. CASE Acquire
  <2> DEFINE st == IF peer.state = "failed" THEN "idle" ELSE peer.state
             b == [peer EXCEPT !.viewers = 1]
             a == [b EXCEPT !.state = st]
  <2>0. st \in State /\ (st # peer.state => peer.state = "failed" /\ st = "idle")
    BY <1>1 DEF Peer, State
  <2>2. Only(Ensure(a, hub))
    BY <1>1, <1>2 DEF Acquire, Peer
  <2> HIDE DEF st
  <2>1. /\ b \in Peer /\ b.state = peer.state /\ b.pc = peer.pc /\ b.connectTimer = peer.connectTimer
        /\ b.sink = peer.sink /\ b.calls = peer.calls /\ b.ice = peer.ice /\ b.reconnectTimer = peer.reconnectTimer
    <3>1. 1 \in 0 .. 1
      OBVIOUS
    <3>2. b \in Peer
      BY <1>1, <3>1 DEF Peer
    <3>3. /\ b.state = peer.state /\ b.pc = peer.pc /\ b.connectTimer = peer.connectTimer
          /\ b.sink = peer.sink /\ b.calls = peer.calls /\ b.ice = peer.ice /\ b.reconnectTimer = peer.reconnectTimer
      BY <1>1 DEF Peer
    <3>4. QED
      BY <3>2, <3>3
  <2> HIDE DEF b
  <2>3. /\ a \in Peer /\ a.state = st /\ a.pc = b.pc /\ a.connectTimer = b.connectTimer
        /\ a.sink = b.sink /\ a.calls = b.calls /\ a.ice = b.ice /\ a.reconnectTimer = b.reconnectTimer
    BY <2>0, <2>1 DEF Peer
  <2> HIDE DEF a
  <2>4. WaitsRightly(a) /\ MovesOn(a, hub)
    BY <1>1, <2>0, <2>1, <2>3 DEF WaitsRightly, MovesOn
  <2>5. QED
    BY <2>2, <2>3, <2>4, EnsureSound, PeerOnly
<1>3. CASE Release
  <2> DEFINE r == [peer EXCEPT !.viewers = 0]
  <2>1. /\ r \in Peer /\ r.state = peer.state
        /\ r.pc = peer.pc /\ r.connectTimer = peer.connectTimer /\ r.sink = peer.sink /\ r.calls = peer.calls
        /\ r.ice = peer.ice /\ r.reconnectTimer = peer.reconnectTimer
    BY <1>1 DEF Peer
  <2>2. Fault(r)
    BY <1>3 DEF Release
  <2> HIDE DEF r
  <2>3. SoundPeer(r, hub)
    BY <1>1, <2>1 DEF SoundPeer, WaitsRightly, MovesOn
  <2>4. QED
    BY <2>2, <2>3, PeerFault
<1>4. ASSUME Fault(Restart(peer, hub)) PROVE PeerInv'
  BY <1>1, <1>4, RestartSound, PeerFault
<1>5. ASSUME Fault(Kick([peer EXCEPT !.reconnectTimer = FALSE], hub)) PROVE PeerInv'
  <2> DEFINE n == [peer EXCEPT !.reconnectTimer = FALSE]
  <2>1. /\ n \in Peer /\ n.state = peer.state
        /\ n.pc = peer.pc /\ n.connectTimer = peer.connectTimer /\ n.sink = peer.sink /\ n.calls = peer.calls
    BY <1>1 DEF Peer
  <2>2. Fault(Kick(n, hub))
    BY <1>5
  <2> HIDE DEF n
  <2>3. WaitsRightly(n)
    BY <1>1, <2>1 DEF WaitsRightly
  <2>4. QED
    BY <2>1, <2>2, <2>3, KickSound, PeerFault
<1>6. QED
  BY <1>2, <1>3, <1>4, <1>5 DEF Retry, CheckAlive

\* A call is made, answered, or given up.
LEMMA CallSound ==
  ASSUME PeerInv, NEW c \in Call, NEW r \in [st : {"none", "waiting", "done", "failed"}, sid : 0 .. MaxSid],
         r.st = "waiting" => peer.state = "connected" /\ r.sid = peer.pc
  PROVE  SoundPeer([peer EXCEPT !.calls[c] = r], hub)
<1> DEFINE q == [peer EXCEPT !.calls[c] = r]
<1>1. peer \in Peer /\ WaitsRightly(peer) /\ MovesOn(peer, hub)
  BY DEF PeerInv, SoundPeer
<1>2. /\ q \in Peer /\ q.state = peer.state /\ q.pc = peer.pc /\ q.connectTimer = peer.connectTimer
      /\ q.sink = peer.sink /\ q.ice = peer.ice /\ q.reconnectTimer = peer.reconnectTimer
      /\ \A d \in Call : q.calls[d] = IF d = c THEN r ELSE peer.calls[d]
  BY <1>1 DEF Peer
<1> HIDE DEF q
<1>3. SoundPeer(q, hub)
  BY <1>1, <1>2 DEF SoundPeer, WaitsRightly, MovesOn
<1>4. QED
  BY <1>3 DEF q

LEMMA CallStep ==
  ASSUME PeerInv, NEW c \in Call, MakeCall(c) \/ CallAnswered(c) \/ CallTimeout(c)
  PROVE  PeerInv'
<1> DEFINE CallState == [st : {"none", "waiting", "done", "failed"}, sid : 0 .. MaxSid]
           m == [st |-> IF peer.state = "connected" THEN "waiting" ELSE "failed", sid |-> peer.pc]
           d == [peer.calls[c] EXCEPT !.st = "done"]
           f == [peer.calls[c] EXCEPT !.st = "failed"]
<1>1. peer \in Peer /\ peer.calls \in [Call -> CallState] /\ peer.pc \in 0 .. MaxSid
  BY DEF PeerInv, SoundPeer, Peer
<1>2. /\ m \in CallState /\ (m.st = "waiting" => peer.state = "connected" /\ m.sid = peer.pc)
      /\ d \in CallState /\ d.st = "done" /\ f \in CallState /\ f.st = "failed"
  BY <1>1
<1>3. \/ Only([peer EXCEPT !.calls[c] = m])
      \/ Only([peer EXCEPT !.calls[c] = d])
      \/ Only([peer EXCEPT !.calls[c] = f])
  BY <1>1 DEF MakeCall, CallAnswered, CallTimeout, Peer
<1> HIDE DEF m, d, f
<1>4. QED
  BY <1>2, <1>3, CallSound, PeerOnly

LEMMA HubStep ==
  ASSUME PeerInv, HubOpens \/ (\E on \in BOOLEAN : Presence(on)) \/ HubDrops
  PROVE  PeerInv'
<1>1. peer \in Peer /\ hub \in Hub /\ WaitsRightly(peer) /\ TypeOK
  BY DEF PeerInv, SoundPeer, TypeOK
<1>2. UNCHANGED <<daemon, sids>> /\ hub' \in Hub
  BY <1>1, Hubs DEF HubOpens, Presence, HubDrops
<1>3. faults' \in 0 .. MaxFault
  <2>1. faults \in 0 .. MaxFault /\ (faults' = faults \/ (faults < MaxFault /\ faults' = faults + 1))
    BY <1>1 DEF HubOpens, Presence, HubDrops, TypeOK
  <2>2. QED
    BY <2>1, BoundAssumption
<1>4. CASE HubOpens \/ \E on \in BOOLEAN : Presence(on)
  <2>1. Becomes(OnHubChange(peer, hub')) /\ toTab' = toTab
    BY <1>4 DEF HubOpens, Presence
  <2>2. SoundPeer(OnHubChange(peer, hub'), hub')
    BY <1>1, OnHubChangeSound DEF WaitsRightly
  <2>3. QED
    BY <1>1, <1>2, <1>3, <2>1, <2>2, PeerBecomes DEF PeerInv, TypeOK, SoundPeer, NoOffers
<1>5. CASE HubDrops
  <2> DEFINE n == [peer EXCEPT !.sink = 0]
  <2>1. /\ n \in Peer /\ n.state = peer.state /\ n.pc = peer.pc /\ n.calls = peer.calls
    BY <1>1, TheBounds DEF Peer
  <2>2. peer' = OnHubChange(n, hub') /\ ~hub'.open
    BY <1>1, <1>5 DEF HubDrops, Hub
  <2> HIDE DEF n
  <2>3. SoundPeer(peer', hub')
    BY <1>1, <2>1, <2>2, OnHubChangeSound DEF WaitsRightly
  <2>4. toTab' \in Seq(Signal) /\ NoOffers'
    BY <1>5 DEF HubDrops, NoOffers
  <2>5. toDaemon' \in Seq(Signal)
    <3>1. PICK k \in 0 .. Len(toDaemon) : toDaemon' = SubSeq(toDaemon, 1, k)
      BY <1>5 DEF HubDrops
    <3>2. toDaemon \in Seq(Signal)
      BY <1>1 DEF TypeOK
    <3>3. QED
      BY <3>1, <3>2
  <2>6. QED
    BY <1>1, <1>2, <1>3, <2>3, <2>4, <2>5 DEF PeerInv, TypeOK, SoundPeer, NoOffers
<1>6. QED
  BY <1>4, <1>5

LEMMA IceReadyStep == ASSUME PeerInv, IceReady PROVE PeerInv'
<1>1. peer \in Peer /\ WaitsRightly(peer) /\ MovesOn(peer, hub) /\ TypeOK
  BY DEF PeerInv, SoundPeer
<1>2. CASE peer.state # "connecting" \/ peer.pc # 0
  <2> DEFINE q == [peer EXCEPT !.ice = FALSE]
  <2>1. /\ q \in Peer /\ q.state = peer.state /\ q.pc = peer.pc /\ q.connectTimer = peer.connectTimer
        /\ q.sink = peer.sink /\ q.calls = peer.calls
    BY <1>1 DEF Peer
  <2>2. Only(q)
    BY <1>2 DEF IceReady
  <2> HIDE DEF q
  <2>3. SoundPeer(q, hub)
    BY <1>1, <1>2, <2>1 DEF SoundPeer, WaitsRightly, MovesOn
  <2>4. QED
    BY <2>2, <2>3, PeerOnly
<1>3. CASE peer.state = "connecting" /\ peer.pc = 0
  <2> DEFINE t == Teardown(peer, hub)
             q == [t EXCEPT !.ice = FALSE, !.pc = sids', !.sink = sids', !.connectTimer = TRUE]
  <2>1. /\ sids < MaxSid /\ sids' = sids + 1 /\ Becomes(q) /\ UNCHANGED <<hub, toTab, daemon, faults>>
    BY <1>3 DEF IceReady
  <2>2. sids' \in 0 .. MaxSid /\ sids' # 0
    BY <1>1, <2>1, BoundAssumption DEF TypeOK
  <2>3. /\ t \in Peer /\ t.state = peer.state /\ \A c \in Call : t.calls[c].st # "waiting"
    BY <1>1, TeardownSays
  <2> HIDE DEF t
  <2>4. /\ q \in Peer /\ q.state = "connecting" /\ q.pc = sids' /\ q.sink = sids' /\ q.connectTimer /\ q.calls = t.calls
    BY <1>3, <2>2, <2>3 DEF Peer
  <2> HIDE DEF q
  <2>5. SoundPeer(q, hub')
    BY <2>2, <2>3, <2>4 DEF SoundPeer, WaitsRightly, MovesOn
  <2>6. SoundPeer(peer, hub)' /\ toDaemon' \in Seq(Signal)
    BY <2>1, <2>5, PeerBecomes
  <2>7. QED
    BY <1>1, <2>1, <2>2, <2>6 DEF PeerInv, TypeOK, SoundPeer, NoOffers
<1>4. QED
  BY <1>2, <1>3

LEMMA OfferStep == ASSUME PeerInv, OfferReady PROVE PeerInv'
<1>1. peer \in Peer /\ WaitsRightly(peer) /\ MovesOn(peer, hub)
  BY DEF PeerInv, SoundPeer
<1>2. ASSUME Fault(Fail(peer, hub)) PROVE PeerInv'
  BY <1>1, <1>2, ToSays, PeerFault DEF Fail, State
<1>3. ASSUME peer.pc # 0, Only(Send([peer EXCEPT !.made = TRUE], hub, [t |-> "offer", sid |-> peer.pc])) PROVE PeerInv'
  <2> DEFINE a == [peer EXCEPT !.made = TRUE]
             m == [t |-> "offer", sid |-> peer.pc]
             s == Send(a, hub, m)
  <2>1. m \in Signal
    BY <1>1, <1>3, TheBounds DEF Peer, Signal
  <2>2. /\ a \in Peer /\ a.state = peer.state /\ a.pc = peer.pc /\ a.connectTimer = peer.connectTimer
        /\ a.sink = peer.sink /\ a.calls = peer.calls /\ a.ice = peer.ice /\ a.reconnectTimer = peer.reconnectTimer
    BY <1>1 DEF Peer
  <2>3. Only(s)
    BY <1>3
  <2> HIDE DEF a, m
  <2>4. s \in Peer /\ s = [a EXCEPT !.out = s.out]
    BY <2>1, <2>2, SendSaysSo
  <2> HIDE DEF s
  <2>5. /\ s.state = a.state /\ s.pc = a.pc /\ s.connectTimer = a.connectTimer
        /\ s.sink = a.sink /\ s.calls = a.calls /\ s.ice = a.ice /\ s.reconnectTimer = a.reconnectTimer
    BY <2>2, <2>4 DEF Peer
  <2>6. SoundPeer(s, hub)
    BY <1>1, <2>2, <2>4, <2>5 DEF SoundPeer, WaitsRightly, MovesOn
  <2>7. QED
    BY <2>3, <2>6, PeerOnly
<1>4. QED
  BY <1>2, <1>3 DEF OfferReady

LEMMA TimerStep == ASSUME PeerInv, ConnectTimeout \/ ReconnectFires \/ Drop PROVE PeerInv'
<1>1. peer \in Peer /\ WaitsRightly(peer) /\ MovesOn(peer, hub)
  BY DEF PeerInv, SoundPeer
<1>2. CASE ConnectTimeout
  BY <1>1, <1>2, ToSays, PeerOnly DEF ConnectTimeout, Fail, State
<1>3. CASE Drop
  BY <1>1, <1>3, OnDropSound, PeerOnly, PeerFault DEF Drop
<1>4. CASE ReconnectFires
  <2> DEFINE n == [peer EXCEPT !.reconnectTimer = FALSE]
  <2>1. /\ n \in Peer /\ n.state = peer.state
        /\ n.pc = peer.pc /\ n.connectTimer = peer.connectTimer /\ n.sink = peer.sink /\ n.calls = peer.calls
    BY <1>1 DEF Peer
  <2>2. Only(Kick(n, hub))
    BY <1>4 DEF ReconnectFires
  <2> HIDE DEF n
  <2>3. WaitsRightly(n)
    BY <1>1, <2>1 DEF WaitsRightly
  <2>4. QED
    BY <2>1, <2>2, <2>3, KickSound, PeerOnly
<1>5. QED
  BY <1>2, <1>3, <1>4

\* What comes from the daemon, and what the browser makes of it, touch neither state nor timer.
LEMMA RemoteSound ==
  ASSUME PeerInv, NEW r \in {"none", "setting", "set"}, NEW a \in SUBSET Cand, NEW b \in SUBSET Cand
  PROVE  SoundPeer([peer EXCEPT !.remote = r, !.applied = a, !.queued = b], hub)
<1> DEFINE q == [peer EXCEPT !.remote = r, !.applied = a, !.queued = b]
<1>1. peer \in Peer /\ WaitsRightly(peer) /\ MovesOn(peer, hub)
  BY DEF PeerInv, SoundPeer
<1>2. /\ q \in Peer /\ q.state = peer.state /\ q.pc = peer.pc /\ q.connectTimer = peer.connectTimer
      /\ q.sink = peer.sink /\ q.ice = peer.ice /\ q.reconnectTimer = peer.reconnectTimer /\ q.calls = peer.calls
  BY <1>1 DEF Peer
<1> HIDE DEF q
<1>3. SoundPeer(q, hub)
  BY <1>1, <1>2 DEF SoundPeer, WaitsRightly, MovesOn
<1>4. QED
  BY <1>3 DEF q

LEMMA SignalSound ==
  ASSUME PeerInv, NEW m \in Signal, m.t # "offer"
  PROVE  SoundPeer(OnSignal(peer, m), hub)
<1>1. SoundPeer(peer, hub) /\ peer \in Peer
  BY DEF PeerInv, SoundPeer
<1>2. m.t \in {"answer", "candidate", "bye", "offline"} /\ (m.t = "candidate" => m.c \in Cand)
  BY DEF Signal
<1>3. CASE m.sid # peer.sink \/ peer.sink # peer.pc
  BY <1>1, <1>3 DEF OnSignal
<1>4. CASE ~(m.sid # peer.sink \/ peer.sink # peer.pc)
  <2>1. CASE m.t = "answer"
    <3>1. OnSignal(peer, m) = [peer EXCEPT !.remote = "setting", !.applied = peer.applied, !.queued = peer.queued]
      BY <1>1, <1>4, <2>1 DEF OnSignal, Peer
    <3>2. peer.applied \in SUBSET Cand /\ peer.queued \in SUBSET Cand
      BY <1>1 DEF Peer
    <3>3. SoundPeer([peer EXCEPT !.remote = "setting", !.applied = peer.applied, !.queued = peer.queued], hub)
      BY <3>2, RemoteSound
    <3>4. QED
      BY <3>1, <3>3
  <2>2. CASE m.t = "candidate"
    <3>1. OnSignal(peer, m) = Candidate(peer, m.c)
      BY <1>4, <2>2 DEF OnSignal
    <3>2. \/ Candidate(peer, m.c) =
               [peer EXCEPT !.remote = peer.remote, !.applied = peer.applied \cup {m.c}, !.queued = peer.queued]
          \/ Candidate(peer, m.c) =
               [peer EXCEPT !.remote = peer.remote, !.applied = peer.applied, !.queued = peer.queued \cup {m.c}]
      BY <1>1 DEF Candidate, Peer
    <3>3. /\ peer.applied \cup {m.c} \in SUBSET Cand /\ peer.queued \cup {m.c} \in SUBSET Cand
          /\ peer.applied \in SUBSET Cand /\ peer.queued \in SUBSET Cand /\ peer.remote \in {"none", "setting", "set"}
      BY <1>1, <1>2, <2>2 DEF Peer
    <3>4. SoundPeer([peer EXCEPT !.remote = peer.remote, !.applied = peer.applied \cup {m.c},
                                 !.queued = peer.queued], hub)
      BY <3>3, RemoteSound
    <3>5. SoundPeer([peer EXCEPT !.remote = peer.remote, !.applied = peer.applied,
                                 !.queued = peer.queued \cup {m.c}], hub)
      BY <3>3, RemoteSound
    <3>6. QED
      BY <3>1, <3>2, <3>4, <3>5
  <2>3. CASE m.t = "bye"
    BY <1>1, <1>4, <2>3, OnDropSound DEF OnSignal
  <2>4. CASE m.t = "offline"
    BY <1>1, <1>4, <2>4, ToSays DEF OnSignal, State
  <2>5. QED
    BY <1>2, <2>1, <2>2, <2>3, <2>4
<1>5. QED
  BY <1>3, <1>4

LEMMA AnswerStep == ASSUME PeerInv, ReadSignal \/ RemoteSet \/ ControlOpens PROVE PeerInv'
<1>1. peer \in Peer /\ WaitsRightly(peer) /\ MovesOn(peer, hub) /\ TypeOK /\ NoOffers
  BY DEF PeerInv, SoundPeer
<1>2. CASE ReadSignal
  <2>1. /\ toTab \in Seq(Signal) /\ toTab # <<>> /\ toTab' = Tail(toTab)
        /\ Becomes(OnSignal(peer, Head(toTab))) /\ UNCHANGED <<hub, daemon, sids, faults>>
    BY <1>1, <1>2 DEF ReadSignal, TypeOK
  <2>2. Head(toTab) \in Signal /\ Head(toTab).t # "offer"
    BY <1>1, <2>1 DEF NoOffers
  <2>3. toTab' \in Seq(Signal) /\ NoOffers'
    BY <1>1, <2>1 DEF NoOffers
  <2>4. SoundPeer(OnSignal(peer, Head(toTab)), hub')
    BY <2>1, <2>2, SignalSound
  <2>5. SoundPeer(peer, hub)' /\ toDaemon' \in Seq(Signal)
    BY <2>1, <2>4, PeerBecomes
  <2>6. QED
    BY <1>1, <2>1, <2>3, <2>5 DEF PeerInv, TypeOK, SoundPeer
<1>3. CASE RemoteSet
  <2> DEFINE q == [peer EXCEPT !.remote = "set", !.applied = peer.applied \cup peer.queued, !.queued = {}]
  <2>1. Only(q)
    BY <1>1, <1>3 DEF RemoteSet, Peer
  <2>2. peer.applied \cup peer.queued \in SUBSET Cand /\ {} \in SUBSET Cand
    BY <1>1 DEF Peer
  <2>3. SoundPeer(q, hub)
    BY <2>2, RemoteSound
  <2> HIDE DEF q
  <2>4. QED
    BY <2>1, <2>3, PeerOnly
<1>4. CASE ControlOpens
  <2> DEFINE q == [peer EXCEPT !.state = "connected", !.connectTimer = FALSE]
  <2>1. Only(q) /\ peer.state = "connecting"
    BY <1>4 DEF ControlOpens
  <2>2. q \in Peer /\ q.state = "connected" /\ q.pc = peer.pc /\ q.calls = peer.calls
    BY <1>1 DEF Peer, State
  <2> HIDE DEF q
  <2>3. SoundPeer(q, hub)
    BY <1>1, <2>1, <2>2 DEF SoundPeer, WaitsRightly, MovesOn
  <2>4. QED
    BY <2>1, <2>3, PeerOnly
<1>5. QED
  BY <1>2, <1>3, <1>4

\* A set of one at most, as a sequence.
LEMMA OneAsSequence == ASSUME NEW x, NEW S \in SUBSET {x} PROVE SetToSeq(S) \in Seq(S)
<1>1. \E f \in [1 .. Cardinality(S) -> S] : IsInjective(f)
  <2>1. CASE S = {}
    <3>1. Cardinality(S) = 0 /\ 1 .. 0 = {}
      BY <2>1, FS_EmptySet
    <3>2. [i \in 1 .. 0 |-> x] \in [1 .. Cardinality(S) -> S] /\ IsInjective([i \in 1 .. 0 |-> x])
      BY <3>1 DEF IsInjective
    <3>3. QED
      BY <3>2
  <2>2. CASE S = {x}
    <3>1. Cardinality(S) = 1
      BY <2>2, FS_Singleton
    <3>2. [i \in 1 .. 1 |-> x] \in [1 .. Cardinality(S) -> S] /\ IsInjective([i \in 1 .. 1 |-> x])
      BY <2>2, <3>1 DEF IsInjective
    <3>3. QED
      BY <3>2
  <2>3. QED
    BY <2>1, <2>2
<1>2. SetToSeq(S) \in [1 .. Cardinality(S) -> S]
  BY <1>1 DEF SetToSeq
<1>3. Cardinality(S) \in Nat
  <2>1. CASE S = {}
    BY <2>1, FS_EmptySet
  <2>2. CASE S = {x}
    <3>1. Cardinality(S) = 1
      BY <2>2, FS_Singleton
    <3>2. QED
      BY <3>1
  <2>3. QED
    BY <2>1, <2>2
<1>4. QED
  BY <1>2, <1>3

LEMMA DaemonStep == ASSUME PeerInv, DaemonReads \/ \E d \in Sid : DaemonCloses(d) PROVE PeerInv'
<1>1. /\ toTab \in Seq(Signal) /\ toDaemon \in Seq(Signal) /\ daemon \in [Sid -> Daemon] /\ NoOffers
  BY DEF PeerInv, TypeOK
<1>2. CASE \E d \in Sid : DaemonCloses(d)
  <2>1. daemon' \in [Sid -> Daemon] /\ UNCHANGED <<hub, peer, toDaemon, toTab, sids, faults>>
    BY <1>1, <1>2 DEF DaemonCloses, Daemon
  <2>2. QED
    BY <2>1 DEF PeerInv, TypeOK, SoundPeer, NoOffers, WaitsRightly, MovesOn
<1>3. CASE DaemonReads
  <2> DEFINE m == Head(toDaemon)
             cand(c) == [t |-> "candidate", sid |-> m.sid, c |-> c]
             a == <<[t |-> "answer", sid |-> m.sid]>>
             b == <<[t |-> "bye", sid |-> m.sid]>>
             o == <<[t |-> "offline", sid |-> m.sid]>>
             l == <<cand("late")>>
  <2>1. /\ toDaemon # <<>> /\ toDaemon' = Tail(toDaemon) /\ UNCHANGED <<hub, peer, sids, faults>>
        /\ m \in Signal /\ m.sid \in Sid
    BY <1>1, <1>3 DEF DaemonReads, Signal
  <2>2. toDaemon' \in Seq(Signal)
    BY <1>1, <2>1
  <2>3. daemon' \in [Sid -> Daemon]
    BY <1>1, <1>3, <2>1 DEF DaemonReads, Daemon
  <2> DEFINE Reply == {r \in Signal : r.t # "offer"}
  <2>4. /\ \A c \in Cand : cand(c) \in Reply
        /\ [t |-> "answer", sid |-> m.sid] \in Reply /\ [t |-> "bye", sid |-> m.sid] \in Reply
        /\ [t |-> "offline", sid |-> m.sid] \in Reply
    BY <2>1 DEF Signal
  <2>5. \/ toTab' = toTab
        \/ \E ms \in Seq(Reply) : toTab' = toTab \o ms
    <3>1. CASE \E early \in SUBSET {cand("early")} :
                 toTab' = IF hub.open THEN toTab \o (a \o SetToSeq(early) \o l) ELSE toTab
      <4>1. PICK early \in SUBSET {cand("early")} :
                 toTab' = IF hub.open THEN toTab \o (a \o SetToSeq(early) \o l) ELSE toTab
        BY <3>1
      <4>2. SetToSeq(early) \in Seq(early)
        BY OneAsSequence
      <4>3. early \subseteq Reply
        BY <2>4 DEF Cand
      <4> HIDE DEF Reply
      <4>4. SetToSeq(early) \in Seq(Reply)
        BY <4>2, <4>3
      <4>5. a \in Seq(Reply) /\ l \in Seq(Reply)
        BY <2>4 DEF Cand
      <4> HIDE DEF a, l
      <4>6. a \o SetToSeq(early) \o l \in Seq(Reply)
        BY <4>4, <4>5
      <4>7. QED
        BY <4>1, <4>6
    <3>2. CASE toTab' = IF hub.open THEN toTab \o b ELSE toTab
      <4>1. b \in Seq(Reply)
        BY <2>4
      <4> HIDE DEF b, Reply
      <4>2. QED
        BY <3>2, <4>1
    <3>3. CASE toTab' = IF hub.open THEN toTab \o o ELSE toTab
      <4>1. o \in Seq(Reply)
        BY <2>4
      <4> HIDE DEF o, Reply
      <4>2. QED
        BY <3>3, <4>1
    <3>4. QED
      BY <1>3, <3>1, <3>2, <3>3 DEF DaemonReads
  <2>6. toTab' \in Seq(Signal) /\ NoOffers'
    <3>1. CASE toTab' = toTab
      BY <1>1, <3>1 DEF NoOffers
    <3>2. ASSUME NEW ms \in Seq(Reply), toTab' = toTab \o ms PROVE toTab' \in Seq(Signal) /\ NoOffers'
      <4>1. \A i \in DOMAIN ms : ms[i] \in Signal /\ ms[i].t # "offer"
        BY <3>2
      <4>2. ms \in Seq(Signal)
        BY <3>2, <4>1
      <4> HIDE DEF Reply
      <4>3. toTab' \in Seq(Signal) /\ Len(toTab') = Len(toTab) + Len(ms)
            /\ \A i \in 1 .. Len(toTab') : toTab'[i] = IF i <= Len(toTab) THEN toTab[i] ELSE ms[i - Len(toTab)]
        BY <1>1, <3>2, <4>2
      <4>4. ASSUME NEW i \in DOMAIN toTab' PROVE toTab'[i].t # "offer"
        <5>1. Len(toTab) \in Nat /\ Len(ms) \in Nat /\ i \in 1 .. Len(toTab')
          BY <1>1, <4>2, <4>3
        <5>2. CASE i <= Len(toTab)
          <6>1. i \in DOMAIN toTab /\ toTab'[i] = toTab[i]
            BY <1>1, <4>3, <5>1, <5>2
          <6>2. QED
            BY <1>1, <6>1 DEF NoOffers
        <5>3. CASE ~(i <= Len(toTab))
          <6>1. i - Len(toTab) \in DOMAIN ms
            BY <4>2, <4>3, <5>1, <5>3
          <6>2. QED
            BY <4>1, <4>3, <5>1, <5>3, <6>1
        <5>4. QED
          BY <5>2, <5>3
      <4>5. QED
        BY <4>3, <4>4 DEF NoOffers
    <3>3. QED
      BY <2>5, <3>1, <3>2
  <2>7. SoundPeer(peer, hub)'
    BY <2>1 DEF PeerInv, SoundPeer, WaitsRightly, MovesOn
  <2>8. QED
    BY <2>1, <2>2, <2>3, <2>6, <2>7 DEF PeerInv, TypeOK
<1>4. QED
  BY <1>2, <1>3

LEMMA PeerStepInv == PeerInv /\ [Next]_vars => PeerInv'
<1>1. SUFFICES ASSUME PeerInv, [Next]_vars PROVE PeerInv'
  OBVIOUS
<1>2. CASE UNCHANGED vars
  BY <1>1, <1>2 DEF vars, PeerInv, TypeOK, SoundPeer, NoOffers, WaitsRightly, MovesOn
<1>3. CASE Acquire \/ Release \/ Retry \/ CheckAlive
  BY <1>1, <1>3, PageStep
<1>4. ASSUME NEW c \in Call, MakeCall(c) \/ CallAnswered(c) \/ CallTimeout(c) PROVE PeerInv'
  BY <1>1, <1>4, CallStep
<1>5. CASE HubOpens \/ (\E on \in BOOLEAN : Presence(on)) \/ HubDrops
  BY <1>1, <1>5, HubStep
<1>6. CASE IceReady \/ OfferReady \/ ConnectTimeout \/ ReconnectFires \/ Drop
  BY <1>1, <1>6, IceReadyStep, OfferStep, TimerStep
<1>7. CASE ReadSignal \/ RemoteSet \/ ControlOpens
  BY <1>1, <1>7, AnswerStep
<1>8. CASE DaemonReads \/ \E d \in Sid : DaemonCloses(d)
  BY <1>1, <1>8, DaemonStep
<1>9. QED
  BY <1>1, <1>2, <1>3, <1>4, <1>5, <1>6, <1>7, <1>8 DEF Next

\* However the hub, the daemon, the timers and the user come between, the peer is sound.
THEOREM PeerInvariant == Spec => []PeerInv
<1>1. Init => PeerInv
  BY PeerInitInv
<1>2. PeerInv /\ [Next]_vars => PeerInv'
  BY PeerStepInv
<1>3. QED
  BY <1>1, <1>2, PTL DEF Spec

\* NeverStuck, for any number of negotiations, calls and faults: what a tab waits for is
\* there, and something ends the wait.
THEOREM PeerNeverStuck == Spec => []NeverStuck
<1>1. PeerInv => NeverStuck
  BY DEF PeerInv, SoundPeer, WaitsRightly, MovesOn, NeverStuck, ConnectingMoves, WaitsOnPresent
<1>2. QED
  BY <1>1, PeerInvariant, PTL
-----------------------------------------------------------------------------
(* Tunnels: what the tab has let go of is let go of along the way, and what is *)
(* held is held for something.                                                 *)

Comes(t, ms) == \E i \in DOMAIN ms : ms[i].t = t

\* Who holds the device's connection: nobody before the page has read "open", the page
\* until it has read "close" or said "closed".
PageInv ==
  /\ relay.ch => relay.holds
  /\ relay.st = "none" => ~relay.holds
  /\ stream.st = "none" => toPage = <<>> /\ fromPage = <<>> /\ ~relay.holds /\ relay.st # "waiting"
  /\ \A i \in DOMAIN toPage : toPage[i].t = "open" => i = 1
  /\ relay.holds \/ relay.st = "waiting" => ~Comes("open", toPage)
  /\ Comes("closed", fromPage) => ~relay.holds /\ relay.st # "waiting" /\ ~Comes("open", toPage)
  /\ stream.st = "gone" /\ (relay.holds \/ Comes("open", toPage)) => dropped \/ Comes("close", toPage)

\* Who holds the port: the daemon, which waits for the end of a channel that is there or whose
\* end is on its way.
PortInv ==
  /\ serve.conn \in {"open", "broken"} => serve.watch /\ serve.ctx # "none"
  /\ serve.ctx = "live" => serve.watch /\ (Comes("fin", up) \/ (relay.ch /\ line = "up"))

\* Nothing is held before the channel is there, and then for what is unsent.
Fresh == stream.st = "none" \/ Comes("open", toPage) \/ relay.st = "waiting"
HoldInv ==
  /\ stream.held => stream.paused
  /\ stream.st = "opening" => ~stream.paused
  /\ Fresh => ~relay.ch /\ PausesIn(fromPage) = {} /\ ~stream.paused
  /\ stream.st # "gone" /\ relay.ch /\ line = "up" /\ WillHold(stream.paused, fromPage)
     => Unsent(up) > LowWater \/ relay.low

TunnelInv == TunnelTypeOK /\ PageInv /\ PortInv /\ HoldInv

-----------------------------------------------------------------------------
(* Messages on their way. *)

LEMMA ComesAppend ==
  ASSUME NEW S, NEW ms \in Seq(S), NEW m \in S, NEW t
  PROVE  Comes(t, Append(ms, m)) <=> Comes(t, ms) \/ m.t = t
<1> DEFINE ns == Append(ms, m)
<1>1. /\ DOMAIN ms = 1 .. Len(ms) /\ DOMAIN ns = 1 .. Len(ms) + 1 /\ Len(ms) \in Nat
      /\ ns[Len(ms) + 1] = m /\ \A i \in 1 .. Len(ms) : ns[i] = ms[i]
  OBVIOUS
<1> HIDE DEF ns
<1>2. Comes(t, ns) <=> Comes(t, ms) \/ m.t = t
  BY <1>1 DEF Comes
<1>3. QED
  BY <1>2 DEF ns

LEMMA TailIs ==
  ASSUME NEW S, NEW ms \in Seq(S), ms # <<>>
  PROVE  /\ Tail(ms) \in Seq(S) /\ Head(ms) \in S /\ Head(ms) = ms[1]
         /\ DOMAIN ms = 1 .. Len(ms) /\ Len(ms) \in Nat \ {0}
         /\ DOMAIN Tail(ms) = 1 .. Len(ms) - 1
         /\ \A i \in 1 .. Len(ms) - 1 : Tail(ms)[i] = ms[i + 1]
  OBVIOUS

LEMMA ComesTail ==
  ASSUME NEW S, NEW ms \in Seq(S), ms # <<>>, NEW t
  PROVE  /\ Comes(t, Tail(ms)) => Comes(t, ms)
         /\ Comes(t, ms) => Head(ms).t = t \/ Comes(t, Tail(ms))
<1> DEFINE ns == Tail(ms)
<1>1. /\ ms[1] = Head(ms) /\ DOMAIN ms = 1 .. Len(ms) /\ DOMAIN ns = 1 .. Len(ms) - 1 /\ Len(ms) \in Nat \ {0}
      /\ \A i \in 1 .. Len(ms) - 1 : ns[i] = ms[i + 1]
  BY TailIs
<1> HIDE DEF ns
<1>2. ASSUME NEW i \in DOMAIN ns PROVE i + 1 \in DOMAIN ms /\ ms[i + 1] = ns[i]
  BY <1>1
<1>3. ASSUME NEW i \in DOMAIN ms, i # 1 PROVE i - 1 \in DOMAIN ns /\ ms[i] = ns[i - 1]
  <2>1. i - 1 \in 1 .. Len(ms) - 1 /\ (i - 1) + 1 = i
    BY <1>1, <1>3
  <2>2. QED
    BY <1>1, <2>1
<1>4. Comes(t, ns) => Comes(t, ms)
  BY <1>2 DEF Comes
<1>5. Comes(t, ms) => Head(ms).t = t \/ Comes(t, ns)
  BY <1>1, <1>3 DEF Comes
<1>6. QED
  BY <1>4, <1>5 DEF ns

LEMMA NoneComes == ~Comes("open", <<>>) /\ ~Comes("closed", <<>>) /\ ~Comes("close", <<>>) /\ ~Comes("fin", <<>>)
  BY DEF Comes

\* What the tab's writing comes to as the page says more, and as the shell reads on.
LEMMA HeldAppend ==
  ASSUME NEW S, NEW ms \in Seq(S), NEW m \in S, NEW p \in BOOLEAN
  PROVE  /\ m.t # "pause" => PausesIn(Append(ms, m)) = PausesIn(ms)
                             /\ (WillHold(p, Append(ms, m)) <=> WillHold(p, ms))
         /\ m.t = "pause" /\ WillHold(p, Append(ms, m)) => m.on
<1> DEFINE ns == Append(ms, m)
           n == Len(ms) + 1
<1>1. /\ DOMAIN ms = 1 .. Len(ms) /\ DOMAIN ns = 1 .. n /\ Len(ms) \in Nat
      /\ ns[n] = m /\ \A i \in 1 .. Len(ms) : ns[i] = ms[i]
  OBVIOUS
<1> HIDE DEF ns
<1>2. ASSUME m.t # "pause"
      PROVE  PausesIn(ns) = PausesIn(ms) /\ (WillHold(p, ns) <=> WillHold(p, ms))
  <2>1. \A i : i \in PausesIn(ns) <=> i \in PausesIn(ms)
    BY <1>1, <1>2 DEF PausesIn
  <2>2. PausesIn(ns) = PausesIn(ms) /\ \A i \in PausesIn(ms) : ns[i] = ms[i]
    BY <1>1, <2>1 DEF PausesIn
  <2>3. QED
    BY <2>2 DEF WillHold
<1>3. ASSUME m.t = "pause", WillHold(p, ns) PROVE m.on
  <2>1. n \in PausesIn(ns) /\ \A i \in PausesIn(ns) : i \in 1 .. n
    BY <1>1, <1>3 DEF PausesIn
  <2>2. PICK i \in PausesIn(ns) : ns[i].on /\ \A j \in PausesIn(ns) : j <= i
    BY <1>3, <2>1 DEF WillHold
  <2>3. i = n
    BY <1>1, <2>1, <2>2
  <2>4. QED
    BY <1>1, <2>2, <2>3
<1>4. QED
  BY <1>2, <1>3 DEF ns

LEMMA PausesAppend ==
  ASSUME NEW S, NEW ms \in Seq(S), NEW m \in S, m.t # "pause"
  PROVE  PausesIn(Append(ms, m)) = PausesIn(ms)
<1>1. \A p \in BOOLEAN : PausesIn(Append(ms, m)) = PausesIn(ms)
  BY HeldAppend
<1>2. QED
  BY <1>1

LEMMA HeldTail ==
  ASSUME NEW S, NEW ms \in Seq(S), ms # <<>>, NEW p \in BOOLEAN, NEW q \in BOOLEAN
  PROVE  /\ PausesIn(ms) = {} => PausesIn(Tail(ms)) = {}
         /\ Head(ms).t # "pause" /\ q = p /\ WillHold(q, Tail(ms)) => WillHold(p, ms)
         /\ Head(ms).t = "pause" /\ (q => Head(ms).on) /\ WillHold(q, Tail(ms)) => WillHold(p, ms)
<1> DEFINE ns == Tail(ms)
<1>1. /\ ms[1] = Head(ms) /\ DOMAIN ms = 1 .. Len(ms) /\ DOMAIN ns = 1 .. Len(ms) - 1 /\ Len(ms) \in Nat \ {0}
      /\ \A i \in 1 .. Len(ms) - 1 : ns[i] = ms[i + 1]
  BY TailIs
<1> HIDE DEF ns
<1>2. ASSUME NEW i \in PausesIn(ns) PROVE i + 1 \in PausesIn(ms) /\ ms[i + 1] = ns[i] /\ i \in Nat
  BY <1>1 DEF PausesIn
<1>3. ASSUME NEW i \in PausesIn(ms), i # 1 PROVE i - 1 \in PausesIn(ns) /\ ms[i] = ns[i - 1] /\ i \in Nat
  <2>1. i - 1 \in 1 .. Len(ms) - 1 /\ (i - 1) + 1 = i
    BY <1>1, <1>3 DEF PausesIn
  <2>2. QED
    BY <1>1, <2>1 DEF PausesIn
<1>4. ASSUME NEW i \in PausesIn(ns), ns[i].on, \A j \in PausesIn(ns) : j <= i PROVE WillHold(p, ms)
  <2>1. ASSUME NEW j \in PausesIn(ms) PROVE j <= i + 1
    <3>1. CASE j = 1
      BY <1>2, <3>1
    <3>2. CASE j # 1
      <4>1. j - 1 <= i /\ j \in Nat /\ i \in Nat
        BY <1>2, <1>3, <1>4, <3>2
      <4>2. QED
        BY <4>1
    <3>3. QED
      BY <3>1, <3>2
  <2>2. QED
    BY <1>2, <1>4, <2>1 DEF WillHold
<1>5. ASSUME q, PausesIn(ns) = {} PROVE \A i \in PausesIn(ms) : i = 1
  BY <1>3, <1>5
<1>6. ASSUME Head(ms).t # "pause", q = p, WillHold(q, ns) PROVE WillHold(p, ms)
  <2>1. CASE q /\ PausesIn(ns) = {}
    <3>1. PausesIn(ms) = {}
      BY <1>1, <1>5, <1>6, <2>1 DEF PausesIn
    <3>2. QED
      BY <1>6, <2>1, <3>1 DEF WillHold
  <2>2. CASE ~(q /\ PausesIn(ns) = {})
    BY <1>4, <1>6, <2>2 DEF WillHold
  <2>3. QED
    BY <2>1, <2>2
<1>7. ASSUME Head(ms).t = "pause", q => Head(ms).on, WillHold(q, ns) PROVE WillHold(p, ms)
  <2>1. CASE q /\ PausesIn(ns) = {}
    <3>1. 1 \in PausesIn(ms) /\ \A i \in PausesIn(ms) : i <= 1
      BY <1>1, <1>5, <1>7, <2>1 DEF PausesIn
    <3>2. QED
      BY <1>1, <1>7, <2>1, <3>1 DEF WillHold
  <2>2. CASE ~(q /\ PausesIn(ns) = {})
    BY <1>4, <1>7, <2>2 DEF WillHold
  <2>3. QED
    BY <2>1, <2>2
<1>8. PausesIn(ms) = {} => PausesIn(ns) = {}
  BY <1>2
<1>9. QED
  BY <1>6, <1>7, <1>8 DEF ns

\* What has not been sent, as more is sent and as it gets there.
LEMMA UnsentAppend ==
  ASSUME NEW S, NEW q \in Seq(S), NEW m \in S
  PROVE  /\ Unsent(q) \in Nat
         /\ Unsent(Append(q, m)) = IF m.t = "data" THEN Unsent(q) + 1 ELSE Unsent(q)
<1> DEFINE r == Append(q, m)
           n == Len(q) + 1
           D == {i \in DOMAIN q : q[i].t = "data"}
           E == {i \in DOMAIN r : r[i].t = "data"}
<1>1. /\ DOMAIN q = 1 .. Len(q) /\ DOMAIN r = 1 .. n /\ Len(q) \in Nat
      /\ r[n] = m /\ \A i \in 1 .. Len(q) : r[i] = q[i]
  OBVIOUS
<1> HIDE DEF r
<1>2. E = IF m.t = "data" THEN D \cup {n} ELSE D
  BY <1>1
<1>3. n \notin D
  BY <1>1
<1>4. IsFiniteSet(D) /\ Cardinality(D) \in Nat
  <2>1. IsFiniteSet(1 .. Len(q))
    BY <1>1, FS_Interval
  <2>2. D \in SUBSET (1 .. Len(q))
    BY <1>1
  <2> HIDE DEF D
  <2>3. QED
    BY <2>1, <2>2, FS_Subset, FS_CardinalityType
<1> HIDE DEF n, D, E
<1>5. Cardinality(D \cup {n}) = Cardinality(D) + 1
  BY <1>3, <1>4, FS_AddElement
<1>6. Unsent(q) = Cardinality(D) /\ Unsent(r) = Cardinality(E)
  BY DEF Unsent, D, E
<1>7. QED
  BY <1>2, <1>4, <1>5, <1>6 DEF r

LEMMA UnsentTail ==
  ASSUME NEW S, NEW q \in Seq(S), q # <<>>
  PROVE  Unsent(Tail(q)) \in Nat /\ Unsent(q) \in Nat /\ Unsent(q) <= Unsent(Tail(q)) + 1
<1> DEFINE r == Tail(q)
           D == {i \in DOMAIN q : q[i].t = "data"}
           E == {i \in DOMAIN r : r[i].t = "data"}
           F == {i \in D : i # 1}
           f == [i \in F |-> i - 1]
<1>1. /\ DOMAIN q = 1 .. Len(q) /\ DOMAIN r = 1 .. Len(q) - 1 /\ Len(q) \in Nat \ {0}
      /\ \A i \in 1 .. Len(q) - 1 : r[i] = q[i + 1]
  BY TailIs
<1> HIDE DEF r
<1>2. IsFiniteSet(D) /\ IsFiniteSet(E) /\ IsFiniteSet(F)
  <2>1. IsFiniteSet(1 .. Len(q)) /\ IsFiniteSet(1 .. Len(q) - 1)
    BY <1>1, FS_Interval
  <2>2. D \in SUBSET (1 .. Len(q)) /\ E \in SUBSET (1 .. Len(q) - 1) /\ F \in SUBSET D
    BY <1>1
  <2> HIDE DEF D, E, F
  <2>3. QED
    BY <2>1, <2>2, FS_Subset
<1>3. f \in Injection(F, E)
  <2>1. ASSUME NEW i \in F PROVE i - 1 \in E
    <3>1. i - 1 \in 1 .. Len(q) - 1 /\ (i - 1) + 1 = i
      BY <1>1
    <3>2. QED
      BY <1>1, <3>1
  <2>2. \A i, j \in F : i - 1 = j - 1 => i = j
    BY <1>1
  <2>3. QED
    BY <2>1, <2>2 DEF Injection, IsInjective
<1>4. Cardinality(F) <= Cardinality(E)
  BY <1>2, <1>3, FS_Injection
<1>5. D \subseteq F \cup {1}
  OBVIOUS
<1>6. Cardinality(F) \in Nat /\ Cardinality(E) \in Nat /\ Cardinality(D) \in Nat
  BY <1>2, FS_CardinalityType
<1>7. 1 \notin F
  OBVIOUS
<1> HIDE DEF D, E, F, f
<1>8. Cardinality(F \cup {1}) = Cardinality(F) + 1 /\ IsFiniteSet(F \cup {1})
  BY <1>2, <1>7, FS_AddElement
<1>9. Cardinality(D) <= Cardinality(F) + 1
  BY <1>5, <1>8, FS_Subset
<1>10. Unsent(q) = Cardinality(D) /\ Unsent(r) = Cardinality(E)
  BY DEF Unsent, D, E
<1>11. QED
  BY <1>4, <1>6, <1>9, <1>10 DEF r

-----------------------------------------------------------------------------
(* Types. *)

LEMMA MsgTypes ==
  /\ [t |-> "open"] \in ToPageMsg /\ [t |-> "data"] \in ToPageMsg /\ [t |-> "close"] \in ToPageMsg
  /\ [t |-> "opened"] \in FromPageMsg
  /\ \A b \in BOOLEAN : [t |-> "closed", error |-> b] \in FromPageMsg /\ [t |-> "pause", on |-> b] \in FromPageMsg
  /\ \A m \in FromPageMsg : m.t = "pause" => m.on \in BOOLEAN
  /\ [t |-> "dial"] \in UpMsg /\ [t |-> "data"] \in UpMsg /\ [t |-> "fin"] \in UpMsg
  /\ [t |-> "open"] \in DownMsg /\ [t |-> "end"] \in DownMsg /\ [t |-> "error"] \in DownMsg /\ [t |-> "fin"] \in DownMsg
  BY DEF ToPageMsg, FromPageMsg, UpMsg, DownMsg

LEMMA CutTypes ==
  ASSUME NEW S, NEW ms \in Seq(S), NEW i \in 0 .. Len(ms), NEW m \in S
  PROVE  SubSeq(ms, 1, i) \o <<m>> \in Seq(S) /\ \A t : m.t = t => Comes(t, SubSeq(ms, 1, i) \o <<m>>)
<1> DEFINE s == SubSeq(ms, 1, i)
           r == s \o <<m>>
<1>1. s \in Seq(S) /\ Len(s) \in Nat /\ <<m>> \in Seq(S) /\ Len(<<m>>) = 1 /\ <<m>>[1] = m
  OBVIOUS
<1> HIDE DEF s
<1>2. r \in Seq(S) /\ Len(s) + 1 \in DOMAIN r /\ r[Len(s) + 1] = m
  BY <1>1
<1> HIDE DEF r
<1>3. \A t : m.t = t => Comes(t, r)
  BY <1>2 DEF Comes
<1>4. QED
  BY <1>2, <1>3 DEF r, s

LEMMA TunnelTypes ==
  ASSUME TunnelTypeOK
  PROVE  /\ stream.st \in {"none", "opening", "open", "gone"} /\ stream.paused \in BOOLEAN /\ stream.held \in BOOLEAN
         /\ stream.wrote \in 0 .. MaxUp /\ stream \in StreamState
         /\ relay.st \in {"none", "waiting", "over"} /\ relay.holds \in BOOLEAN /\ relay.ch \in BOOLEAN
         /\ relay.open \in BOOLEAN /\ relay.isOpen \in BOOLEAN /\ relay.low \in BOOLEAN /\ relay \in RelayState
         /\ toPage \in Seq(ToPageMsg) /\ fromPage \in Seq(FromPageMsg) /\ up \in Seq(UpMsg) /\ down \in Seq(DownMsg)
         /\ loading \in BOOLEAN /\ dropped \in BOOLEAN /\ loads \in 0 .. MaxLoad
         /\ line \in {"none", "up", "lost"} /\ serve \in ServeState
  BY DEF TunnelTypeOK, StreamState, RelayState

LEMMA SendsIs ==
  ASSUME TunnelTypeOK, NEW m \in ToPageMsg, Sends(m)
  PROVE  /\ toPage' \in Seq(ToPageMsg) /\ dropped' \in BOOLEAN
         /\ dropped => dropped'
         /\ \A t : Comes(t, toPage) => Comes(t, toPage')
         /\ \A t : Comes(t, toPage') => Comes(t, toPage) \/ m.t = t
         /\ ~dropped' => Comes(m.t, toPage') \/ (relay.st = "none" /\ toPage = <<>> /\ toPage' = <<>>)
         /\ \A i \in DOMAIN toPage' : \/ i \in DOMAIN toPage /\ toPage'[i] = toPage[i]
                                      \/ i = Len(toPage) + 1 /\ toPage'[i] = m
<1>1. CASE loading
  <2>1. toPage' = toPage /\ dropped' = (dropped \/ relay.st # "none" \/ toPage # <<>>) /\ dropped \in BOOLEAN
    BY <1>1, TunnelTypes DEF Sends
  <2>2. QED
    BY <2>1, TunnelTypes
<1>2. CASE ~loading
  <2>1. toPage' = Append(toPage, m) /\ dropped' = dropped
    BY <1>2, TunnelTypes DEF Sends
  <2>2. \A t : Comes(t, Append(toPage, m)) <=> Comes(t, toPage) \/ m.t = t
    BY TunnelTypes, ComesAppend
  <2>3. \A i \in DOMAIN Append(toPage, m) : \/ i \in DOMAIN toPage /\ Append(toPage, m)[i] = toPage[i]
                                            \/ i = Len(toPage) + 1 /\ Append(toPage, m)[i] = m
    BY TunnelTypes
  <2>4. QED
    BY <2>1, <2>2, <2>3, TunnelTypes
<1>3. QED
  BY <1>1, <1>2

LEMMA UpIs ==
  ASSUME TunnelTypeOK, NEW m \in UpMsg, Up(m)
  PROVE  /\ up' \in Seq(UpMsg) /\ Unsent(up) \in Nat
         /\ Comes("fin", up) => Comes("fin", up')
         /\ line = "up" => Comes(m.t, up') /\ Unsent(up') = IF m.t = "data" THEN Unsent(up) + 1 ELSE Unsent(up)
         /\ line # "up" => up' = up
<1>1. up \in Seq(UpMsg) /\ Unsent(up) \in Nat /\ Append(up, m) \in Seq(UpMsg)
  BY TunnelTypes, UnsentAppend
<1>2. CASE line = "up"
  <2>1. up' = Append(up, m)
    BY <1>2 DEF Up
  <2>2. QED
    BY <1>1, <1>2, <2>1, UnsentAppend, ComesAppend
<1>3. CASE line # "up"
  BY <1>1, <1>3 DEF Up
<1>4. QED
  BY <1>2, <1>3

LEMMA DownIs == ASSUME TunnelTypeOK, NEW ms \in Seq(DownMsg), Down(ms) PROVE down' \in Seq(DownMsg)
<1>1. down \in Seq(DownMsg)
  BY TunnelTypes
<1>2. down \o ms \in Seq(DownMsg)
  BY <1>1
<1>3. QED
  BY <1>1, <1>2 DEF Down

LEMMA DownTypes ==
  /\ <<[t |-> "fin"]>> \in Seq(DownMsg) /\ <<[t |-> "open"]>> \in Seq(DownMsg)
  /\ <<[t |-> "error"], [t |-> "fin"]>> \in Seq(DownMsg) /\ <<[t |-> "end"], [t |-> "fin"]>> \in Seq(DownMsg)
<1>1. \A m, n \in DownMsg : <<m>> \in Seq(DownMsg) /\ <<m, n>> \in Seq(DownMsg)
  OBVIOUS
<1>2. QED
  BY <1>1, MsgTypes

LEMMA CutsIs ==
  ASSUME TunnelTypeOK, NEW i \in 0 .. Len(up), NEW j \in 0 .. Len(down), Cuts(i, j)
  PROVE  /\ up' \in Seq(UpMsg) /\ down' \in Seq(DownMsg) /\ line' = "lost"
         /\ Comes("fin", up) \/ line = "up" => Comes("fin", up')
<1>1. /\ [t |-> "fin"] \in UpMsg /\ [t |-> "fin"] \in DownMsg
      /\ up \in Seq(UpMsg) /\ down \in Seq(DownMsg)
  BY TunnelTypes, MsgTypes
<1>2. /\ SubSeq(up, 1, i) \o <<[t |-> "fin"]>> \in Seq(UpMsg)
      /\ Comes("fin", SubSeq(up, 1, i) \o <<[t |-> "fin"]>>)
      /\ SubSeq(down, 1, j) \o <<[t |-> "fin"]>> \in Seq(DownMsg)
  BY <1>1, CutTypes
<1>3. QED
  BY <1>1, <1>2 DEF Cuts

LEMMA NoRelayIs ==
  LET r == [NoRelay EXCEPT !.st = "over"]
  IN r \in RelayState /\ r.st = "over" /\ r.holds = FALSE /\ r.ch = FALSE /\ r.low = FALSE
  BY DEF NoRelay, RelayState

LEMMA EndedIs ==
  ASSUME TunnelTypeOK, NEW e \in BOOLEAN, TunnelEnded(e)
  PROVE  /\ relay' \in RelayState /\ relay'.st = "over" /\ ~relay'.holds /\ ~relay'.ch
         /\ fromPage' = Append(fromPage, [t |-> "closed", error |-> e]) /\ fromPage' \in Seq(FromPageMsg)
         /\ up' \in Seq(UpMsg) /\ (Comes("fin", up) => Comes("fin", up'))
         /\ relay.ch /\ line = "up" => Comes("fin", up')
<1>1. relay' = [NoRelay EXCEPT !.st = "over"] /\ fromPage' = Append(fromPage, [t |-> "closed", error |-> e])
  BY DEF TunnelEnded
<1>2. fromPage' \in Seq(FromPageMsg)
  <2>1. fromPage \in Seq(FromPageMsg) /\ [t |-> "closed", error |-> e] \in FromPageMsg
    BY TunnelTypes, MsgTypes
  <2>2. QED
    BY <1>1, <2>1
<1>3. [t |-> "fin"] \in UpMsg /\ [t |-> "fin"].t = "fin" /\ up \in Seq(UpMsg)
  BY MsgTypes, TunnelTypes
<1>4. CASE relay.ch
  <2>1. Up([t |-> "fin"])
    BY <1>4 DEF TunnelEnded
  <2>2. /\ up' \in Seq(UpMsg) /\ (Comes("fin", up) => Comes("fin", up'))
        /\ line = "up" => Comes("fin", up')
    BY <1>3, <2>1, UpIs
  <2>3. QED
    BY <1>1, <1>2, <2>2, NoRelayIs
<1>5. CASE ~relay.ch
  BY <1>1, <1>2, <1>3, <1>5, NoRelayIs DEF TunnelEnded
<1>6. QED
  BY <1>4, <1>5, TunnelTypes

\* What leaves the daemon as it is, and the end of a channel where it was.
LEMMA PortFrame ==
  ASSUME PortInv, UNCHANGED <<serve, line>>, Comes("fin", up) => Comes("fin", up'),
         relay.ch /\ line = "up" => relay'.ch \/ Comes("fin", up')
  PROVE  PortInv'
  BY DEF PortInv, Comes

-----------------------------------------------------------------------------
(* The shell's steps. *)

LEMMA OpenKeeps == ASSUME TunnelInv, Open PROVE TunnelInv'
<1>1. /\ stream.st = "none" /\ stream' = [stream EXCEPT !.st = "opening"] /\ Sends([t |-> "open"])
      /\ fromPage' = IF loading THEN Append(fromPage, [t |-> "closed", error |-> TRUE]) ELSE fromPage
      /\ UNCHANGED <<loading, loads, relay, line, up, down, serve>>
  BY DEF Open, wireVars
<1>2. /\ TunnelTypeOK /\ toPage = <<>> /\ fromPage = <<>> /\ ~relay.holds /\ relay.st # "waiting" /\ ~relay.ch
      /\ ~stream.paused /\ ~stream.held
  BY <1>1 DEF TunnelInv, PageInv, HoldInv, Fresh
<1>3. /\ stream' \in StreamState /\ stream'.st = "opening" /\ stream'.paused = stream.paused
      /\ stream'.held = stream.held
  BY <1>1, <1>2, TunnelTypes DEF StreamState
<1>4. CASE loading
  <2> DEFINE m == [t |-> "closed", error |-> TRUE]
  <2>1. toPage' = <<>> /\ dropped' \in BOOLEAN
    BY <1>1, <1>2, <1>4, TunnelTypes DEF Sends
  <2>2. m \in FromPageMsg /\ m.t = "closed" /\ fromPage' = Append(fromPage, m) /\ fromPage \in Seq(FromPageMsg)
    BY <1>1, <1>2, <1>4, MsgTypes, TunnelTypes
  <2> HIDE DEF m
  <2>3. /\ fromPage' \in Seq(FromPageMsg)
        /\ PausesIn(fromPage') = PausesIn(fromPage)
    BY <2>2, PausesAppend
  <2>4. PausesIn(fromPage) = {}
    BY <1>2 DEF PausesIn
  <2>5. TunnelTypeOK'
    BY <1>1, <1>2, <1>3, <2>1, <2>3 DEF TunnelTypeOK
  <2>6. PageInv'
    BY <1>1, <1>2, <1>3, <2>1 DEF TunnelInv, PageInv, Comes
  <2>7. HoldInv'
    BY <1>1, <1>2, <1>3, <2>3, <2>4 DEF HoldInv
  <2>8. QED
    BY <1>1, <2>5, <2>6, <2>7, PortFrame DEF TunnelInv
<1>5. CASE ~loading
  <2>1. toPage' = Append(toPage, [t |-> "open"]) /\ dropped' = dropped /\ fromPage' = fromPage
    BY <1>1, <1>2, <1>5, TunnelTypes DEF Sends
  <2>2. toPage' \in Seq(ToPageMsg) /\ DOMAIN toPage' = {1}
    BY <1>2, <2>1, MsgTypes, TunnelTypes
  <2>3. TunnelTypeOK'
    BY <1>1, <1>2, <1>3, <2>1, <2>2, TunnelTypes DEF TunnelTypeOK
  <2>4. PageInv'
    BY <1>1, <1>2, <1>3, <2>1, <2>2 DEF TunnelInv, PageInv, Comes
  <2>5. PausesIn(fromPage) = {}
    BY <1>2 DEF PausesIn
  <2>6. HoldInv'
    BY <1>1, <1>2, <1>3, <2>1, <2>5 DEF HoldInv
  <2>7. QED
    BY <1>1, <2>3, <2>4, <2>6, PortFrame DEF TunnelInv
<1>6. QED
  BY <1>4, <1>5

LEMMA DestroyKeeps == ASSUME TunnelInv, Destroy PROVE TunnelInv'
<1>1. /\ stream.st \in {"opening", "open"} /\ stream' = [stream EXCEPT !.st = "gone"] /\ Sends([t |-> "close"])
      /\ UNCHANGED <<fromPage, loading, loads, relay, line, up, down, serve>>
  BY DEF Destroy, wireVars
<1>2. /\ TunnelTypeOK /\ PageInv /\ PortInv /\ HoldInv
  BY DEF TunnelInv
<1>3. /\ stream' \in StreamState /\ stream'.st = "gone" /\ stream'.paused = stream.paused
      /\ stream'.held = stream.held
  BY <1>1, <1>2, TunnelTypes DEF StreamState
<1>4. [t |-> "close"] \in ToPageMsg /\ [t |-> "close"].t = "close"
  BY MsgTypes
<1>5. /\ toPage' \in Seq(ToPageMsg) /\ dropped' \in BOOLEAN
      /\ \A t : Comes(t, toPage') => Comes(t, toPage) \/ t = "close"
      /\ ~dropped' => Comes("close", toPage') \/ (relay.st = "none" /\ toPage = <<>> /\ toPage' = <<>>)
      /\ \A i \in DOMAIN toPage' : \/ i \in DOMAIN toPage /\ toPage'[i] = toPage[i]
                                   \/ toPage'[i].t = "close"
  BY <1>1, <1>2, <1>4, SendsIs
<1>6. TunnelTypeOK'
  BY <1>1, <1>2, <1>3, <1>5 DEF TunnelTypeOK
<1>7. Comes("open", toPage') => Comes("open", toPage)
  BY <1>5
<1>8. PageInv'
  <2>1. relay.st = "none" /\ toPage' = <<>> => ~relay.holds /\ ~Comes("open", toPage')
    BY <1>2, NoneComes DEF PageInv
  <2>2. (\A i \in DOMAIN toPage : toPage[i].t = "open" => i = 1)'
    BY <1>2, <1>5 DEF PageInv
  <2>3. QED
    BY <1>1, <1>2, <1>3, <1>5, <1>7, <2>1, <2>2 DEF PageInv, Comes
<1>9. HoldInv'
  BY <1>1, <1>2, <1>3, <1>7 DEF HoldInv, Fresh, PausesIn
<1>10. QED
  BY <1>1, <1>2, <1>6, <1>8, <1>9, PortFrame DEF TunnelInv

LEMMA WriteKeeps == ASSUME TunnelInv, Write PROVE TunnelInv'
<1>1. /\ stream.st = "open" /\ ~stream.held /\ stream.wrote < MaxUp
      /\ stream' = [stream EXCEPT !.wrote = @ + 1, !.held = stream.paused] /\ Sends([t |-> "data"])
      /\ UNCHANGED <<fromPage, loading, loads, relay, line, up, down, serve>>
  BY DEF Write, wireVars
<1>2. /\ TunnelTypeOK /\ PageInv /\ PortInv /\ HoldInv
  BY DEF TunnelInv
<1>3. /\ stream' \in StreamState /\ stream'.st = "open" /\ stream'.paused = stream.paused
      /\ stream'.held = stream.paused
  <2>1. stream.wrote + 1 \in 0 .. MaxUp
    BY <1>1, <1>2, TunnelTypes, TunnelAssumption
  <2>2. QED
    BY <1>1, <1>2, <2>1, TunnelTypes DEF StreamState
<1>4. [t |-> "data"] \in ToPageMsg /\ [t |-> "data"].t = "data"
  BY MsgTypes
<1>5. /\ toPage' \in Seq(ToPageMsg) /\ dropped' \in BOOLEAN
      /\ \A t : Comes(t, toPage') => Comes(t, toPage) \/ t = "data"
      /\ \A i \in DOMAIN toPage' : \/ i \in DOMAIN toPage /\ toPage'[i] = toPage[i]
                                   \/ toPage'[i].t = "data"
  BY <1>1, <1>2, <1>4, SendsIs
<1>6. TunnelTypeOK'
  BY <1>1, <1>2, <1>3, <1>5 DEF TunnelTypeOK
<1>7. Comes("open", toPage') => Comes("open", toPage)
  BY <1>5
<1>8. PageInv'
  <2>1. (\A i \in DOMAIN toPage : toPage[i].t = "open" => i = 1)'
    BY <1>2, <1>5 DEF PageInv
  <2>2. QED
    BY <1>1, <1>2, <1>3, <1>7, <2>1 DEF PageInv, Comes
<1>9. HoldInv'
  BY <1>1, <1>2, <1>3, <1>7 DEF HoldInv, Fresh, PausesIn, WillHold
<1>10. QED
  BY <1>1, <1>2, <1>6, <1>8, <1>9, PortFrame DEF TunnelInv

LEMMA ShellReadsKeeps == ASSUME TunnelInv, ShellReads PROVE TunnelInv'
<1> DEFINE m == Head(fromPage)
           ns == Tail(fromPage)
           refused == stream.st = "opening" /\ m.t = "closed"
<1>1. /\ fromPage # <<>> /\ fromPage' = ns
      /\ stream' = CASE stream.st = "opening" /\ m.t = "opened" -> [stream EXCEPT !.st = "open"]
                     [] refused -> [stream EXCEPT !.st = "gone"]
                     [] stream.st = "open" /\ m.t = "pause" ->
                          [stream EXCEPT !.paused = m.on, !.held = @ /\ m.on]
                     [] stream.st = "open" /\ m.t = "closed" -> [stream EXCEPT !.st = "gone"]
                     [] OTHER -> stream
      /\ IF refused THEN Sends([t |-> "close"]) ELSE UNCHANGED <<toPage, dropped>>
      /\ UNCHANGED <<loading, loads, relay, line, up, down, serve>>
  BY DEF ShellReads, wireVars
<1>2. /\ TunnelTypeOK /\ PageInv /\ PortInv /\ HoldInv
  BY DEF TunnelInv
<1>3. /\ fromPage \in Seq(FromPageMsg) /\ stream \in StreamState
      /\ stream.st \in {"none", "opening", "open", "gone"} /\ stream.paused \in BOOLEAN /\ stream.held \in BOOLEAN
  BY <1>2, TunnelTypes
<1>4. m \in FromPageMsg /\ ns \in Seq(FromPageMsg) /\ fromPage[1] = m /\ 1 \in DOMAIN fromPage
  BY <1>1, <1>3, TailIs
<1>5. /\ \A t : Comes(t, ns) => Comes(t, fromPage)
      /\ PausesIn(fromPage) = {} => PausesIn(ns) = {}
  <2>1. \A t : Comes(t, ns) => Comes(t, fromPage)
    BY <1>1, <1>3, ComesTail
  <2>2. \A p, q \in BOOLEAN : PausesIn(fromPage) = {} => PausesIn(ns) = {}
    BY <1>1, <1>3, HeldTail
  <2>3. QED
    BY <2>1, <2>2
<1>6. \A p, q \in BOOLEAN :
        /\ m.t # "pause" /\ q = p /\ WillHold(q, ns) => WillHold(p, fromPage)
        /\ m.t = "pause" /\ (q => m.on) /\ WillHold(q, ns) => WillHold(p, fromPage)
  BY <1>1, <1>3, HeldTail
<1>7. m.t = "closed" => Comes("closed", fromPage)
  BY <1>4 DEF Comes
<1>8. m.t = "pause" => m.on \in BOOLEAN /\ PausesIn(fromPage) # {}
  BY <1>4, MsgTypes DEF PausesIn
<1> HIDE DEF m, ns
<1>9. stream.st # "none"
  BY <1>1, <1>2 DEF PageInv
<1>10. /\ stream' \in StreamState
       /\ stream'.st # "none" /\ stream'.paused \in BOOLEAN
       /\ stream'.st = "opening" => stream.st = "opening" /\ stream'.paused = stream.paused
       /\ stream'.held => stream'.paused
       /\ stream'.st = "gone" => stream.st = "gone" \/ refused \/ Comes("closed", fromPage)
       /\ stream'.st # "gone" => stream.st # "gone"
       /\ m.t # "pause" => stream'.paused = stream.paused
       /\ m.t = "pause" /\ stream'.st # "gone" => (stream'.paused => m.on) \/ (stream.st = "opening" /\ stream' = stream)
       /\ m.t = "pause" \/ stream'.paused = stream.paused
  <2>1. CASE stream.st = "opening" /\ m.t = "opened"
    <3>1. stream' = [stream EXCEPT !.st = "open"]
      BY <1>1, <2>1
    <3>2. /\ stream' \in StreamState /\ stream'.st = "open" /\ stream'.paused = stream.paused
          /\ stream'.held = stream.held
      BY <1>3, <3>1 DEF StreamState
    <3>3. QED
      BY <1>2, <1>3, <2>1, <3>2 DEF HoldInv
  <2>2. CASE m.t = "closed" /\ stream.st \in {"opening", "open"}
    <3>1. stream' = [stream EXCEPT !.st = "gone"]
      BY <1>1, <2>2
    <3>2. /\ stream' \in StreamState /\ stream'.st = "gone" /\ stream'.paused = stream.paused
          /\ stream'.held = stream.held
      BY <1>3, <3>1 DEF StreamState
    <3>3. QED
      BY <1>2, <1>3, <1>7, <2>2, <3>2 DEF HoldInv
  <2>3. CASE stream.st = "open" /\ m.t = "pause"
    <3>1. stream' = [stream EXCEPT !.paused = m.on, !.held = @ /\ m.on]
      BY <1>1, <2>3
    <3>2. /\ stream' \in StreamState /\ stream'.st = "open" /\ stream'.paused = m.on
          /\ stream'.held = (stream.held /\ m.on)
      BY <1>3, <1>8, <2>3, <3>1 DEF StreamState
    <3>3. QED
      BY <1>2, <1>8, <2>3, <3>2 DEF HoldInv
  <2>4. CASE ~(stream.st = "opening" /\ m.t \in {"opened", "closed"}) /\ ~(stream.st = "open" /\ m.t \in {"pause", "closed"})
    <3>1. stream' = stream
      BY <1>1, <2>4
    <3>2. QED
      BY <1>2, <1>3, <1>9, <2>4, <3>1 DEF HoldInv
  <2>5. QED
    BY <2>1, <2>2, <2>3, <2>4
<1>11. /\ toPage' \in Seq(ToPageMsg) /\ dropped' \in BOOLEAN /\ (dropped => dropped')
       /\ \A t : Comes(t, toPage') => Comes(t, toPage) \/ t = "close"
       /\ \A t : Comes(t, toPage) => Comes(t, toPage')
       /\ refused /\ ~dropped' => Comes("close", toPage') \/ (relay.st = "none" /\ toPage = <<>> /\ toPage' = <<>>)
       /\ \A i \in DOMAIN toPage' : \/ i \in DOMAIN toPage /\ toPage'[i] = toPage[i]
                                    \/ toPage'[i].t = "close"
  <2>1. CASE refused
    <3>1. [t |-> "close"] \in ToPageMsg /\ [t |-> "close"].t = "close" /\ Sends([t |-> "close"])
      BY <1>1, <2>1, MsgTypes
    <3>2. QED
      BY <1>2, <3>1, SendsIs
  <2>2. CASE ~refused
    BY <1>1, <1>2, <2>2, TunnelTypes
  <2>3. QED
    BY <2>1, <2>2
<1> HIDE DEF refused
<1>12. TunnelTypeOK'
  BY <1>1, <1>2, <1>4, <1>10, <1>11 DEF TunnelTypeOK, ns
<1>13. PageInv'
  <2>1. Comes("open", toPage') => Comes("open", toPage)
    BY <1>11
  <2>2. (\A i \in DOMAIN toPage : toPage[i].t = "open" => i = 1)'
    BY <1>2, <1>11 DEF PageInv
  <2>3. Comes("closed", fromPage') => Comes("closed", fromPage)
    BY <1>1, <1>5
  <2>4. ASSUME stream'.st = "gone", relay.holds \/ Comes("open", toPage')
        PROVE  dropped' \/ Comes("close", toPage')
    <3>1. ~Comes("closed", fromPage) /\ (relay.st = "none" => ~relay.holds)
      BY <1>2, <2>1, <2>4 DEF PageInv
    <3>2. CASE stream.st = "gone"
      BY <1>2, <1>11, <2>1, <2>4, <3>2 DEF PageInv
    <3>3. CASE refused
      BY <1>11, <2>4, <3>1, <3>3, NoneComes
    <3>4. QED
      BY <1>10, <2>4, <3>1, <3>2, <3>3
  <2>5. relay' = relay
    BY <1>1
  <2>6. (stream.st # "none")'
    BY <1>10
  <2>7. (stream.st = "gone" /\ (relay.holds \/ Comes("open", toPage)) => dropped \/ Comes("close", toPage))'
    BY <2>4, <2>5 DEF Comes
  <2>8. (Comes("open", toPage))' => Comes("open", toPage)
    BY <2>1 DEF Comes
  <2>9. (Comes("closed", fromPage))' => Comes("closed", fromPage)
    BY <2>3 DEF Comes
  <2>10. QED
    BY <1>2, <2>2, <2>5, <2>6, <2>7, <2>8, <2>9 DEF PageInv
<1>14. HoldInv'
  <2>1. ASSUME Fresh' PROVE ~relay.ch /\ PausesIn(fromPage') = {} /\ ~stream'.paused
    <3>1. Comes("open", toPage') => Comes("open", toPage)
      BY <1>11
    <3>2. Fresh
      BY <1>1, <1>10, <2>1, <3>1 DEF Fresh, Comes
    <3>3. ~relay.ch /\ PausesIn(fromPage) = {} /\ ~stream.paused
      BY <1>2, <3>2 DEF HoldInv
    <3>4. m.t # "pause"
      BY <1>8, <3>3
    <3>5. QED
      BY <1>1, <1>5, <1>10, <3>3, <3>4
  <2>2. ASSUME stream'.st # "gone", WillHold(stream'.paused, fromPage')
        PROVE  stream.st # "gone" /\ WillHold(stream.paused, fromPage)
    <3>1. stream.st # "gone" /\ stream'.paused \in BOOLEAN /\ stream.paused \in BOOLEAN
          /\ WillHold(stream'.paused, ns)
      BY <1>1, <1>3, <1>10, <2>2
    <3>2. CASE m.t # "pause"
      BY <1>6, <1>10, <3>1, <3>2
    <3>3. CASE m.t = "pause"
      <4>1. stream.st = "opening" => ~stream.paused
        BY <1>2 DEF HoldInv
      <4>2. stream'.paused => m.on
        BY <1>10, <2>2, <3>3, <4>1
      <4>3. QED
        BY <1>6, <3>1, <3>3, <4>2
    <3>4. QED
      BY <3>2, <3>3
  <2>3. stream'.held => stream'.paused
    BY <1>10
  <2>4. stream'.st = "opening" => ~stream'.paused
    BY <1>2, <1>10 DEF HoldInv
  <2>5. relay' = relay /\ line' = line /\ up' = up
    BY <1>1
  <2>6. (Fresh => ~relay.ch /\ PausesIn(fromPage) = {} /\ ~stream.paused)'
    BY <2>1, <2>5 DEF PausesIn
  <2>7. (stream.st # "gone" /\ WillHold(stream.paused, fromPage))'
        => stream.st # "gone" /\ WillHold(stream.paused, fromPage)
    BY <2>2 DEF WillHold, PausesIn
  <2>8. (Unsent(up) > LowWater \/ relay.low)' <=> Unsent(up) > LowWater \/ relay.low
    BY <2>5 DEF Unsent
  <2>9. QED
    BY <1>2, <2>3, <2>4, <2>5, <2>6, <2>7, <2>8 DEF HoldInv
<1>15. QED
  BY <1>1, <1>2, <1>12, <1>13, <1>14, PortFrame DEF TunnelInv

LEMMA LoadsKeeps == ASSUME TunnelInv, FrameLoads \/ Loaded PROVE TunnelInv'
<1>1. /\ loads' \in {loads, loads + 1} /\ (loads' # loads => loads < MaxLoad) /\ loading' \in BOOLEAN
      /\ UNCHANGED <<stream, toPage, fromPage, relay, line, up, down, serve, dropped>>
  BY DEF FrameLoads, Loaded, wireVars
<1>2. TunnelTypeOK'
  <2>1. loads' \in 0 .. MaxLoad
    BY <1>1, TunnelTypes, TunnelAssumption DEF TunnelInv
  <2>2. QED
    BY <1>1, <2>1, TunnelTypes DEF TunnelInv, TunnelTypeOK
<1>3. QED
  BY <1>1, <1>2 DEF TunnelInv, PageInv, PortInv, HoldInv, Fresh, Comes, PausesIn, WillHold, Unsent

-----------------------------------------------------------------------------
(* The channel and the page. *)

LEMMA LineLostKeeps == ASSUME TunnelInv, LineLost PROVE TunnelInv'
<1>1. PICK i \in 0 .. Len(up), j \in 0 .. Len(down) : Cuts(i, j)
  BY DEF LineLost
<1>2. TunnelTypeOK /\ PageInv /\ PortInv /\ HoldInv /\ line = "up"
      /\ UNCHANGED <<stream, toPage, fromPage, loading, loads, relay, serve, dropped>>
  BY DEF TunnelInv, LineLost, shellVars
<1>3. up' \in Seq(UpMsg) /\ down' \in Seq(DownMsg) /\ line' = "lost" /\ Comes("fin", up')
  BY <1>1, <1>2, CutsIs
<1>4. TunnelTypeOK'
  BY <1>2, <1>3 DEF TunnelTypeOK
<1>5. PageInv'
  BY <1>2 DEF PageInv, Comes
<1>6. PortInv'
  BY <1>2, <1>3 DEF PortInv, Comes
<1>7. HoldInv'
  BY <1>2, <1>3 DEF HoldInv, Fresh, Comes, PausesIn
<1>8. QED
  BY <1>4, <1>5, <1>6, <1>7 DEF TunnelInv

LEMMA AppReloadsKeeps == ASSUME TunnelInv, AppReloads PROVE TunnelInv'
<1>1. PICK i \in 0 .. Len(up) : Cuts(i, 0)
  BY DEF AppReloads
<1>2. /\ TunnelTypeOK /\ PageInv /\ PortInv /\ HoldInv /\ loads < MaxLoad
      /\ loads' = loads + 1 /\ loading' = TRUE
      /\ stream' = IF stream.st \in {"opening", "open"} THEN [stream EXCEPT !.st = "gone"] ELSE stream
      /\ toPage' = <<>> /\ fromPage' = <<>> /\ relay' = [NoRelay EXCEPT !.st = "over"]
      /\ UNCHANGED <<serve, dropped>>
  BY DEF TunnelInv, AppReloads
<1>3. /\ up' \in Seq(UpMsg) /\ down' \in Seq(DownMsg) /\ line' = "lost"
      /\ Comes("fin", up) \/ line = "up" => Comes("fin", up')
  <2>1. 0 \in 0 .. Len(down)
    BY <1>2, TunnelTypes
  <2>2. QED
    BY <1>1, <1>2, <2>1, CutsIs
<1>4. /\ relay' \in RelayState /\ relay'.st = "over" /\ relay'.holds = FALSE /\ relay'.ch = FALSE
      /\ relay'.low = FALSE
  BY <1>2, NoRelayIs
<1>5. /\ stream' \in StreamState /\ stream'.st \in {stream.st, "gone"} /\ stream'.st # "opening"
      /\ stream'.paused = stream.paused /\ stream'.held = stream.held
  BY <1>2, TunnelTypes DEF StreamState
<1>6. TunnelTypeOK'
  <2>1. loads' \in 0 .. MaxLoad
    BY <1>2, TunnelTypes, TunnelAssumption
  <2>2. toPage' \in Seq(ToPageMsg) /\ fromPage' \in Seq(FromPageMsg)
    BY <1>2
  <2>3. dropped' \in BOOLEAN /\ serve' \in ServeState
    BY <1>2, TunnelTypes
  <2>4. QED
    BY <1>2, <1>3, <1>4, <1>5, <2>1, <2>2, <2>3 DEF TunnelTypeOK
<1>7. PageInv'
  BY <1>2, <1>4 DEF PageInv, Comes
<1>8. PortInv'
  BY <1>2, <1>3 DEF PortInv, Comes
<1>9. HoldInv'
  <2>1. Fresh' => stream.st = "none"
    BY <1>2, <1>4, <1>5 DEF Fresh, Comes
  <2>2. PausesIn(fromPage)' = {}
    BY <1>2 DEF PausesIn
  <2>3. stream.st = "none" => ~stream.paused
    BY <1>2 DEF HoldInv, Fresh
  <2>4. QED
    BY <1>2, <1>4, <1>5, <2>1, <2>2, <2>3 DEF HoldInv
<1>10. QED
  BY <1>6, <1>7, <1>8, <1>9 DEF TunnelInv

\* The page is done with the connection, and says so.
LEMMA EndKeeps ==
  ASSUME TunnelInv, NEW e \in BOOLEAN, TunnelEnded(e), relay.holds \/ relay.ch \/ relay.st = "waiting",
         UNCHANGED <<stream, toPage, loading, loads, line, serve, dropped>>, down' \in Seq(DownMsg)
  PROVE  TunnelInv'
<1>1. TunnelTypeOK /\ PageInv /\ PortInv /\ HoldInv
  BY DEF TunnelInv
<1>2. /\ relay' \in RelayState /\ relay'.st = "over" /\ ~relay'.holds /\ ~relay'.ch
      /\ fromPage' = Append(fromPage, [t |-> "closed", error |-> e]) /\ fromPage' \in Seq(FromPageMsg)
      /\ up' \in Seq(UpMsg) /\ (Comes("fin", up) => Comes("fin", up'))
      /\ relay.ch /\ line = "up" => Comes("fin", up')
  BY <1>1, EndedIs
<1>3. ~Comes("open", toPage) /\ stream.st # "none"
  BY <1>1 DEF PageInv
<1>4. TunnelTypeOK'
  BY <1>1, <1>2 DEF TunnelTypeOK
<1>5. PageInv'
  BY <1>1, <1>2, <1>3 DEF PageInv, Comes
<1>6. PortInv'
  BY <1>1, <1>2, PortFrame
<1>7. HoldInv'
  BY <1>1, <1>2, <1>3 DEF HoldInv, Fresh, Comes
<1>8. QED
  BY <1>4, <1>5, <1>6, <1>7 DEF TunnelInv

LEMMA PeerConnectedKeeps == ASSUME TunnelInv, PeerConnected PROVE TunnelInv'
<1>1. /\ TunnelTypeOK /\ PageInv /\ PortInv /\ HoldInv /\ relay.st = "waiting"
      /\ relay' = [relay EXCEPT !.st = "over", !.ch = relay.holds]
      /\ line' = IF relay.holds THEN "up" ELSE line
      /\ UNCHANGED <<stream, toPage, fromPage, loading, loads, up, down, serve, dropped>>
  BY DEF TunnelInv, PeerConnected, shellVars
<1>2. /\ relay' \in RelayState /\ relay'.st = "over" /\ relay'.holds = relay.holds /\ relay'.ch = relay.holds
      /\ relay'.low = relay.low
  BY <1>1, TunnelTypes DEF RelayState
<1>3. /\ ~relay.ch /\ PausesIn(fromPage) = {} /\ ~stream.paused /\ stream.st # "none" /\ ~Comes("open", toPage)
  BY <1>1 DEF HoldInv, Fresh, PageInv
<1>4. TunnelTypeOK'
  BY <1>1, <1>2 DEF TunnelTypeOK
<1>5. PageInv'
  BY <1>1, <1>2, <1>3 DEF PageInv, Comes
<1>6. PortInv'
  BY <1>1, <1>3 DEF PortInv, Comes
<1>7. HoldInv'
  <2>1. ~WillHold(stream.paused, fromPage)
    BY <1>3 DEF WillHold
  <2>2. ~WillHold(stream.paused, fromPage)' /\ ~Fresh'
    BY <1>1, <1>2, <1>3, <2>1 DEF WillHold, PausesIn, Fresh, Comes
  <2>3. QED
    BY <1>1, <2>2 DEF HoldInv
<1>8. QED
  BY <1>4, <1>5, <1>6, <1>7 DEF TunnelInv

LEMMA PeerFailsKeeps == ASSUME TunnelInv, PeerFails PROVE TunnelInv'
<1>1. down' \in Seq(DownMsg)
  BY TunnelTypes DEF TunnelInv, PeerFails
<1>2. QED
  BY <1>1, EndKeeps DEF PeerFails

LEMMA ChannelOpensKeeps == ASSUME TunnelInv, ChannelOpens PROVE TunnelInv'
<1>1. /\ TunnelTypeOK /\ PageInv /\ PortInv /\ HoldInv /\ relay.ch /\ line = "up"
      /\ relay' = [relay EXCEPT !.open = TRUE] /\ Up([t |-> "dial"])
      /\ UNCHANGED <<stream, toPage, fromPage, loading, loads, line, dropped>>
  BY DEF TunnelInv, ChannelOpens, shellVars
<1>2. \/ serve' = [serve EXCEPT !.ctx = "live", !.watch = TRUE] /\ UNCHANGED down
      \/ Down(<<[t |-> "fin"]>>) /\ UNCHANGED serve
  BY DEF ChannelOpens
<1>3. /\ relay' \in RelayState /\ relay'.st = relay.st /\ relay'.holds = relay.holds /\ relay'.ch = relay.ch
      /\ relay'.low = relay.low
  BY <1>1, TunnelTypes DEF RelayState
<1>4. up' \in Seq(UpMsg) /\ (Comes("fin", up) => Comes("fin", up')) /\ Unsent(up') = Unsent(up)
  <2>1. [t |-> "dial"] \in UpMsg /\ [t |-> "dial"].t = "dial"
    BY MsgTypes
  <2>2. QED
    BY <1>1, <2>1, UpIs
<1>5. down' \in Seq(DownMsg)
  BY <1>1, <1>2, DownTypes, DownIs, TunnelTypes
<1>6. serve' \in ServeState /\ PortInv'
  <2>1. CASE serve' = [serve EXCEPT !.ctx = "live", !.watch = TRUE]
    <3>1. serve \in ServeState
      BY <1>1, TunnelTypes
    <3>2. serve' \in ServeState /\ serve'.ctx = "live" /\ serve'.watch
      BY <2>1, <3>1 DEF ServeState
    <3>3. QED
      BY <1>1, <1>3, <3>2 DEF PortInv
  <2>2. CASE serve' = serve
    BY <1>1, <1>3, <1>4, <2>2, PortFrame, TunnelTypes
  <2>3. QED
    BY <1>2, <2>1, <2>2
<1>7. TunnelTypeOK'
  BY <1>1, <1>3, <1>4, <1>5, <1>6 DEF TunnelTypeOK
<1>8. PageInv'
  BY <1>1, <1>3 DEF PageInv, Comes
<1>9. HoldInv'
  <2>1. Unsent(up)' = Unsent(up)
    BY <1>4 DEF Unsent
  <2>2. (Fresh' => Fresh) /\ PausesIn(fromPage)' = PausesIn(fromPage)
        /\ (WillHold(stream.paused, fromPage)' => WillHold(stream.paused, fromPage))
    BY <1>1, <1>3 DEF Fresh, Comes, PausesIn, WillHold
  <2>3. QED
    BY <1>1, <1>3, <2>1, <2>2 DEF HoldInv
<1>10. QED
  BY <1>6, <1>7, <1>8, <1>9 DEF TunnelInv

LEMMA LowFiresKeeps == ASSUME TunnelInv, LowFires PROVE TunnelInv'
<1> DEFINE m == [t |-> "pause", on |-> FALSE]
<1>1. /\ TunnelTypeOK /\ PageInv /\ PortInv /\ HoldInv
      /\ relay' = [relay EXCEPT !.low = FALSE]
      /\ fromPage' = IF relay.ch THEN Append(fromPage, m) ELSE fromPage
      /\ UNCHANGED <<stream, toPage, loading, loads, line, up, down, serve, dropped>>
  BY DEF TunnelInv, LowFires, wireVars
<1>2. /\ relay' \in RelayState /\ relay'.st = relay.st /\ relay'.holds = relay.holds /\ relay'.ch = relay.ch
  BY <1>1, TunnelTypes DEF RelayState
<1>3. m \in FromPageMsg /\ m.t = "pause" /\ ~m.on /\ fromPage \in Seq(FromPageMsg) /\ stream.paused \in BOOLEAN
  BY <1>1, MsgTypes, TunnelTypes
<1> HIDE DEF m
<1>4. /\ Append(fromPage, m) \in Seq(FromPageMsg) /\ ~WillHold(stream.paused, Append(fromPage, m))
      /\ Comes("closed", Append(fromPage, m)) => Comes("closed", fromPage)
  <2>1. ~WillHold(stream.paused, Append(fromPage, m))
    BY <1>3, HeldAppend
  <2>2. Comes("closed", Append(fromPage, m)) => Comes("closed", fromPage)
    BY <1>3, ComesAppend
  <2>3. QED
    BY <1>3, <2>1, <2>2
<1>5. fromPage' \in Seq(FromPageMsg) /\ (Comes("closed", fromPage') => Comes("closed", fromPage))
  BY <1>1, <1>3, <1>4
<1>6. TunnelTypeOK'
  BY <1>1, <1>2, <1>5 DEF TunnelTypeOK
<1>7. PageInv'
  <2>1. stream.st = "none" => fromPage' = <<>>
    BY <1>1 DEF PageInv
  <2>2. (Comes("closed", fromPage))' => Comes("closed", fromPage)
    BY <1>5 DEF Comes
  <2>3. (Comes("open", toPage))' = Comes("open", toPage) /\ (Comes("close", toPage))' = Comes("close", toPage)
    BY <1>1 DEF Comes
  <2>4. QED
    BY <1>1, <1>2, <2>1, <2>2, <2>3 DEF PageInv
<1>8. PortInv'
  BY <1>1, <1>2, PortFrame
<1>9. HoldInv'
  <2>1. Fresh' => Fresh
    BY <1>1, <1>2 DEF Fresh, Comes
  <2>2. Fresh => PausesIn(fromPage)' = PausesIn(fromPage)
    BY <1>1 DEF HoldInv, PausesIn
  <2>3. relay.ch => ~WillHold(stream.paused, fromPage)'
    BY <1>1, <1>4 DEF WillHold, PausesIn
  <2>4. QED
    BY <1>1, <1>2, <2>1, <2>2, <2>3 DEF HoldInv
<1>10. QED
  BY <1>6, <1>7, <1>8, <1>9 DEF TunnelInv

LEMMA ReadsOpenKeeps ==
  ASSUME TunnelInv, toPage # <<>>, toPage' = Tail(toPage), Head(toPage).t = "open",
         relay' = [relay EXCEPT !.st = "waiting", !.holds = TRUE],
         UNCHANGED <<stream, fromPage, loading, loads, line, up, down, serve, dropped>>
  PROVE  TunnelInv'
<1>1. TunnelTypeOK /\ PageInv /\ PortInv /\ HoldInv
  BY DEF TunnelInv
<1>2. /\ toPage \in Seq(ToPageMsg) /\ DOMAIN toPage = 1 .. Len(toPage) /\ Len(toPage) \in Nat \ {0}
      /\ toPage' \in Seq(ToPageMsg) /\ DOMAIN toPage' = 1 .. Len(toPage) - 1
      /\ Head(toPage) = toPage[1] /\ \A i \in 1 .. Len(toPage) - 1 : toPage'[i] = toPage[i + 1]
  BY <1>1, TailIs, TunnelTypes
<1>3. Comes("open", toPage) /\ (Comes("close", toPage) => Comes("close", toPage'))
  <2>1. Comes("open", toPage)
    BY <1>2 DEF Comes
  <2>2. Comes("close", toPage) => Head(toPage).t = "close" \/ Comes("close", Tail(toPage))
    BY <1>2, ComesTail
  <2>3. QED
    BY <2>1, <2>2
<1>4. \A i \in DOMAIN toPage' : toPage'[i].t # "open"
  <2>1. SUFFICES ASSUME NEW i \in 1 .. Len(toPage) - 1 PROVE toPage[i + 1].t # "open"
    BY <1>2
  <2>2. i + 1 \in DOMAIN toPage /\ i + 1 # 1
    BY <1>2
  <2>3. QED
    BY <1>1, <2>2 DEF PageInv
<1>5. /\ relay' \in RelayState /\ relay'.st = "waiting" /\ relay'.holds /\ relay'.ch = relay.ch
      /\ relay'.low = relay.low
  BY <1>1, TunnelTypes DEF RelayState
<1>6. /\ stream.st # "none" /\ ~relay.ch /\ PausesIn(fromPage) = {} /\ ~stream.paused
      /\ ~Comes("closed", fromPage)
  <2>1. stream.st # "none"
    BY <1>1, <1>2 DEF PageInv
  <2>2. QED
    BY <1>1, <1>3, <2>1 DEF PageInv, HoldInv, Fresh
<1>7. TunnelTypeOK'
  BY <1>1, <1>2, <1>5 DEF TunnelTypeOK
<1>8. PageInv'
  <2>1. (stream.st = "gone" => dropped \/ Comes("close", toPage))'
    BY <1>1, <1>3 DEF PageInv, Comes
  <2>2. ~Comes("open", toPage)'
    BY <1>4 DEF Comes
  <2>3. ~Comes("closed", fromPage)' /\ (stream.st # "none")'
    BY <1>6 DEF Comes
  <2>4. (\A i \in DOMAIN toPage : toPage[i].t = "open" => i = 1)'
    BY <1>4
  <2>5. QED
    BY <1>5, <1>6, <2>1, <2>2, <2>3, <2>4 DEF PageInv
<1>9. PortInv'
  BY <1>1, <1>5, PortFrame
<1>10. HoldInv'
  BY <1>1, <1>5, <1>6 DEF HoldInv, PausesIn
<1>11. QED
  BY <1>7, <1>8, <1>9, <1>10 DEF TunnelInv

\* What else the page reads: its relay is the one it was, or one that holds nothing.
LEMMA ReadsKeeps ==
  ASSUME TunnelInv, toPage # <<>>, toPage' = Tail(toPage), Head(toPage).t # "open",
         relay' \in RelayState, relay'.st = relay.st,
         relay' = relay \/ (~relay'.holds /\ ~relay'.ch),
         Head(toPage).t = "close" => ~relay'.holds,
         fromPage' \in Seq(FromPageMsg), Comes("closed", fromPage') => Comes("closed", fromPage),
         fromPage' # fromPage => relay.ch,
         up' \in Seq(UpMsg), Comes("fin", up) => Comes("fin", up'),
         relay.ch /\ line = "up" => relay'.ch \/ Comes("fin", up'),
         stream.st # "gone" /\ relay'.ch /\ line = "up" /\ WillHold(stream.paused, fromPage')
         => Unsent(up') > LowWater \/ relay'.low,
         UNCHANGED <<stream, loading, loads, line, down, serve, dropped>>
  PROVE  TunnelInv'
<1>1. TunnelTypeOK /\ PageInv /\ PortInv /\ HoldInv
  BY DEF TunnelInv
<1>2. /\ toPage \in Seq(ToPageMsg) /\ DOMAIN toPage = 1 .. Len(toPage) /\ Len(toPage) \in Nat \ {0}
      /\ toPage' \in Seq(ToPageMsg) /\ DOMAIN toPage' = 1 .. Len(toPage) - 1
      /\ Head(toPage) = toPage[1] /\ \A i \in 1 .. Len(toPage) - 1 : toPage'[i] = toPage[i + 1]
  BY <1>1, TailIs, TunnelTypes
<1>3. \A i \in DOMAIN toPage : toPage[i].t # "open"
  <2>1. \A i \in DOMAIN toPage : toPage[i].t = "open" => i = 1
    BY <1>1 DEF PageInv
  <2>2. QED
    BY <1>2, <2>1
<1>4. \A i \in DOMAIN toPage' : toPage'[i].t # "open"
  <2>1. SUFFICES ASSUME NEW i \in 1 .. Len(toPage) - 1 PROVE toPage[i + 1].t # "open"
    BY <1>2
  <2>2. i + 1 \in DOMAIN toPage
    BY <1>2
  <2>3. QED
    BY <1>3, <2>2
<1>5. Comes("close", toPage) => Head(toPage).t = "close" \/ Comes("close", toPage')
  BY <1>2, ComesTail
<1>6. stream.st # "none"
  BY <1>1, <1>2 DEF PageInv
<1>7. ~Comes("open", toPage) /\ ~Comes("open", toPage)'
  BY <1>3, <1>4 DEF Comes
<1>8. TunnelTypeOK'
  BY <1>1, <1>2 DEF TunnelTypeOK
<1>9. PageInv'
  <2>1. relay'.holds => relay.holds /\ Head(toPage).t # "close"
    OBVIOUS
  <2>2. (stream.st = "gone" /\ relay.holds => dropped \/ Comes("close", toPage))'
    BY <1>1, <1>5, <2>1 DEF PageInv, Comes
  <2>3. (\A i \in DOMAIN toPage : toPage[i].t = "open" => i = 1)'
    BY <1>4
  <2>4. (Comes("closed", fromPage))' => Comes("closed", fromPage)
    BY DEF Comes
  <2>5. relay'.ch => relay'.holds
    BY <1>1 DEF PageInv
  <2>6. QED
    BY <1>1, <1>6, <1>7, <2>1, <2>2, <2>3, <2>4, <2>5 DEF PageInv
<1>10. PortInv'
  BY <1>1, PortFrame
<1>11. HoldInv'
  <2>1. ASSUME Fresh' PROVE ~relay'.ch /\ PausesIn(fromPage') = {} /\ ~stream.paused
    <3>1. Fresh
      BY <1>6, <1>7, <2>1 DEF Fresh
    <3>2. ~relay.ch /\ PausesIn(fromPage) = {} /\ ~stream.paused
      BY <1>1, <3>1 DEF HoldInv
    <3>3. QED
      BY <3>2
  <2>2. (Fresh => ~relay.ch /\ PausesIn(fromPage) = {} /\ ~stream.paused)'
    BY <2>1 DEF PausesIn
  <2>3. (stream.st # "gone" /\ relay.ch /\ line = "up" /\ WillHold(stream.paused, fromPage)
         => Unsent(up) > LowWater \/ relay.low)'
    BY DEF WillHold, PausesIn, Unsent
  <2>4. QED
    BY <1>1, <2>2, <2>3 DEF HoldInv
<1>12. QED
  BY <1>8, <1>9, <1>10, <1>11 DEF TunnelInv

LEMMA SendDataIs ==
  ASSUME TunnelInv, SendData
  PROVE  /\ fromPage' \in Seq(FromPageMsg) /\ (Comes("closed", fromPage') => Comes("closed", fromPage))
         /\ up' \in Seq(UpMsg) /\ (Comes("fin", up) => Comes("fin", up'))
         /\ stream.st # "gone" /\ relay.ch /\ line = "up" /\ WillHold(stream.paused, fromPage')
            => Unsent(up') > LowWater \/ relay.low
<1> DEFINE m == [t |-> "pause", on |-> TRUE]
<1>1. TunnelTypeOK /\ HoldInv /\ fromPage \in Seq(FromPageMsg) /\ stream.paused \in BOOLEAN
  BY TunnelTypes DEF TunnelInv
<1>2. [t |-> "data"] \in UpMsg /\ [t |-> "data"].t = "data" /\ m \in FromPageMsg /\ m.t = "pause"
  BY MsgTypes
<1>3. Up([t |-> "data"]) /\ fromPage' = IF Unsent(up') > HighWater THEN Append(fromPage, m) ELSE fromPage
  BY DEF SendData
<1>4. /\ up' \in Seq(UpMsg) /\ (Comes("fin", up) => Comes("fin", up')) /\ Unsent(up) \in Nat
      /\ line = "up" => Unsent(up') = Unsent(up) + 1
  BY <1>1, <1>2, <1>3, UpIs
<1> HIDE DEF m
<1>5. /\ Append(fromPage, m) \in Seq(FromPageMsg)
      /\ Comes("closed", Append(fromPage, m)) => Comes("closed", fromPage)
  BY <1>1, <1>2, ComesAppend
<1>6. ASSUME stream.st # "gone", relay.ch, line = "up", WillHold(stream.paused, fromPage')
      PROVE  Unsent(up') > LowWater \/ relay.low
  <2>1. CASE Unsent(up') > HighWater
    BY <1>4, <1>6, <2>1, WaterAssumption
  <2>2. CASE ~(Unsent(up') > HighWater)
    <3>1. fromPage' = fromPage
      BY <1>3, <2>2
    <3>2. Unsent(up) > LowWater \/ relay.low
      BY <1>1, <1>6, <3>1 DEF HoldInv
    <3>3. QED
      BY <1>4, <1>6, <3>2, WaterAssumption
  <2>3. QED
    BY <2>1, <2>2
<1>7. QED
  BY <1>1, <1>3, <1>4, <1>5, <1>6

LEMMA PageReadsKeeps == ASSUME TunnelInv, PageReads PROVE TunnelInv'
<1> DEFINE m == Head(toPage)
<1>1. /\ TunnelTypeOK /\ PageInv /\ PortInv /\ HoldInv /\ toPage # <<>> /\ toPage' = Tail(toPage)
      /\ UNCHANGED <<stream, loading, loads, line, down, serve, dropped>>
  BY DEF TunnelInv, PageReads
<1>2. relay \in RelayState /\ fromPage \in Seq(FromPageMsg) /\ up \in Seq(UpMsg)
  BY <1>1, TunnelTypes
<1>3. CASE /\ m.t = "open"
           /\ relay' = [relay EXCEPT !.st = "waiting", !.holds = TRUE] /\ UNCHANGED <<fromPage, up>>
  BY <1>1, <1>3, ReadsOpenKeeps
<1>4. CASE m.t = "data" /\ UNCHANGED relay /\ relay.ch /\ relay.open /\ SendData
  <2>1. /\ fromPage' \in Seq(FromPageMsg) /\ (Comes("closed", fromPage') => Comes("closed", fromPage))
        /\ up' \in Seq(UpMsg) /\ (Comes("fin", up) => Comes("fin", up'))
        /\ stream.st # "gone" /\ relay.ch /\ line = "up" /\ WillHold(stream.paused, fromPage')
           => Unsent(up') > LowWater \/ relay.low
    BY <1>4, SendDataIs
  <2>2. QED
    BY <1>1, <1>2, <1>4, <2>1, ReadsKeeps
<1>5. CASE m.t = "data" /\ UNCHANGED <<relay, fromPage, up>>
  <2>1. stream.st # "gone" /\ relay.ch /\ line = "up" /\ WillHold(stream.paused, fromPage')
        => Unsent(up') > LowWater \/ relay.low
    BY <1>1, <1>5 DEF HoldInv
  <2>2. QED
    BY <1>1, <1>2, <1>5, <2>1, ReadsKeeps
<1>6. CASE /\ m.t = "close" /\ relay' = [relay EXCEPT !.holds = FALSE, !.ch = FALSE]
           /\ IF relay.ch THEN Up([t |-> "fin"]) ELSE UNCHANGED up
           /\ UNCHANGED fromPage
  <2>1. relay' \in RelayState /\ relay'.st = relay.st /\ ~relay'.holds /\ ~relay'.ch
    BY <1>2, <1>6 DEF RelayState
  <2>2. [t |-> "fin"] \in UpMsg /\ [t |-> "fin"].t = "fin"
    BY MsgTypes
  <2>3. /\ up' \in Seq(UpMsg) /\ (Comes("fin", up) => Comes("fin", up'))
        /\ relay.ch /\ line = "up" => Comes("fin", up')
    BY <1>1, <1>2, <1>6, <2>2, UpIs
  <2>4. QED
    BY <1>1, <1>2, <1>6, <2>1, <2>3, ReadsKeeps
<1>7. QED
  BY <1>3, <1>4, <1>5, <1>6 DEF PageReads

LEMMA PageHearsKeeps == ASSUME TunnelInv, PageHears PROVE TunnelInv'
<1> DEFINE m == Head(down)
           o == [t |-> "opened"]
<1>1. /\ TunnelTypeOK /\ PageInv /\ PortInv /\ HoldInv /\ down # <<>> /\ down' = Tail(down)
      /\ UNCHANGED <<stream, toPage, loading, loads, line, serve, dropped>>
  BY DEF TunnelInv, PageHears
<1>2. relay \in RelayState /\ fromPage \in Seq(FromPageMsg) /\ up \in Seq(UpMsg) /\ stream.paused \in BOOLEAN
      /\ relay.isOpen \in BOOLEAN
  BY <1>1, TunnelTypes
<1>3. down' \in Seq(DownMsg)
  BY <1>1, TailIs, TunnelTypes
<1>4. CASE ~relay.ch /\ UNCHANGED <<relay, fromPage, up>>
  <2>1. TunnelTypeOK'
    BY <1>1, <1>3, <1>4 DEF TunnelTypeOK
  <2>2. QED
    BY <1>1, <1>4, <2>1 DEF TunnelInv, PageInv, PortInv, HoldInv, Fresh, Comes, PausesIn, WillHold, Unsent
<1>5. ASSUME relay.ch, NEW e \in BOOLEAN, TunnelEnded(e) PROVE TunnelInv'
  BY <1>1, <1>3, <1>5, EndKeeps
<1>6. CASE relay.ch /\ relay' = [relay EXCEPT !.isOpen = TRUE] /\ fromPage' = Append(fromPage, o) /\ UNCHANGED up
  <2>1. /\ relay' \in RelayState /\ relay'.st = relay.st /\ relay'.holds = relay.holds /\ relay'.ch = relay.ch
        /\ relay'.low = relay.low
    BY <1>2, <1>6 DEF RelayState
  <2>2. o \in FromPageMsg /\ o.t = "opened"
    BY MsgTypes
  <2> HIDE DEF o
  <2>3. /\ fromPage' \in Seq(FromPageMsg) /\ (Comes("closed", fromPage') => Comes("closed", fromPage))
        /\ PausesIn(fromPage') = PausesIn(fromPage)
        /\ WillHold(stream.paused, fromPage') <=> WillHold(stream.paused, fromPage)
    <3>1. Append(fromPage, o) \in Seq(FromPageMsg)
          /\ (Comes("closed", Append(fromPage, o)) => Comes("closed", fromPage))
      BY <1>2, <2>2, ComesAppend
    <3>2. PausesIn(Append(fromPage, o)) = PausesIn(fromPage)
          /\ (WillHold(stream.paused, Append(fromPage, o)) <=> WillHold(stream.paused, fromPage))
      BY <1>2, <2>2, HeldAppend
    <3>3. QED
      BY <1>6, <3>1, <3>2
  <2>4. TunnelTypeOK'
    BY <1>1, <1>3, <1>6, <2>1, <2>3 DEF TunnelTypeOK
  <2>5. PageInv'
    <3>1. stream.st # "none"
      BY <1>1, <1>6 DEF PageInv
    <3>2. (Comes("closed", fromPage))' => Comes("closed", fromPage)
      BY <2>3 DEF Comes
    <3>3. (Comes("open", toPage))' = Comes("open", toPage) /\ (Comes("close", toPage))' = Comes("close", toPage)
      BY <1>1 DEF Comes
    <3>4. QED
      BY <1>1, <2>1, <3>1, <3>2, <3>3 DEF PageInv
  <2>6. PortInv'
    BY <1>1, <1>6, <2>1, PortFrame
  <2>7. HoldInv'
    <3>1. Fresh' => Fresh
      BY <1>1, <2>1 DEF Fresh, Comes
    <3>2. PausesIn(fromPage)' = PausesIn(fromPage)
      BY <2>3 DEF PausesIn
    <3>3. WillHold(stream.paused, fromPage)' => WillHold(stream.paused, fromPage)
      BY <1>1, <2>3 DEF WillHold, PausesIn
    <3>4. Unsent(up)' = Unsent(up)
      BY <1>6
    <3>5. QED
      BY <1>1, <2>1, <3>1, <3>2, <3>3, <3>4 DEF HoldInv
  <2>8. QED
    BY <2>4, <2>5, <2>6, <2>7 DEF TunnelInv
<1>7. QED
  <2>1. FALSE \in BOOLEAN /\ TRUE \in BOOLEAN /\ (~relay.isOpen) \in BOOLEAN
    OBVIOUS
  <2>2. \/ ~relay.ch /\ UNCHANGED <<relay, fromPage, up>>
        \/ relay.ch /\ relay' = [relay EXCEPT !.isOpen = TRUE] /\ fromPage' = Append(fromPage, o) /\ UNCHANGED up
        \/ relay.ch /\ (TunnelEnded(FALSE) \/ TunnelEnded(TRUE) \/ TunnelEnded(~relay.isOpen))
    BY DEF PageHears
  <2>3. QED
    BY <1>4, <1>5, <1>6, <2>1, <2>2

-----------------------------------------------------------------------------
(* The daemon. *)

\* What the daemon does of its own accord.
LEMMA DaemonFrame ==
  ASSUME TunnelInv, serve' \in ServeState, down' \in Seq(DownMsg),
         UNCHANGED <<stream, toPage, fromPage, loading, loads, relay, line, up, dropped>>,
         serve'.ctx = serve.ctx, serve'.watch = serve.watch \/ serve.ctx = "done",
         serve'.conn \in {"open", "broken"} => serve'.watch /\ serve'.ctx # "none"
  PROVE  TunnelInv'
<1>1. TunnelTypeOK'
  BY DEF TunnelInv, TunnelTypeOK
<1>2. PortInv'
  BY DEF TunnelInv, PortInv, Comes
<1>3. PageInv'
  BY DEF TunnelInv, PageInv, Comes
<1>4. HoldInv'
  BY DEF TunnelInv, HoldInv, Fresh, Comes, PausesIn, WillHold, Unsent
<1>5. QED
  BY <1>1, <1>2, <1>3, <1>4 DEF TunnelInv

LEMMA DialedKeeps == ASSUME TunnelInv, Dialed \/ DialFails PROVE TunnelInv'
<1>1. TunnelTypeOK /\ PortInv /\ UNCHANGED <<stream, toPage, fromPage, loading, loads, relay, line, up, dropped>>
  BY DEF TunnelInv, Dialed, DialFails, shellVars
<1>2. serve \in ServeState /\ down \in Seq(DownMsg)
  BY <1>1, TunnelTypes
<1>3. CASE serve.ctx = "live" /\ DialConnects
  <2>1. serve' = [serve EXCEPT !.dial = "pumping", !.conn = "open"] /\ down' \in Seq(DownMsg)
    BY <1>1, <1>3, DownIs, DownTypes DEF DialConnects
  <2>2. serve' \in ServeState /\ serve'.ctx = serve.ctx /\ serve'.watch = serve.watch
    BY <1>2, <2>1 DEF ServeState
  <2>3. serve.watch
    BY <1>1, <1>3 DEF PortInv
  <2>4. QED
    BY <1>1, <1>3, <2>1, <2>2, <2>3, DaemonFrame
<1>4. CASE serve' = [serve EXCEPT !.dial = "over"] /\ down' \in Seq(DownMsg)
  <2>1. serve' \in ServeState /\ serve'.ctx = serve.ctx /\ serve'.watch = serve.watch /\ serve'.conn = serve.conn
    BY <1>2, <1>4 DEF ServeState
  <2>2. QED
    BY <1>1, <1>4, <2>1, DaemonFrame DEF PortInv
<1>5. QED
  <2>1. \/ serve' = [serve EXCEPT !.dial = "over"] /\ UNCHANGED down
        \/ serve.ctx = "live" /\ DialConnects
        \/ serve' = [serve EXCEPT !.dial = "over"] /\ Down(<<[t |-> "error"], [t |-> "fin"]>>)
    BY DEF Dialed, DialFails
  <2>2. QED
    BY <1>1, <1>2, <1>3, <1>4, <2>1, DownIs, DownTypes

LEMMA PumpEndsKeeps == ASSUME TunnelInv, PumpEnds \/ WatchEnds PROVE TunnelInv'
<1>1. TunnelTypeOK /\ PortInv /\ UNCHANGED <<stream, toPage, fromPage, loading, loads, relay, line, up, dropped>>
  BY DEF TunnelInv, PumpEnds, WatchEnds, shellVars, wireVars
<1>2. serve \in ServeState /\ down \in Seq(DownMsg)
  BY <1>1, TunnelTypes
<1>3. CASE PumpEnds
  <2>1. serve' = [serve EXCEPT !.dial = "over", !.conn = "closed"] /\ down' \in Seq(DownMsg)
    BY <1>1, <1>3, DownIs, DownTypes DEF PumpEnds
  <2>2. serve' \in ServeState /\ serve'.ctx = serve.ctx /\ serve'.watch = serve.watch /\ serve'.conn = "closed"
    BY <1>2, <2>1 DEF ServeState
  <2>3. QED
    BY <1>1, <2>1, <2>2, DaemonFrame
<1>4. CASE WatchEnds
  <2>1. serve' = [serve EXCEPT !.watch = FALSE, !.conn = IF @ = "none" THEN @ ELSE "closed"] /\ UNCHANGED down
        /\ serve.ctx = "done" /\ serve.watch
    BY <1>4 DEF WatchEnds, wireVars
  <2>2. serve' \in ServeState /\ serve'.ctx = "done" /\ serve'.watch = FALSE /\ serve'.conn \in {"none", "closed"}
    BY <1>2, <2>1 DEF ServeState
  <2>3. TunnelTypeOK'
    BY <1>1, <1>2, <2>1, <2>2 DEF TunnelTypeOK
  <2>4. PortInv'
    BY <2>2 DEF PortInv
  <2>5. PageInv' /\ HoldInv'
    BY <1>1 DEF TunnelInv, PageInv, HoldInv, Fresh, Comes, PausesIn, WillHold, Unsent
  <2>6. QED
    BY <2>3, <2>4, <2>5 DEF TunnelInv
<1>5. QED
  BY <1>3, <1>4

LEMMA DaemonHearsKeeps == ASSUME TunnelInv, DaemonHears PROVE TunnelInv'
<1> DEFINE m == Head(up)
           low == relay.low \/ (relay.ch /\ Unsent(up) = LowWater + 1 /\ Unsent(up') = LowWater)
<1>1. /\ TunnelTypeOK /\ PageInv /\ PortInv /\ HoldInv /\ up # <<>> /\ up' = Tail(up) /\ serve.ctx # "none"
      /\ relay' = [relay EXCEPT !.low = low]
      /\ UNCHANGED <<stream, toPage, fromPage, loading, loads, line, dropped>>
  BY DEF TunnelInv, DaemonHears, shellVars
<1>2. serve \in ServeState /\ down \in Seq(DownMsg) /\ up \in Seq(UpMsg) /\ relay \in RelayState
      /\ relay.low \in BOOLEAN /\ relay.ch \in BOOLEAN
  BY <1>1, TunnelTypes
<1>3. /\ \/ m.t = "fin" /\ serve' = [serve EXCEPT !.ctx = "done"] /\ UNCHANGED down
         \/ m.t = "dial" /\ serve' = [serve EXCEPT !.dial = "dialing"] /\ UNCHANGED down
         \/ m.t = "data" /\ serve.conn = "open" /\ UNCHANGED <<serve, down>>
         \/ /\ m.t = "data" /\ serve' = [serve EXCEPT !.conn = IF @ = "open" THEN "broken" ELSE @]
            /\ Down(<<[t |-> "fin"]>>)
  BY DEF DaemonHears
<1>4. down' \in Seq(DownMsg)
  BY <1>1, <1>2, <1>3, DownIs, DownTypes
<1>5. /\ up' \in Seq(UpMsg) /\ Unsent(up') \in Nat /\ Unsent(up) \in Nat /\ Unsent(up) <= Unsent(up') + 1
      /\ Comes("fin", up) => m.t = "fin" \/ Comes("fin", up')
  BY <1>1, <1>2, TailIs, UnsentTail, ComesTail
<1> HIDE DEF low
<1>6. /\ relay' \in RelayState /\ relay'.st = relay.st /\ relay'.holds = relay.holds /\ relay'.ch = relay.ch
      /\ relay'.low = low
  <2>1. low \in BOOLEAN
    BY <1>2 DEF low
  <2>2. QED
    BY <1>1, <1>2, <2>1 DEF RelayState
<1>7. /\ serve' \in ServeState /\ serve'.watch = serve.watch
      /\ serve'.conn \in {"open", "broken"} => serve.conn \in {"open", "broken"}
      /\ serve'.ctx # "none" /\ (serve'.ctx = "live" => serve.ctx = "live" /\ m.t # "fin")
  <2>1. CASE m.t = "fin" /\ serve' = [serve EXCEPT !.ctx = "done"]
    BY <1>2, <2>1 DEF ServeState
  <2>2. CASE m.t = "dial" /\ serve' = [serve EXCEPT !.dial = "dialing"]
    BY <1>1, <1>2, <2>2 DEF ServeState
  <2>3. CASE m.t = "data" /\ serve' = serve
    BY <1>1, <1>2, <2>3
  <2>4. CASE m.t = "data" /\ serve' = [serve EXCEPT !.conn = IF @ = "open" THEN "broken" ELSE @]
    BY <1>1, <1>2, <2>4 DEF ServeState
  <2>5. QED
    BY <1>3, <2>1, <2>2, <2>3, <2>4
<1>8. TunnelTypeOK'
  BY <1>1, <1>4, <1>5, <1>6, <1>7 DEF TunnelTypeOK
<1>9. PageInv'
  BY <1>1, <1>6 DEF PageInv, Comes
<1>10. PortInv'
  BY <1>1, <1>5, <1>6, <1>7 DEF PortInv, Comes
<1>11. HoldInv'
  <2>1. ASSUME relay.ch, Unsent(up) > LowWater \/ relay.low PROVE Unsent(up') > LowWater \/ low
    BY <1>5, <2>1, WaterAssumption DEF low
  <2>2. (Fresh' => Fresh) /\ PausesIn(fromPage)' = PausesIn(fromPage)
        /\ (WillHold(stream.paused, fromPage)' => WillHold(stream.paused, fromPage))
    BY <1>1, <1>6 DEF Fresh, Comes, PausesIn, WillHold
  <2>3. relay.ch /\ (Unsent(up) > LowWater \/ relay.low) => (Unsent(up) > LowWater \/ relay.low)'
    BY <1>6, <2>1 DEF Unsent
  <2>4. QED
    BY <1>1, <1>6, <2>2, <2>3 DEF HoldInv
<1>12. QED
  BY <1>8, <1>9, <1>10, <1>11 DEF TunnelInv

-----------------------------------------------------------------------------

LEMMA TunnelInitInv == TunnelInit => TunnelInv
<1>1. SUFFICES ASSUME TunnelInit PROVE TunnelInv
  OBVIOUS
<1>2. 0 \in 0 .. MaxUp /\ 0 \in 0 .. MaxLoad
  BY TunnelAssumption
<1>3. <<>> \in Seq(ToPageMsg) /\ <<>> \in Seq(FromPageMsg) /\ <<>> \in Seq(UpMsg) /\ <<>> \in Seq(DownMsg)
  OBVIOUS
<1>4. stream \in StreamState /\ relay \in RelayState /\ serve \in ServeState
  BY <1>1, <1>2 DEF TunnelInit, NoRelay, StreamState, RelayState, ServeState
<1>5. TunnelTypeOK
  BY <1>1, <1>2, <1>3, <1>4 DEF TunnelInit, TunnelTypeOK
<1>6. PageInv /\ PortInv /\ HoldInv
  BY <1>1 DEF TunnelInit, NoRelay, PageInv, PortInv, HoldInv, Comes, PausesIn
<1>7. QED
  BY <1>5, <1>6 DEF TunnelInv

LEMMA TunnelStep == TunnelInv /\ [TunnelNext]_tunnelVars => TunnelInv'
<1>1. SUFFICES ASSUME TunnelInv, [TunnelNext]_tunnelVars PROVE TunnelInv'
  OBVIOUS
<1>2. CASE UNCHANGED tunnelVars
  BY <1>1, <1>2 DEF tunnelVars, TunnelInv, TunnelTypeOK, PageInv, PortInv, HoldInv, Fresh, Comes, PausesIn,
                    WillHold, Unsent
<1>3. CASE Open \/ Destroy \/ Write \/ ShellReads \/ FrameLoads \/ Loaded
  BY <1>1, <1>3, OpenKeeps, DestroyKeeps, WriteKeeps, ShellReadsKeeps, LoadsKeeps
<1>4. CASE LineLost \/ AppReloads \/ PageReads \/ PeerConnected \/ PeerFails \/ ChannelOpens \/ PageHears \/ LowFires
  BY <1>1, <1>4, LineLostKeeps, AppReloadsKeeps, PageReadsKeeps, PeerConnectedKeeps, PeerFailsKeeps,
     ChannelOpensKeeps, PageHearsKeeps, LowFiresKeeps
<1>5. CASE DaemonHears \/ Dialed \/ DialFails \/ PumpEnds \/ WatchEnds
  BY <1>1, <1>5, DaemonHearsKeeps, DialedKeeps, PumpEndsKeeps
<1>6. QED
  BY <1>1, <1>2, <1>3, <1>4, <1>5 DEF TunnelNext

\* Whatever is lost, late or let go of on the way, each part of a connection is held by somebody
\* who will hear of its end, and each pause has something that ends it.
THEOREM TunnelInvariant == TunnelSpec => []TunnelInv
<1>1. TunnelInit => TunnelInv
  BY TunnelInitInv
<1>2. TunnelInv /\ [TunnelNext]_tunnelVars => TunnelInv'
  BY TunnelStep
<1>3. QED
  BY <1>1, <1>2, PTL DEF TunnelSpec

LEMMA NothingIsHeld == TunnelInv => HoldsEnd
<1>1. SUFFICES ASSUME TunnelInv PROVE HoldsEnd
  OBVIOUS
<1>2. TunnelTypeOK /\ PageInv /\ PortInv /\ HoldInv /\ serve \in ServeState
  BY <1>1, TunnelTypes DEF TunnelInv
<1>3. TunnelsLetGo
  <2>1. SUFFICES ASSUME stream.st = "gone", ~dropped, toPage = <<>>, up = <<>>, ~(serve.watch /\ serve.ctx = "done")
                 PROVE  ~relay.holds /\ serve.conn \in {"none", "closed"}
    BY DEF TunnelsLetGo
  <2>2. ~relay.holds /\ ~relay.ch
    BY <1>2, <2>1, NoneComes DEF PageInv
  <2>3. serve.ctx # "live"
    BY <1>2, <2>1, <2>2, NoneComes DEF PortInv
  <2>4. serve.conn \notin {"open", "broken"}
    BY <1>2, <2>1, <2>3 DEF PortInv, ServeState
  <2>5. QED
    BY <1>2, <2>2, <2>4 DEF ServeState
<1>4. PauseEnds
  BY <1>2 DEF PauseEnds, HoldInv
<1>5. QED
  BY <1>3, <1>4 DEF HoldsEnd

\* HoldsEnd, for any water marks, chunks and reloads: nothing is held for good, neither what the
\* tab has let go of, nor its writing.
THEOREM TunnelHoldsEnd == TunnelSpec => []HoldsEnd
<1>1. TunnelInv => HoldsEnd
  BY NothingIsHeld
<1>2. QED
  BY <1>1, TunnelInvariant, PTL
=============================================================================
