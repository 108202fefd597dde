------------------------------ MODULE MCDesktop ------------------------------
(* A device's desktop: DesktopSession (who is shown it), RemoteKeys and        *)
(* RemotePointer (what a viewer presses there). They share no variable, so     *)
(* nothing is lost by letting only one of them run in a behaviour.             *)
EXTENDS DesktopSession, RemoteKeys, RemotePointer

VARIABLE part

MCDesktopVars == <<part, desktopVars, keysVars, pointerVars>>

MCDesktopInit ==
  /\ part \in {"session", "keys", "pointer"}
  /\ DesktopInit
  /\ KeysInit /\ (part # "keys" => ~mac)
  /\ PointerInit /\ (part # "pointer" => mode = "auto" /\ ~pad)

MCDesktopNext ==
  \/ part = "session" /\ DesktopNext /\ UNCHANGED <<part, keysVars, pointerVars>>
  \/ part = "keys" /\ KeysNext /\ UNCHANGED <<part, desktopVars, pointerVars>>
  \/ part = "pointer" /\ PointerNext /\ UNCHANGED <<part, desktopVars, keysVars>>

MCDesktopSpec == MCDesktopInit /\ [][MCDesktopNext]_MCDesktopVars
=============================================================================
