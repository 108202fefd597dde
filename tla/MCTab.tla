-------------------------------- MODULE MCTab --------------------------------
(* What happens on a clock: DevicePeer (a tab's connection to a device),       *)
(* Dictation (its composer's microphone) and AccountHub (the sweep of silent   *)
(* daemons, and the thread a tab shows). They share no variable, so nothing is *)
(* lost by letting only one of them run in a behaviour; the others stay in     *)
(* their initial state, where nothing that is fair can happen to them.         *)
EXTENDS DevicePeer, Dictation, AccountHub

VARIABLE part

tabVars == <<part, vars, dictVars, hubVars>>

TabInit ==
  /\ part \in {"peer", "dictation", "hub"} /\ Init /\ DictInit /\ HubInit
  /\ part # "peer" => hub.known

TabNext ==
  \/ part = "peer" /\ Next /\ UNCHANGED <<part, dictVars, hubVars>>
  \/ part = "dictation" /\ DictNext /\ UNCHANGED <<part, vars, hubVars>>
  \/ part = "hub" /\ HubNext /\ UNCHANGED <<part, vars, dictVars>>

TabSpec == TabInit /\ [][TabNext]_tabVars /\ Fairness /\ DictFairness /\ HubFairness
=============================================================================
