----------------------------- MODULE MCAssistant -----------------------------
(* One conversation: Assistant (its log and its agent), Voice (whose           *)
(* microphone is on) and LiveBridge (what of a spoken conversation goes to the *)
(* agent). They share no variable, so nothing is lost by letting only one of   *)
(* them run in a behaviour.                                                    *)
EXTENDS Assistant, Voice, LiveBridge, TLC

VARIABLE part

conversationVars == <<part, vars, voiceVars, bridgeVars>>

ConversationInit ==
  /\ part \in {"log", "voice", "bridge"}
  /\ Init /\ VoiceInit /\ BridgeInit
  /\ part # "voice" => \A w \in Window : voice[w].engine = CHOOSE e \in Engine : TRUE

ConversationNext ==
  \/ part = "log" /\ Next /\ UNCHANGED <<part, voiceVars, bridgeVars>>
  \/ part = "voice" /\ VoiceNext /\ UNCHANGED <<part, vars, bridgeVars>>
  \/ part = "bridge" /\ BridgeNext /\ UNCHANGED <<part, vars, voiceVars>>

ConversationSpec == ConversationInit /\ [][ConversationNext]_conversationVars

Symmetry == Permutations(Tab) \cup Permutations(Prompt)
=============================================================================
