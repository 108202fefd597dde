----------------------------- MODULE MCAgentLive -----------------------------
(* What must happen in an agent thread, in two parts that keep the state graph *)
(* small: a claude that fails and is retried, and a claude that goes stale.    *)
EXTENDS AgentSession

VARIABLE part

liveVars == <<part, vars>>

LiveInit == part \in {"retry", "stale"} /\ Init

LiveNext ==
  /\ Next /\ UNCHANGED part
  /\ part = "retry" => UNCHANGED gen
  /\ part = "stale" => UNCHANGED errors

LiveSpec == LiveInit /\ [][LiveNext]_liveVars /\ Fairness
=============================================================================
