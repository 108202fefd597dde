------------------------------ MODULE MCDevices ------------------------------
(* What a device has to do with: AccountHub (its presence), HubPlugins (the   *)
(* token it is given), AgentThread (its threads in a tab), AgentManager (the   *)
(* sessions of a thread) and Tunnel (a connection to one of its ports). They   *)
(* share no variable, so nothing is lost by letting only one of them run in a  *)
(* behaviour.                                                                  *)
EXTENDS AccountHub, HubPlugins, AgentThread, AgentManager, Tunnel

VARIABLE part

accountVars == <<hubVars, pluginVars>>
agentVars == <<threadVars, mapVars>>
devicesVars == <<part, accountVars, agentVars, tunnelVars>>

DevicesInit ==
  /\ part \in {"hub", "plugins", "thread", "agents", "tunnel"}
  /\ HubInit /\ PluginInit /\ ThreadInit /\ MapInit /\ TunnelInit

DevicesNext ==
  \/ part = "hub" /\ HubNext /\ UNCHANGED <<part, pluginVars, agentVars, tunnelVars>>
  \/ part = "plugins" /\ PluginNext /\ UNCHANGED <<part, hubVars, agentVars, tunnelVars>>
  \/ part = "thread" /\ ThreadNext /\ UNCHANGED <<part, mapVars, accountVars, tunnelVars>>
  \/ part = "agents" /\ MapNext /\ UNCHANGED <<part, threadVars, accountVars, tunnelVars>>
  \/ part = "tunnel" /\ TunnelNext /\ UNCHANGED <<part, accountVars, agentVars>>

DevicesSpec == DevicesInit /\ [][DevicesNext]_devicesVars
=============================================================================
