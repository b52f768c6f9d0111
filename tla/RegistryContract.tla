---- MODULE RegistryContract ----
(***************************************************************************)
(* What the rest of the daemon may rely on in AgentRegistry                *)
(* (hub/agent_registry.py): how the set of registered agents can change.   *)
(* Discovery registers every agent that answers its probe; a health check  *)
(* prunes only agents that do not answer; a dispatch removes only an agent *)
(* it has seen a connection error of, possibly long after.                 *)
(* How the health check counts its failures is left open.                  *)
(***************************************************************************)
CONSTANTS
  Agent,      \* the URLs at which an agent may listen
  Configured  \* those of config.agents.local

VARIABLES
  alive,        \* the agents that answer at the moment
  agents,       \* _agents
  discovering,  \* discover() runs
  probing,      \* the URLs it has still to probe
  checking,     \* health_check() runs
  doomed        \* agents a dispatch saw a connection error of, not yet removed

registryVars == <<alive, agents, discovering, probing, checking, doomed>>

RegistryInit ==
  /\ alive \in SUBSET Agent
  /\ agents = {}
  /\ discovering = FALSE /\ probing = {}
  /\ checking = FALSE
  /\ doomed = {}

AgentComesOrGoes(a) ==
  /\ alive' = IF a \in alive THEN alive \ {a} ELSE alive \cup {a}
  /\ UNCHANGED <<agents, discovering, probing, checking, doomed>>

Discover ==
  /\ ~discovering
  /\ discovering' = TRUE
  /\ probing' = Configured \cup alive
  /\ UNCHANGED <<alive, agents, checking, doomed>>

ProbeAgent(a) ==
  /\ a \in probing
  /\ probing' = probing \ {a}
  /\ agents' = IF a \in alive THEN agents \cup {a} ELSE agents
  /\ UNCHANGED <<alive, discovering, checking, doomed>>

Discovered ==
  /\ discovering /\ probing = {}
  /\ discovering' = FALSE
  /\ UNCHANGED <<alive, agents, probing, checking, doomed>>

CheckHealth ==
  /\ ~checking
  /\ checking' = TRUE
  /\ UNCHANGED <<alive, agents, discovering, probing, doomed>>

Prune(a) ==
  /\ checking
  /\ a \in agents /\ a \notin alive
  /\ agents' = agents \ {a}
  /\ UNCHANGED <<alive, discovering, probing, checking, doomed>>

Checked ==
  /\ checking
  /\ checking' = FALSE
  /\ UNCHANGED <<alive, agents, discovering, probing, doomed>>

ConnectionError(a) ==
  /\ a \in agents /\ a \notin alive /\ a \notin doomed
  /\ doomed' = doomed \cup {a}
  /\ UNCHANGED <<alive, agents, discovering, probing, checking>>

Remove(a) ==
  /\ a \in doomed
  /\ doomed' = doomed \ {a}
  /\ agents' = agents \ {a}
  /\ UNCHANGED <<alive, discovering, probing, checking>>

RegistryNext ==
  \/ Discover \/ Discovered \/ CheckHealth \/ Checked
  \/ \E a \in Agent :
       AgentComesOrGoes(a) \/ ProbeAgent(a) \/ Prune(a) \/ ConnectionError(a) \/ Remove(a)

RegistrySpec == RegistryInit /\ [][RegistryNext]_registryVars
====
