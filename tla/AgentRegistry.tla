---- MODULE AgentRegistry ----
(***************************************************************************)
(* The registry of local A2A agents (hub/agent_registry.py): discovery,    *)
(* health check and removal, as HubDaemon's tasks interleave them.         *)
(*                                                                         *)
(* An agent is known by its URL: local_agent_id is a hash of it.  The      *)
(* health check walks over a list of agent objects taken when it began,    *)
(* with one fetch (an await) per agent, while dispatch tasks remove agents *)
(* and discovery adds them again as new objects; the failure counts are    *)
(* kept per id and outlive the objects.  An unreachable agent, one that    *)
(* answers no agent card and one whose card has no usable interface are    *)
(* all "not answering" here: they take the same branches.                  *)
(***************************************************************************)
EXTENDS Naturals, FiniteSets

CONSTANTS
  Agent,       \* the URLs at which an agent may listen
  Configured,  \* those of config.agents.local; the others are auto-discovered
  Threshold    \* HEALTH_FAILURE_THRESHOLD

ASSUME AgentAssumption == IsFiniteSet(Agent) /\ Configured \subseteq Agent

\* With a threshold of 1 a check of an agent that was removed meanwhile would
\* delete it a second time.
ASSUME ThresholdAssumption == Threshold \in Nat /\ Threshold >= 2

VARIABLES
  alive,     \* the agents that answer at the moment
  agents,    \* _agents
  healthy,   \* the agents of _agents whose object is marked healthy
  failures,  \* _failure_counts, 0 where there is no entry
  checking,  \* health_check() runs
  pending,   \* the agents it has still to check
  stale,     \* those of pending whose object has left _agents since
  probing,   \* the URLs discover() has still to probe
  discovering,
  doomed,    \* agents a dispatch saw a connection error of, not yet removed
  failed,    \* history: failed checks since the agent last answered any fetch
  keyError   \* history: a `del self._agents[...]` found no entry

vars == <<alive, agents, healthy, failures, checking, pending, stale, probing,
          discovering, doomed, failed, keyError>>

checkVars == <<checking, pending>>
discoverVars == <<discovering, probing>>

TypeOK ==
  /\ alive \subseteq Agent
  /\ agents \subseteq Agent
  /\ healthy \subseteq agents
  /\ failures \in [Agent -> Nat]
  /\ checking \in BOOLEAN /\ discovering \in BOOLEAN
  /\ pending \subseteq Agent /\ stale \subseteq pending
  /\ probing \subseteq Agent
  /\ doomed \subseteq Agent
  /\ failed \in [Agent -> Nat]
  /\ keyError \in BOOLEAN

Init ==
  /\ alive \in SUBSET Agent
  /\ agents = {} /\ healthy = {}
  /\ failures = [a \in Agent |-> 0]
  /\ checking = FALSE /\ pending = {} /\ stale = {}
  /\ discovering = FALSE /\ probing = {}
  /\ doomed = {}
  /\ failed = [a \in Agent |-> 0]
  /\ keyError = FALSE

----------------------------------------------------------------------------
\* The agents themselves: started, stopped, overloaded, back again.
AgentChanges(a) ==
  /\ alive' = IF a \in alive THEN alive \ {a} ELSE alive \cup {a}
  /\ UNCHANGED <<agents, healthy, failures, checkVars, stale, discoverVars,
                 doomed, failed, keyError>>

----------------------------------------------------------------------------
\* Mutant of BeginDiscovery: ports are not scanned again.
BeginConfiguredDiscovery ==
  /\ ~discovering
  /\ discovering' = TRUE
  /\ probing' = Configured
  /\ UNCHANGED <<alive, agents, healthy, failures, checkVars, stale, doomed,
                 failed, keyError>>

\* discover(): the configured URLs, then the ports something listens on.
BeginDiscovery ==
  /\ ~discovering
  /\ discovering' = TRUE
  /\ probing' = Configured \cup alive
  /\ UNCHANGED <<alive, agents, healthy, failures, checkVars, stale, doomed,
                 failed, keyError>>

\* Mutant of Probe: an agent that is already known keeps its failure count.
ProbeKeepsCount(a) ==
  /\ a \in probing
  /\ probing' = probing \ {a}
  /\ IF a \in alive
       THEN /\ agents' = agents \cup {a}
            /\ healthy' = healthy \cup {a}
            /\ failed' = [failed EXCEPT ![a] = 0]
       ELSE UNCHANGED <<agents, healthy, failed>>
  /\ UNCHANGED <<alive, failures, checkVars, stale, discovering, doomed, keyError>>

\* _probe_and_register when the fetch returns.  Only the agent that is already
\* known has its failure count cleared.
Probe(a) ==
  /\ a \in probing
  /\ probing' = probing \ {a}
  /\ IF a \in alive
       THEN /\ agents' = agents \cup {a}
            /\ healthy' = healthy \cup {a}
            /\ failures' = IF a \in agents THEN [failures EXCEPT ![a] = 0] ELSE failures
            /\ failed' = [failed EXCEPT ![a] = 0]
       ELSE UNCHANGED <<agents, healthy, failures, failed>>
  /\ UNCHANGED <<alive, checkVars, stale, discovering, doomed, keyError>>

EndDiscovery ==
  /\ discovering /\ probing = {}
  /\ discovering' = FALSE
  /\ UNCHANGED <<alive, agents, healthy, failures, checkVars, stale, probing,
                 doomed, failed, keyError>>

----------------------------------------------------------------------------
\* Mutant of BeginCheck: only the agents marked healthy are checked.
BeginCheckOfHealthy ==
  /\ ~checking
  /\ checking' = TRUE
  /\ pending' = healthy
  /\ UNCHANGED <<alive, agents, healthy, failures, stale, discoverVars, doomed,
                 failed, keyError>>

\* health_check()
BeginCheck ==
  /\ ~checking
  /\ checking' = TRUE
  /\ pending' = agents
  /\ UNCHANGED <<alive, agents, healthy, failures, stale, discoverVars, doomed,
                 failed, keyError>>

\* Mutant of CheckSucceeds: the agent is marked by its id, even when it is gone.
CheckSucceedsById(a) ==
  /\ a \in pending /\ a \in alive
  /\ healthy' = healthy \cup {a}
  /\ failures' = [failures EXCEPT ![a] = 0]
  /\ failed' = [failed EXCEPT ![a] = 0]
  /\ pending' = pending \ {a}
  /\ stale' = stale \ {a}
  /\ UNCHANGED <<alive, agents, checking, discoverVars, doomed, keyError>>

\* The fetch of a pending agent returned a card.  The fields of the object are
\* refreshed, which shows in the registry only if it still holds that object.
CheckSucceeds(a) ==
  /\ a \in pending /\ a \in alive
  /\ healthy' = IF a \in stale THEN healthy ELSE healthy \cup {a}
  /\ failures' = [failures EXCEPT ![a] = 0]
  /\ failed' = [failed EXCEPT ![a] = 0]
  /\ pending' = pending \ {a}
  /\ stale' = stale \ {a}
  /\ UNCHANGED <<alive, agents, checking, discoverVars, doomed, keyError>>

\* The fetch failed.  At the threshold the entry of the id is deleted, whichever
\* object it holds; a KeyError would leave the loop with the others unchecked.
CheckFails(a) ==
  /\ a \in pending /\ a \notin alive
  /\ failed' = [failed EXCEPT ![a] = @ + 1]
  /\ IF failures[a] + 1 >= Threshold
       THEN /\ agents' = agents \ {a}
            /\ healthy' = healthy \ {a}
            /\ keyError' = (keyError \/ a \notin agents)
            /\ failures' = [failures EXCEPT ![a] = IF a \in agents THEN 0 ELSE @ + 1]
       ELSE /\ healthy' = IF a \in stale THEN healthy ELSE healthy \ {a}
            /\ failures' = [failures EXCEPT ![a] = @ + 1]
            /\ UNCHANGED <<agents, keyError>>
  /\ pending' = IF keyError' THEN {} ELSE pending \ {a}
  /\ stale' = stale \cap pending'
  /\ UNCHANGED <<alive, checking, discoverVars, doomed>>

\* Mutant of EndCheck: the loop does not wait for the checks it began.
EndCheckEarly ==
  /\ checking
  /\ checking' = FALSE
  /\ UNCHANGED <<alive, agents, healthy, failures, pending, stale, discoverVars,
                 doomed, failed, keyError>>

EndCheck ==
  /\ checking /\ pending = {}
  /\ checking' = FALSE
  /\ UNCHANGED <<alive, agents, healthy, failures, pending, stale, discoverVars,
                 doomed, failed, keyError>>

----------------------------------------------------------------------------
\* A dispatch to a registered agent ends with a connection error; the task still
\* publishes that error before it removes the agent.
DispatchFails(a) ==
  /\ a \in agents /\ a \notin alive /\ a \notin doomed
  /\ doomed' = doomed \cup {a}
  /\ UNCHANGED <<alive, agents, healthy, failures, checkVars, stale,
                 discoverVars, failed, keyError>>

\* Mutant of RemoveAgent: the failure count stays behind.
RemoveAgentOnly(a) ==
  /\ a \in doomed
  /\ doomed' = doomed \ {a}
  /\ agents' = agents \ {a}
  /\ healthy' = healthy \ {a}
  /\ stale' = stale \cup ({a} \cap pending)
  /\ UNCHANGED <<alive, failures, checkVars, discoverVars, failed, keyError>>

\* remove_agent, by the dispatch that failed.
RemoveAgent(a) ==
  /\ a \in doomed
  /\ doomed' = doomed \ {a}
  /\ failures' = [failures EXCEPT ![a] = 0]
  /\ agents' = agents \ {a}
  /\ healthy' = healthy \ {a}
  /\ stale' = stale \cup ({a} \cap pending)
  /\ UNCHANGED <<alive, checkVars, discoverVars, failed, keyError>>

----------------------------------------------------------------------------
Check(a) == CheckSucceeds(a) \/ CheckFails(a)

Next ==
  \/ BeginDiscovery \/ EndDiscovery \/ BeginCheck \/ EndCheck
  \/ \E a \in Agent :
       AgentChanges(a) \/ Probe(a) \/ Check(a) \/ DispatchFails(a) \/ RemoveAgent(a)

Spec == Init /\ [][Next]_vars

\* The health and resync loops run again and again, every fetch has a timeout,
\* and a dispatch task that saw a connection error gets to the removal.
Fairness ==
  /\ WF_vars(BeginDiscovery) /\ WF_vars(EndDiscovery)
  /\ WF_vars(BeginCheck) /\ WF_vars(EndCheck)
  /\ \A a \in Agent : WF_vars(Probe(a)) /\ WF_vars(Check(a)) /\ WF_vars(RemoveAgent(a))

FairSpec == Spec /\ Fairness

----------------------------------------------------------------------------
\* Properties

\* `del self._agents[agent.local_agent_id]` in the health check never raises
\* KeyError, although the agent may be removed, and discovered anew, between the
\* moment the list was taken and the answer to the fetch.
DeleteFindsEntry == ~keyError

\* The health check takes a out of the registry.
Pruned(a) == a \in agents \ agents' /\ a \in pending \ pending'

\* An agent is pruned only after at least Threshold - 1 checks in a row failed with
\* no answered fetch between them: a count left by an object that is gone adds at
\* most one.
PruneIsEarned ==
  [][\A a \in Agent : Pruned(a) => failed'[a] + 1 >= Threshold]_vars

\* An agent that stops answering for good leaves the registry for good.
DeadAgentsLeave ==
  \A a \in Agent : <>[](a \notin alive) => <>[](a \notin agents)

\* An agent that answers from some time on is in the registry from some time on,
\* even if a removal decided earlier still hits it.
LiveAgentsStay == \A a \in Agent : <>[](a \in alive) => <>[](a \in agents)

\* What the roster synchronisation relies on: agents join only by an answered probe
\* of a discovery and leave only by a failed check or by the dispatch that could not
\* reach them, whatever stale objects and leftover counts the tasks work with.
Contract == INSTANCE RegistryContract WITH
  alive <- alive, agents <- agents, discovering <- discovering, probing <- probing,
  checking <- checking, doomed <- doomed

ImplementsContract == Contract!RegistrySpec
====
