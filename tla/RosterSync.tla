---- MODULE RosterSync ----
(***************************************************************************)
(* How the relay learns which agents the hub has: HubDaemon._sync_agents   *)
(* and its callers (hub/main.py), over the registry's contract.            *)
(*                                                                         *)
(* The startup, the event loop (on every new SSE connection), the health   *)
(* loop, the resync loop and a dispatch that removed an agent each POST    *)
(* the whole roster.  The payload is taken before the POST and remembered  *)
(* after it, so POSTs overlap; they may reach the relay in one order and   *)
(* be answered in another, and the relay may forget what it had.  A POST   *)
(* that failed does not reach the relay later on.                          *)
(***************************************************************************)
EXTENDS RegistryContract, Naturals, FiniteSets

CONSTANTS
  MaxSessions,  \* bound on starts of the daemon
  MaxChanges,   \* bound on agents started or stopped
  MaxPosts,     \* bound on POSTs under way at a time
  MaxOutages,   \* bound on how often the relay forgets its roster
  NoAgent       \* no agent; see NoRoster

ASSUME RosterAssumption ==
  /\ IsFiniteSet(Agent) /\ Configured \subseteq Agent
  /\ MaxSessions \in Nat \ {0} /\ MaxOutages \in Nat
  /\ MaxChanges \in Nat /\ MaxPosts \in Nat \ {0}
  /\ NoAgent \notin Agent

\* _last_sync_payload is None.
NoRoster == {NoAgent}

Syncer == {"start", "events", "health", "resync", "dispatch"}

VARIABLES
  stage,     \* where the daemon is
  sessions,  \* how often it was started
  count,     \* prev_count of the health loop
  phase,     \* where each syncer's POST is
  sent,      \* its payload
  last,      \* _last_sync_payload
  relay,     \* the roster the relay holds
  outages,   \* how often it has lost it
  changes,   \* how often an agent was started or stopped
  steady     \* history: agents that have answered throughout this session

daemonVars == <<stage, sessions, count>>
postVars == <<phase, sent, last>>
relayVars == <<relay, outages>>
vars == <<registryVars, daemonVars, postVars, relayVars, changes, steady>>

TypeOK ==
  /\ alive \subseteq Agent /\ agents \subseteq Agent /\ doomed \subseteq Agent
  /\ probing \subseteq Agent /\ (probing # {} => discovering)
  /\ discovering \in BOOLEAN /\ checking \in BOOLEAN
  /\ stage \in {"discovering", "registering", "syncing", "listening", "down"}
  /\ sessions \in 0 .. MaxSessions
  /\ count \in 0 .. Cardinality(Agent)
  /\ phase \in [Syncer -> {"idle", "posted", "stored"}]
  /\ sent \in [Syncer -> SUBSET Agent]
  /\ last \in (SUBSET Agent) \cup {NoRoster}
  /\ relay \subseteq Agent
  /\ outages \in 0 .. MaxOutages
  /\ changes \in 0 .. MaxChanges
  /\ steady \subseteq alive

\* Before the first start; the relay may know agents of an earlier day.
Init ==
  /\ RegistryInit
  /\ stage = "down" /\ sessions = 0 /\ count = 0
  /\ phase = [s \in Syncer |-> "idle"]
  /\ sent = [s \in Syncer |-> {}]
  /\ last = NoRoster
  /\ relay \in SUBSET Agent /\ outages = 0
  /\ changes = 0 /\ steady = {}

----------------------------------------------------------------------------
\* _sync_agents by task s, `known` being _last_sync_payload when it is called: the
\* payload is the roster of this very moment.
SyncAgents(s, force, known) ==
  /\ last' = known
  /\ IF ~force /\ agents' = known
       THEN UNCHANGED <<phase, sent>>
       ELSE /\ Cardinality({u \in Syncer : phase[u] # "idle"}) < MaxPosts
            /\ phase' = [phase EXCEPT ![s] = "posted"]
            /\ sent' = [sent EXCEPT ![s] = agents']

\* Mutant of Stores: agents that are missing in the payload stay (no prune_missing).
StoresMore(s) ==
  /\ phase[s] = "posted"
  /\ phase' = [phase EXCEPT ![s] = "stored"]
  /\ relay' = relay \cup sent[s]
  /\ UNCHANGED <<registryVars, daemonVars, sent, last, outages, changes, steady>>

\* The request is in, and replaces what the relay had (prune_missing).
Stores(s) ==
  /\ phase[s] = "posted"
  /\ phase' = [phase EXCEPT ![s] = "stored"]
  /\ relay' = sent[s]
  /\ UNCHANGED <<registryVars, daemonVars, sent, last, outages, changes, steady>>

Finished(s) ==
  /\ phase' = [phase EXCEPT ![s] = "idle"]
  /\ sent' = [sent EXCEPT ![s] = {}]

\* The answer to it; the startup then goes over to the event loop.
Answered(s) ==
  /\ phase[s] = "stored"
  /\ Finished(s)
  /\ last' = sent[s]
  /\ stage' = IF s = "start" THEN "listening" ELSE stage
  /\ UNCHANGED <<registryVars, sessions, count, relayVars, changes, steady>>

\* Mutant of Down: a probe under way outlives the daemon.
DownButProbing ==
  /\ stage' = "down" /\ count' = 0
  /\ agents' = {} /\ discovering' = FALSE /\ checking' = FALSE
  /\ doomed' = {}
  /\ phase' = [s \in Syncer |-> "idle"]
  /\ sent' = [s \in Syncer |-> {}]
  /\ last' = NoRoster
  /\ steady' = {}
  /\ UNCHANGED <<alive, probing, sessions, relayVars, changes>>

\* The process ends, and its memory with it.
Down ==
  /\ stage' = "down" /\ count' = 0
  /\ agents' = {} /\ discovering' = FALSE /\ probing' = {} /\ checking' = FALSE
  /\ doomed' = {}
  /\ phase' = [s \in Syncer |-> "idle"]
  /\ sent' = [s \in Syncer |-> {}]
  /\ last' = NoRoster
  /\ steady' = {}
  /\ UNCHANGED <<alive, sessions, relayVars, changes>>

\* The POST fails before or after the relay stored it.  The loops and a dispatch
\* only log that; in the startup and in the event loop it ends the daemon.
PostFails(s) ==
  /\ phase[s] # "idle"
  /\ IF s \in {"start", "events"}
       THEN Down
       ELSE /\ Finished(s)
            /\ UNCHANGED <<registryVars, daemonVars, last, relayVars, changes, steady>>

----------------------------------------------------------------------------
\* _startup: discover, register, sync.  A failing registration is a Stop.
Start ==
  /\ stage = "down" /\ sessions < MaxSessions
  /\ Discover
  /\ stage' = "discovering"
  /\ sessions' = sessions + 1
  /\ steady' = alive
  /\ UNCHANGED <<count, postVars, relayVars, changes>>

\* Mutant of FirstDiscovered: the hub registers while the discovery goes on.
RegisterFirst ==
  /\ stage = "discovering"
  /\ stage' = "registering"
  /\ UNCHANGED <<registryVars, sessions, count, postVars, relayVars, changes, steady>>

FirstDiscovered ==
  /\ stage = "discovering"
  /\ Discovered
  /\ stage' = "registering"
  /\ UNCHANGED <<sessions, count, postVars, relayVars, changes, steady>>

Registered ==
  /\ stage = "registering"
  /\ stage' = "syncing"
  /\ UNCHANGED <<registryVars, sessions, count, relayVars, changes, steady>>
  /\ SyncAgents("start", FALSE, last)

Stop ==
  /\ stage # "down"
  /\ Down

----------------------------------------------------------------------------
\* The event loop learns of a (new) SSE connection.
Connected ==
  /\ stage = "listening" /\ phase["events"] = "idle"
  /\ UNCHANGED <<registryVars, stage, sessions, count, relayVars, changes, steady>>
  /\ SyncAgents("events", FALSE, NoRoster)

\* The resync loop.
BeginResync ==
  /\ stage = "listening" /\ phase["resync"] = "idle"
  /\ Discover
  /\ UNCHANGED <<daemonVars, postVars, relayVars, changes, steady>>

\* Mutant of EndResync: the resync is not forced.
EndResyncUnforced ==
  /\ stage = "listening"
  /\ Discovered
  /\ SyncAgents("resync", FALSE, last)
  /\ UNCHANGED <<daemonVars, relayVars, changes, steady>>

EndResync ==
  /\ stage = "listening"
  /\ Discovered
  /\ SyncAgents("resync", TRUE, last)
  /\ UNCHANGED <<daemonVars, relayVars, changes, steady>>

\* The health loop: it syncs when there are fewer agents than before the check.
BeginCheck ==
  /\ stage = "listening" /\ phase["health"] = "idle"
  /\ CheckHealth
  /\ count' = Cardinality(agents)
  /\ UNCHANGED <<stage, sessions, postVars, relayVars, changes, steady>>

EndCheck ==
  /\ Checked
  /\ count' = 0
  /\ IF Cardinality(agents) < count
       THEN SyncAgents("health", FALSE, NoRoster)
       ELSE UNCHANGED postVars
  /\ UNCHANGED <<stage, sessions, relayVars, changes, steady>>

\* A dispatch whose agent could not be reached.
RemoveAgent(a) ==
  /\ phase["dispatch"] = "idle"
  /\ Remove(a)
  /\ IF a \in agents THEN SyncAgents("dispatch", FALSE, NoRoster) ELSE UNCHANGED postVars
  /\ UNCHANGED <<daemonVars, relayVars, changes, steady>>

----------------------------------------------------------------------------
\* What the registry does by itself.
RegistryStep(a) ==
  /\ \/ ProbeAgent(a) \/ Prune(a)
     \/ stage = "listening" /\ ConnectionError(a)
  /\ UNCHANGED <<daemonVars, postVars, relayVars, changes, steady>>

AgentChanges(a) ==
  /\ changes < MaxChanges
  /\ AgentComesOrGoes(a)
  /\ changes' = changes + 1
  /\ steady' = steady \ {a}
  /\ UNCHANGED <<daemonVars, postVars, relayVars>>

\* The relay restarts, or its copy of the roster expires.
RelayForgets ==
  /\ outages < MaxOutages
  /\ relay' = {}
  /\ outages' = outages + 1
  /\ UNCHANGED <<registryVars, daemonVars, postVars, changes, steady>>

Next ==
  \/ \E s \in Syncer : Stores(s) \/ Answered(s) \/ PostFails(s)
  \/ Start \/ FirstDiscovered \/ Registered \/ Stop
  \/ Connected \/ BeginResync \/ EndResync \/ BeginCheck \/ EndCheck
  \/ \E a \in Agent : RemoveAgent(a) \/ RegistryStep(a) \/ AgentChanges(a)
  \/ RelayForgets

Spec == Init /\ [][Next]_vars

\* Both loops run again and again, probes and POSTs have timeouts, and a POST of the
\* resync loop reaches the relay now and then.  The checks of an agent that stays
\* away add up to a prune (DeadAgentsLeave of AgentRegistry).
Fairness ==
  /\ WF_vars(BeginResync) /\ WF_vars(EndResync) /\ SF_vars(Stores("resync"))
  /\ WF_vars(BeginCheck) /\ WF_vars(EndCheck)
  /\ \A s \in Syncer : WF_vars(Answered(s) \/ PostFails(s))
  /\ \A a \in Agent :
       /\ WF_vars(ProbeAgent(a) /\ RegistryStep(a))
       /\ SF_vars(Prune(a) /\ RegistryStep(a))

FairSpec == Spec /\ Fairness

----------------------------------------------------------------------------
\* Properties

\* A daemon that reads relay events has every agent in its registry that has
\* answered since the startup began: the relay, which knows such an agent from an
\* earlier session already, is never told that it is not available.
SteadyAgentsAreFound == stage = "listening" => steady \subseteq agents

\* While the daemon runs, an agent that keeps answering gets into the relay's roster
\* and stays there, through overlapping and failing POSTs, reconnects and relay
\* outages.
LiveAgentsReachRelay ==
  \A a \in Agent :
    <>[](a \in alive /\ stage = "listening") => <>[](a \in relay)

\* An agent that stays away leaves it, whichever of the tasks found out, and even
\* when no one noticed because another agent appeared meanwhile.
DeadAgentsLeaveRelay ==
  \A a \in Agent :
    <>[](a \notin alive /\ stage = "listening") => <>[](a \notin relay)
====
