---- MODULE RosterSync_proofs ----
(***************************************************************************)
(* Proofs about RosterSync for any agents and bounds: its type invariant;  *)
(* that a daemon which reads relay events has found every agent that has   *)
(* answered since its startup began; that no POST takes such an agent away *)
(* from the relay; and that no call of _sync_agents is skipped.            *)
(***************************************************************************)
EXTENDS RosterSync, FiniteSetTheorems, TLAPS

\* A sync takes the registry's agents, remembers what it was given and touches one
\* task's POST.
LEMMA SyncType ==
  ASSUME TypeOK, NEW s \in Syncer, NEW force \in BOOLEAN, NEW known,
         known \in (SUBSET Agent) \cup {NoRoster}, agents' \subseteq Agent,
         SyncAgents(s, force, known)
  PROVE  /\ phase' \in [Syncer -> {"idle", "posted", "stored"}]
         /\ sent' \in [Syncer -> SUBSET Agent]
         /\ last' \in (SUBSET Agent) \cup {NoRoster}
         /\ \A t \in Syncer \ {s} : phase'[t] = phase[t]
<1>1. CASE UNCHANGED <<phase, sent>>
  BY <1>1 DEF SyncAgents, TypeOK
<1>2. CASE phase' = [phase EXCEPT ![s] = "posted"] /\ sent' = [sent EXCEPT ![s] = agents']
  BY <1>2 DEF SyncAgents, TypeOK
<1>. QED
  BY <1>1, <1>2 DEF SyncAgents

\* The end of the process leaves only what the world and the relay hold.
LEMMA DownType == ASSUME TypeOK, Down PROVE TypeOK'
<1>1. {} \subseteq Agent /\ 0 \in 0 .. Cardinality(Agent)
  BY RosterAssumption, FS_CardinalityType
<1>. QED
  BY <1>1 DEF Down, relayVars, TypeOK

\* The steps of a POST, of the daemon's life, of its loops and of the registry keep
\* the types.
LEMMA PostTypes ==
  ASSUME TypeOK, NEW s \in Syncer, Stores(s) \/ Answered(s) \/ PostFails(s) PROVE TypeOK'
<1>. USE DEF registryVars, daemonVars, relayVars, Finished
<1>1. CASE Stores(s)
  BY <1>1 DEF Stores, TypeOK
<1>2. CASE Answered(s)
  BY <1>2 DEF Answered, TypeOK
<1>3. CASE PostFails(s)
  <2>1. CASE Down
    BY <2>1, DownType
  <2>2. CASE ~Down
    BY <1>3, <2>2 DEF PostFails, TypeOK
  <2>. QED
    BY <2>1, <2>2
<1>. QED
  BY <1>1, <1>2, <1>3

LEMMA LifeTypes ==
  ASSUME TypeOK, Start \/ FirstDiscovered \/ Registered \/ Stop PROVE TypeOK'
<1>. USE RosterAssumption DEF registryVars, postVars, relayVars
<1>1. CASE Start
  BY <1>1 DEF Start, Discover, TypeOK
<1>2. CASE FirstDiscovered
  BY <1>2 DEF FirstDiscovered, Discovered, TypeOK
<1>3. CASE Registered
  <2>1. agents' \subseteq Agent /\ last \in (SUBSET Agent) \cup {NoRoster}
    BY <1>3 DEF Registered, TypeOK
  <2>. QED
    BY <1>3, <2>1, SyncType DEF Registered, Syncer, TypeOK
<1>4. CASE Stop
  BY <1>4, DownType DEF Stop
<1>. QED
  BY <1>1, <1>2, <1>3, <1>4

LEMMA LoopTypes ==
  ASSUME TypeOK, Connected \/ BeginResync \/ EndResync \/ BeginCheck \/ EndCheck PROVE TypeOK'
<1>. USE RosterAssumption DEF registryVars, daemonVars, postVars, relayVars
<1>0. NoRoster \in (SUBSET Agent) \cup {NoRoster} /\ last \in (SUBSET Agent) \cup {NoRoster}
      /\ IsFiniteSet(agents)
      /\ Cardinality(agents) \in Nat /\ Cardinality(agents) <= Cardinality(Agent)
      /\ Cardinality(Agent) \in Nat
  BY FS_Subset, FS_CardinalityType DEF TypeOK
<1>1. CASE Connected
  <2>1. agents' = agents
    BY <1>1 DEF Connected
  <2>. QED
    BY <1>0, <1>1, <2>1, SyncType DEF Connected, Syncer, TypeOK
<1>2. CASE BeginResync
  BY <1>2 DEF BeginResync, Discover, TypeOK
<1>3. CASE EndResync
  <2>1. agents' = agents
    BY <1>3 DEF EndResync, Discovered
  <2>. QED
    BY <1>0, <1>3, <2>1, SyncType DEF EndResync, Discovered, Syncer, TypeOK
<1>4. CASE BeginCheck
  BY <1>0, <1>4 DEF BeginCheck, CheckHealth, TypeOK
<1>5. CASE EndCheck
  <2>1. agents' = agents /\ count' = 0 /\ 0 \in 0 .. Cardinality(Agent)
    BY <1>0, <1>5 DEF EndCheck, Checked
  <2>2. /\ phase' \in [Syncer -> {"idle", "posted", "stored"}]
        /\ sent' \in [Syncer -> SUBSET Agent]
        /\ last' \in (SUBSET Agent) \cup {NoRoster}
    <3>1. CASE Cardinality(agents) < count
      BY <1>0, <1>5, <2>1, <3>1, SyncType DEF EndCheck, Syncer, TypeOK
    <3>2. CASE ~(Cardinality(agents) < count)
      BY <1>5, <3>2 DEF EndCheck, TypeOK
    <3>. QED
      BY <3>1, <3>2
  <2>. QED
    BY <1>5, <2>1, <2>2 DEF EndCheck, Checked, TypeOK
<1>. QED
  BY <1>1, <1>2, <1>3, <1>4, <1>5

LEMMA AgentTypes ==
  ASSUME TypeOK, NEW a \in Agent, RemoveAgent(a) \/ RegistryStep(a) \/ AgentChanges(a)
  PROVE  TypeOK'
<1>. USE RosterAssumption DEF daemonVars, postVars, relayVars
<1>1. CASE RemoveAgent(a)
  <2>1. agents' \subseteq Agent /\ doomed' \subseteq Agent
    BY <1>1 DEF RemoveAgent, Remove, TypeOK
  <2>2. /\ phase' \in [Syncer -> {"idle", "posted", "stored"}]
        /\ sent' \in [Syncer -> SUBSET Agent]
        /\ last' \in (SUBSET Agent) \cup {NoRoster}
    <3>1. CASE a \in agents
      BY <1>1, <2>1, <3>1, SyncType DEF RemoveAgent, Syncer, TypeOK
    <3>2. CASE a \notin agents
      BY <1>1, <3>2 DEF RemoveAgent, TypeOK
    <3>. QED
      BY <3>1, <3>2
  <2>. QED
    BY <1>1, <2>1, <2>2 DEF RemoveAgent, Remove, TypeOK
<1>2. CASE RegistryStep(a)
  BY <1>2 DEF RegistryStep, ProbeAgent, Prune, ConnectionError, TypeOK
<1>3. CASE AgentChanges(a)
  BY <1>3 DEF AgentChanges, AgentComesOrGoes, TypeOK
<1>. QED
  BY <1>1, <1>2, <1>3

LEMMA TypeStep == ASSUME TypeOK, [Next]_vars PROVE TypeOK'
<1>1. CASE RelayForgets
  BY <1>1, RosterAssumption DEF RelayForgets, registryVars, daemonVars, postVars, TypeOK
<1>2. CASE UNCHANGED vars
  BY <1>2 DEF vars, registryVars, daemonVars, postVars, relayVars, TypeOK
<1>. QED
  BY <1>1, <1>2, PostTypes, LifeTypes, LoopTypes, AgentTypes DEF Next

\* The type invariant; it says as well that a probe belongs to a discovery and that
\* an agent counted as steady answers.
THEOREM TypeCorrect == Spec => []TypeOK
<1>1. Init => TypeOK
  <2>1. 0 \in 0 .. Cardinality(Agent) /\ 0 \in 0 .. MaxSessions /\ 0 \in 0 .. MaxOutages
        /\ 0 \in 0 .. MaxChanges
    BY RosterAssumption, FS_CardinalityType
  <2>. QED
    BY <2>1 DEF Init, RegistryInit, TypeOK
<1>. QED
  BY <1>1, TypeStep, PTL DEF Spec

----------------------------------------------------------------------------
\* Why the startup misses no steady agent.

\* The first discovery has registered every steady agent it has probed, no dispatch is
\* about to remove one, and only the startup's own POST leads on to the event loop.
Found ==
  /\ stage = "down" => ~discovering /\ doomed = {}
  /\ doomed \cap steady = {}
  /\ stage = "discovering" => discovering /\ steady \ probing \subseteq agents
  /\ stage \in {"registering", "syncing", "listening"} => steady \subseteq agents
  /\ phase["start"] # "idle" => stage = "syncing"

\* Every step keeps that.
LEMMA FoundStep == ASSUME TypeOK, Found, [Next]_vars PROVE Found'
<1>. USE DEF registryVars, daemonVars, postVars, relayVars
<1>0. "start" \in Syncer
  BY DEF Syncer
<1>1. CASE Down
  BY <1>0, <1>1 DEF Down, Found
<1>2. ASSUME NEW s \in Syncer, Stores(s) \/ Answered(s) \/ PostFails(s), ~Down PROVE Found'
  BY <1>0, <1>2 DEF Stores, Answered, PostFails, Finished, Found, TypeOK
<1>3. CASE Start
  BY <1>0, <1>3 DEF Start, Discover, Found, TypeOK
<1>4. CASE FirstDiscovered
  BY <1>4 DEF FirstDiscovered, Discovered, Found, TypeOK
<1>5. CASE Registered
  BY <1>5 DEF Registered, Found, TypeOK
<1>6. ASSUME NEW s \in Syncer \ {"start"}, NEW force, NEW known, SyncAgents(s, force, known)
      PROVE  phase'["start"] = phase["start"]
  BY <1>0, <1>6 DEF SyncAgents, TypeOK
<1>7. CASE Connected \/ EndResync
  <2>1. phase'["start"] = phase["start"]
    BY <1>6, <1>7 DEF Connected, EndResync, Syncer
  <2>. QED
    BY <1>7, <2>1 DEF Connected, EndResync, Discovered, Found
<1>8. CASE BeginResync \/ BeginCheck
  BY <1>8 DEF BeginResync, Discover, BeginCheck, CheckHealth, Found
<1>9. CASE EndCheck
  <2>1. phase'["start"] = phase["start"]
    BY <1>6, <1>9 DEF EndCheck, Syncer
  <2>. QED
    BY <1>9, <2>1 DEF EndCheck, Checked, Found
<1>10. ASSUME NEW a \in Agent, RemoveAgent(a) PROVE Found'
  <2>1. phase'["start"] = phase["start"]
    BY <1>6, <1>10 DEF RemoveAgent, Syncer
  <2>2. a \notin steady
    BY <1>10 DEF RemoveAgent, Remove, Found
  <2>. QED
    BY <1>10, <2>1, <2>2 DEF RemoveAgent, Remove, Found
<1>11. ASSUME NEW a \in Agent, RegistryStep(a) PROVE Found'
  <2>1. CASE ProbeAgent(a)
    BY <1>11, <2>1 DEF RegistryStep, ProbeAgent, Found, TypeOK
  <2>2. CASE Prune(a)
    BY <1>11, <2>2 DEF RegistryStep, Prune, Found, TypeOK
  <2>3. CASE stage = "listening" /\ ConnectionError(a)
    BY <1>11, <2>3 DEF RegistryStep, ConnectionError, Found, TypeOK
  <2>. QED
    BY <1>11, <2>1, <2>2, <2>3 DEF RegistryStep
<1>12. ASSUME NEW a \in Agent, AgentChanges(a) PROVE Found'
  BY <1>12 DEF AgentChanges, AgentComesOrGoes, Found
<1>13. CASE RelayForgets \/ UNCHANGED vars
  BY <1>13 DEF RelayForgets, vars, Found
<1>. QED
  BY <1>1, <1>2, <1>3, <1>4, <1>5, <1>7, <1>8, <1>9, <1>10, <1>11, <1>12, <1>13
     DEF Next, Stop

\* A daemon that reads relay events has in its registry every agent that has answered
\* since the startup began: the first roster it sends withdraws none of them.
THEOREM SteadyAgentsFound == Spec => []SteadyAgentsAreFound
<1>1. Init => Found
  BY DEF Init, RegistryInit, Found, Syncer
<1>2. TypeOK /\ Found /\ [Next]_vars => Found'
  BY FoundStep
<1>3. Found => SteadyAgentsAreFound
  BY DEF Found, SteadyAgentsAreFound
<1>. QED
  BY <1>1, <1>2, <1>3, TypeCorrect, PTL DEF Spec
----------------------------------------------------------------------------
\* What is under way to the relay.

\* Each payload that is under way has every steady agent; only a daemon that reads
\* relay events has loops and dispatches with something to send; and before its first
\* POST a daemon remembers no payload.
Posted ==
  /\ \A s \in Syncer : phase[s] # "idle" => steady \subseteq sent[s]
  /\ stage # "listening" =>
       ~checking /\ doomed = {} /\ \A s \in Syncer \ {"start"} : phase[s] = "idle"
  /\ stage \in {"down", "discovering", "registering"} => last = NoRoster

\* A sync either posts the roster of the moment, with every steady agent of it, or is
\* left out because the daemon remembers that very roster.
LEMMA SyncPosts ==
  ASSUME TypeOK, NEW s \in Syncer, NEW force, NEW known, SyncAgents(s, force, known)
  PROVE  /\ ~(~force /\ agents' = known) => phase'[s] = "posted" /\ sent'[s] = agents'
         /\ \A t \in Syncer \ {s} : phase'[t] = phase[t] /\ sent'[t] = sent[t]
         /\ \/ phase'[s] = "posted" /\ sent'[s] = agents'
            \/ phase'[s] = phase[s] /\ sent'[s] = sent[s]
BY DEF SyncAgents, TypeOK

\* Every step keeps that.
LEMMA PostedStep == ASSUME TypeOK, Found, Posted, [Next]_vars PROVE Posted'
<1>. USE DEF registryVars, daemonVars, postVars, relayVars
<1>0. "start" \in Syncer
  BY DEF Syncer
<1>1. CASE Down
  BY <1>0, <1>1 DEF Down, Posted
<1>2. ASSUME NEW s \in Syncer, Stores(s) \/ Answered(s) \/ PostFails(s), ~Down PROVE Posted'
  <2>1. CASE Stores(s)
    BY <2>1 DEF Stores, Posted, TypeOK
  <2>2. CASE Answered(s)
    BY <1>0, <2>2 DEF Answered, Finished, Found, Posted, TypeOK
  <2>3. CASE PostFails(s)
    BY <1>2, <2>3 DEF PostFails, Finished, Posted, TypeOK
  <2>. QED
    BY <1>2, <2>1, <2>2, <2>3
<1>3. CASE Start
  <2>1. \A s \in Syncer : phase[s] = "idle"
    BY <1>0, <1>3 DEF Start, Found, Posted
  <2>. QED
    BY <1>3, <2>1 DEF Start, Discover, Posted
<1>4. CASE FirstDiscovered
  BY <1>4 DEF FirstDiscovered, Discovered, Posted
\* A sync of roster `agents` by a task that may send, everything else as it was.
<1>5. ASSUME NEW s \in Syncer, NEW force, NEW known, SyncAgents(s, force, known),
             s = "start" \/ stage = "listening", stage' \in {"syncing", "listening"},
             stage' # "listening" => ~checking /\ doomed = {} /\ stage = "registering",
             stage = "listening" => stage' = "listening",
             checking' \in {checking, FALSE}, doomed' \subseteq doomed,
             steady' = steady, steady \subseteq agents'
      PROVE  Posted'
  <2>1. \A t \in Syncer : phase'[t] # "idle" => steady' \subseteq sent'[t]
    BY <1>5, SyncPosts DEF Posted
  <2>2. stage' # "listening" =>
          ~checking' /\ doomed' = {} /\ \A t \in Syncer \ {"start"} : phase'[t] = "idle"
    BY <1>5, SyncPosts DEF Posted
  <2>. QED
    BY <1>5, <2>1, <2>2 DEF Posted
<1>6. CASE Registered
  BY <1>0, <1>5, <1>6 DEF Registered, Found, Posted
<1>7. CASE Connected \/ EndResync
  <2>1. stage = "listening" /\ UNCHANGED <<stage, agents, checking, doomed, steady>>
    BY <1>7 DEF Connected, EndResync, Discovered
  <2>2. \E s \in Syncer, force \in BOOLEAN, known \in {last, NoRoster} :
          SyncAgents(s, force, known)
    BY <1>7 DEF Connected, EndResync, Syncer
  <2>. QED
    BY <1>5, <2>1, <2>2 DEF Found
<1>8. CASE BeginResync
  BY <1>8 DEF BeginResync, Discover, Posted
<1>9. CASE BeginCheck
  BY <1>9 DEF BeginCheck, CheckHealth, Posted
<1>10. CASE EndCheck
  <2>1. stage = "listening" /\ checking' = FALSE /\ UNCHANGED <<stage, agents, doomed, steady>>
    BY <1>10 DEF EndCheck, Checked, Posted
  <2>2. CASE UNCHANGED postVars
    BY <2>1, <2>2 DEF Posted
  <2>3. CASE SyncAgents("health", FALSE, NoRoster)
    BY <1>5, <2>1, <2>3 DEF Found, Syncer
  <2>. QED
    BY <1>10, <2>2, <2>3 DEF EndCheck
<1>11. ASSUME NEW a \in Agent, RemoveAgent(a) PROVE Posted'
  <2>1. /\ stage = "listening" /\ a \notin steady
        /\ doomed' \subseteq doomed /\ agents' = agents \ {a}
        /\ UNCHANGED <<stage, checking, steady>>
    BY <1>11 DEF RemoveAgent, Remove, Found, Posted
  <2>2. CASE UNCHANGED postVars
    BY <2>1, <2>2 DEF Posted
  <2>3. CASE SyncAgents("dispatch", FALSE, NoRoster)
    BY <1>5, <2>1, <2>3 DEF Found, Syncer
  <2>. QED
    BY <1>11, <2>2, <2>3 DEF RemoveAgent
<1>12. ASSUME NEW a \in Agent, RegistryStep(a) PROVE Posted'
  <2>1. /\ UNCHANGED <<stage, phase, sent, last, steady, checking>>
        /\ doomed' = doomed \/ stage = "listening"
    BY <1>12 DEF RegistryStep, ProbeAgent, Prune, ConnectionError
  <2>. QED
    BY <2>1 DEF Posted
<1>13. ASSUME NEW a \in Agent, AgentChanges(a) PROVE Posted'
  BY <1>13 DEF AgentChanges, AgentComesOrGoes, Posted
<1>14. CASE RelayForgets \/ UNCHANGED vars
  BY <1>14 DEF RelayForgets, vars, Posted
<1>. QED
  BY <1>1, <1>2, <1>3, <1>4, <1>6, <1>7, <1>8, <1>9, <1>10, <1>11, <1>12, <1>13, <1>14
     DEF Next, Stop

\* Found and Posted together are inductive.
THEOREM RosterInvariant == Spec => [](TypeOK /\ Found /\ Posted)
<1>1. Init => Found /\ Posted
  BY DEF Init, RegistryInit, Found, Posted, Syncer
<1>2. TypeOK /\ Found /\ Posted /\ [Next]_vars => Found' /\ Posted'
  BY FoundStep, PostedStep
<1>. QED
  BY <1>1, <1>2, TypeCorrect, PTL DEF Spec

\* An agent that has answered since the startup began never leaves the relay's roster,
\* however the POSTs of the five tasks overlap, fail and are stored; only the relay
\* itself can forget it (_sync_agents).
THEOREM SteadyAgentsStay ==
  Spec => [][(steady \cap steady' \cap relay) \subseteq relay' \/ RelayForgets]_vars
<1>1. ASSUME TypeOK, Posted, Next, ~RelayForgets
      PROVE  (steady \cap steady' \cap relay) \subseteq relay'
  <2>1. ASSUME NEW s \in Syncer, Stores(s) PROVE steady \subseteq relay'
    BY <1>1, <2>1 DEF Stores, Posted
  <2>2. relay' = relay \/ \E s \in Syncer : Stores(s)
    BY <1>1 DEF Next, Answered, PostFails, Down, Start, FirstDiscovered, Registered, Stop,
       Connected, BeginResync, EndResync, BeginCheck, EndCheck, RemoveAgent, RegistryStep,
       AgentChanges, relayVars
  <2>. QED
    BY <2>1, <2>2
<1>. QED
  BY <1>1, RosterInvariant, PTL DEF Spec

\* A step leaves the POST of task s on its way, with this roster.
Sends(s, roster) == phase'[s] = "posted" /\ sent'[s] = roster

\* The early return of _sync_agents is never taken: each caller forces the sync or is
\* the first, or has dropped what was remembered, so that each sends the roster of the
\* moment.
NoSyncIsSkipped ==
  [][/\ Registered => Sends("start", agents)
     /\ Connected => Sends("events", agents)
     /\ EndResync => Sends("resync", agents)
     /\ EndCheck /\ Cardinality(agents) < count => Sends("health", agents)
     /\ \A a \in agents : RemoveAgent(a) => Sends("dispatch", agents \ {a})]_vars

\* Whatever is remembered of earlier POSTs and whichever of them are under way or
\* failed, no sync is taken for unnecessary.
THEOREM EachSyncIsSent == Spec => NoSyncIsSkipped
<1>1. ASSUME TypeOK, TypeOK', Posted
      PROVE  /\ Registered => Sends("start", agents)
             /\ Connected => Sends("events", agents)
             /\ EndResync => Sends("resync", agents)
             /\ EndCheck /\ Cardinality(agents) < count => Sends("health", agents)
             /\ \A a \in agents : RemoveAgent(a) => Sends("dispatch", agents \ {a})
  <2>1. agents' # NoRoster
    BY <1>1, RosterAssumption DEF TypeOK, NoRoster
  <2>2. ASSUME NEW s \in Syncer, SyncAgents(s, FALSE, NoRoster) PROVE Sends(s, agents')
    BY <1>1, <2>1, <2>2 DEF SyncAgents, Sends, TypeOK
  <2>3. Registered => Sends("start", agents)
    BY <1>1, <2>2 DEF Registered, Posted, registryVars, Syncer
  <2>4. Connected => Sends("events", agents)
    BY <2>2 DEF Connected, registryVars, Syncer
  <2>5. EndResync => Sends("resync", agents)
    BY <1>1, SyncPosts DEF EndResync, Discovered, Sends, Syncer
  <2>6. EndCheck /\ Cardinality(agents) < count => Sends("health", agents)
    BY <2>2 DEF EndCheck, Checked, Syncer
  <2>7. ASSUME NEW a \in agents, RemoveAgent(a) PROVE Sends("dispatch", agents \ {a})
    BY <2>2, <2>7 DEF RemoveAgent, Remove, Syncer
  <2>. QED
    BY <2>3, <2>4, <2>5, <2>6, <2>7
<1>. QED
  BY <1>1, RosterInvariant, PTL DEF NoSyncIsSkipped
====
