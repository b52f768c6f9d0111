---- MODULE AgentRegistry_proofs ----
(***************************************************************************)
(* Proofs about AgentRegistry for any set of agents and any threshold of   *)
(* at least 2: type correctness, that the health check never deletes an    *)
(* entry that is not there, and that a prune is earned.                    *)
(***************************************************************************)
EXTENDS AgentRegistry, TLAPS

\* Outside a health check nothing is pending, and a pending agent whose object has
\* not left the registry is in it.
PendingInv == (~checking => pending = {}) /\ pending \ stale \subseteq agents

\* The failure count of an id without an entry: 0 while a check of it is still to
\* come, and at most the 1 which that check leaves behind.
OrphanCounts ==
  \A a \in Agent \ agents : failures[a] <= 1 /\ (a \in pending => failures[a] = 0)

\* The count runs at most one ahead of the checks that failed in a row.
CountsAreEarned == \A a \in Agent : failures[a] <= failed[a] + 1

\* An entry that replaced a removed object was never checked, so it is healthy.
ReplacedAreHealthy == stale \cap agents \subseteq healthy

\* An object marked unhealthy has failed a check that still counts, so that it is
\* on its way either to a removal or to being marked healthy.
UnhealthyIsCounted == \A a \in agents \ healthy : failures[a] >= 1

Inv ==
  /\ TypeOK /\ PendingInv /\ OrphanCounts /\ CountsAreEarned
  /\ ReplacedAreHealthy /\ UnhealthyIsCounted /\ DeleteFindsEntry

USE DEF checkVars, discoverVars

\* The registry starts empty, nothing under way.
LEMMA InitInv == Init => Inv
<1>. SUFFICES ASSUME Init PROVE Inv
  OBVIOUS
<1>1. TypeOK
  BY DEF Init, TypeOK
<1>2. PendingInv /\ ReplacedAreHealthy /\ UnhealthyIsCounted /\ DeleteFindsEntry
  BY DEF Init, PendingInv, ReplacedAreHealthy, UnhealthyIsCounted, DeleteFindsEntry
<1>3. OrphanCounts /\ CountsAreEarned
  BY DEF Init, OrphanCounts, CountsAreEarned
<1>. QED
  BY <1>1, <1>2, <1>3 DEF Inv

\* A check that fails, the step at which a KeyError could occur and a prune occurs.
LEMMA CheckFailsInv ==
  ASSUME Inv, NEW a \in Agent, CheckFails(a)
  PROVE  Inv' /\ (Pruned(a) => failed'[a] + 1 >= Threshold)
<1>. USE ThresholdAssumption DEF Inv
<1>0. /\ a \in pending /\ a \notin alive
      /\ failed' = [failed EXCEPT ![a] = failed[a] + 1]
      /\ failures[a] \in Nat /\ failed[a] \in Nat /\ failures[a] <= failed[a] + 1
      /\ failed'[a] = failed[a] + 1
      /\ failed' \in [Agent -> Nat]
  BY DEF CheckFails, TypeOK, CountsAreEarned
<1>1. CASE failures[a] + 1 >= Threshold
  <2>1. a \in agents
    BY <1>0, <1>1 DEF OrphanCounts
  <2>2. /\ agents' = agents \ {a} /\ healthy' = healthy \ {a}
        /\ keyError' = FALSE
        /\ failures' = [failures EXCEPT ![a] = 0]
        /\ pending' = pending \ {a} /\ stale' = stale \cap pending'
    BY <1>1, <2>1 DEF CheckFails, DeleteFindsEntry, TypeOK
  <2>3. TypeOK'
    BY <1>0, <2>2 DEF CheckFails, TypeOK
  <2>4. PendingInv' /\ ReplacedAreHealthy' /\ UnhealthyIsCounted' /\ DeleteFindsEntry'
    BY <2>2 DEF CheckFails, PendingInv, ReplacedAreHealthy, UnhealthyIsCounted,
       DeleteFindsEntry, TypeOK
  <2>5. OrphanCounts' /\ CountsAreEarned'
    BY <1>0, <2>2 DEF OrphanCounts, CountsAreEarned, TypeOK
  <2>. QED
    BY <1>0, <1>1, <2>3, <2>4, <2>5
<1>2. CASE failures[a] + 1 < Threshold
  <2>1. /\ agents' = agents
        /\ healthy' = IF a \in stale THEN healthy ELSE healthy \ {a}
        /\ keyError' = FALSE
        /\ failures' = [failures EXCEPT ![a] = failures[a] + 1]
        /\ pending' = pending \ {a} /\ stale' = stale \cap pending'
    BY <1>0, <1>2 DEF CheckFails, DeleteFindsEntry, TypeOK
  <2>2. failures' \in [Agent -> Nat] /\ failures'[a] = failures[a] + 1
    BY <1>0, <2>1 DEF TypeOK
  <2>3. TypeOK'
    BY <1>0, <2>1, <2>2 DEF CheckFails, TypeOK
  <2>4. PendingInv' /\ ReplacedAreHealthy' /\ DeleteFindsEntry'
    BY <2>1 DEF CheckFails, PendingInv, ReplacedAreHealthy, DeleteFindsEntry, TypeOK
  <2>5. OrphanCounts' /\ CountsAreEarned' /\ UnhealthyIsCounted'
    BY <1>0, <2>1, <2>2 DEF OrphanCounts, CountsAreEarned, UnhealthyIsCounted, TypeOK
  <2>. QED
    BY <2>1, <2>3, <2>4, <2>5 DEF Pruned
<1>. QED
  BY <1>0, <1>1, <1>2

\* Every step keeps the invariant, and only a failed check prunes an agent.
LEMMA StepInv ==
  ASSUME Inv, [Next]_vars
  PROVE  Inv' /\ \A a \in Agent : Pruned(a) => failed'[a] + 1 >= Threshold
<1>. USE ThresholdAssumption, AgentAssumption
         DEF Inv, TypeOK, PendingInv, OrphanCounts, CountsAreEarned, ReplacedAreHealthy,
             UnhealthyIsCounted, DeleteFindsEntry, Pruned
<1>1. CASE BeginDiscovery
  BY <1>1 DEF BeginDiscovery
<1>2. CASE EndDiscovery
  BY <1>2 DEF EndDiscovery
<1>3. CASE BeginCheck
  BY <1>3 DEF BeginCheck
<1>4. CASE EndCheck
  BY <1>4 DEF EndCheck
<1>5. ASSUME NEW a \in Agent, AgentChanges(a)
      PROVE  Inv' /\ \A b \in Agent : ~Pruned(b)
  BY <1>5 DEF AgentChanges
<1>6. ASSUME NEW a \in Agent, Probe(a)
      PROVE  Inv' /\ \A b \in Agent : ~Pruned(b)
  BY <1>6 DEF Probe
<1>7. ASSUME NEW a \in Agent, CheckSucceeds(a)
      PROVE  Inv' /\ \A b \in Agent : ~Pruned(b)
  BY <1>7 DEF CheckSucceeds
<1>8. ASSUME NEW a \in Agent, CheckFails(a)
      PROVE  Inv' /\ \A b \in Agent : Pruned(b) => failed'[b] + 1 >= Threshold
  <2>1. \A b \in Agent : b # a => ~Pruned(b)
    BY <1>8 DEF CheckFails
  <2>. QED
    BY <1>8, <2>1, CheckFailsInv
<1>9. ASSUME NEW a \in Agent, DispatchFails(a)
      PROVE  Inv' /\ \A b \in Agent : ~Pruned(b)
  BY <1>9 DEF DispatchFails
<1>10. ASSUME NEW a \in Agent, RemoveAgent(a)
       PROVE  Inv' /\ \A b \in Agent : ~Pruned(b)
  BY <1>10 DEF RemoveAgent
<1>11. CASE UNCHANGED vars
  BY <1>11 DEF vars
<1>. QED
  BY <1>1, <1>2, <1>3, <1>4, <1>5, <1>6, <1>7, <1>8, <1>9, <1>10, <1>11 DEF Next, Check

\* Inv is inductive.
THEOREM Invariance == Spec => []Inv
<1>1. Inv /\ [Next]_vars => Inv'
  BY StepInv
<1>. QED
  BY InitInv, <1>1, PTL DEF Spec

\* The registry's state keeps its types under any interleaving of its users.
THEOREM TypeCorrect == Spec => []TypeOK
BY Invariance, PTL DEF Inv

\* The health check's `del` always finds its entry, for any threshold of at least
\* 2: an id that lost its entry while its check was pending has a count of 0.
THEOREM NoKeyError == Spec => []DeleteFindsEntry
BY Invariance, PTL DEF Inv

\* Every registered agent marked unhealthy has a failure on its count.
THEOREM UnhealthyHasFailures == Spec => []UnhealthyIsCounted
BY Invariance, PTL DEF Inv

\* The health check prunes an agent only after Threshold - 1 failures in a row.
THEOREM PrunesAreEarned == Spec => PruneIsEarned
<1>1. Inv /\ [Next]_vars => [\A a \in Agent : Pruned(a) => failed'[a] + 1 >= Threshold]_vars
  BY StepInv
<1>. QED
  BY <1>1, Invariance, PTL DEF Spec, PruneIsEarned

\* Every step changes the set of agents as RegistryContract allows, or not at all.
LEMMA StepImplements ==
  ASSUME Inv, [Next]_vars
  PROVE  [Contract!RegistryNext]_(Contract!registryVars)
<1>. USE DEF Contract!RegistryNext, Contract!registryVars
<1>1. CASE BeginDiscovery
  BY <1>1 DEF BeginDiscovery, Contract!Discover
<1>2. CASE EndDiscovery
  BY <1>2 DEF EndDiscovery, Contract!Discovered
<1>3. CASE BeginCheck
  BY <1>3 DEF BeginCheck, Contract!CheckHealth
<1>4. CASE EndCheck
  BY <1>4 DEF EndCheck, Contract!Checked
<1>5. ASSUME NEW a \in Agent, AgentChanges(a) PROVE Contract!AgentComesOrGoes(a)
  BY <1>5 DEF AgentChanges, Contract!AgentComesOrGoes
<1>6. ASSUME NEW a \in Agent, Probe(a) PROVE Contract!ProbeAgent(a)
  BY <1>6 DEF Probe, Contract!ProbeAgent
<1>7. ASSUME NEW a \in Agent, CheckSucceeds(a) PROVE UNCHANGED Contract!registryVars
  BY <1>7 DEF CheckSucceeds
<1>8. ASSUME NEW a \in Agent, CheckFails(a)
      PROVE  Contract!Prune(a) \/ UNCHANGED Contract!registryVars
  <2>1. a \in pending /\ a \notin alive /\ checking
    BY <1>8 DEF CheckFails, Inv, PendingInv
  <2>2. UNCHANGED <<alive, discovering, probing, checking, doomed>>
    BY <1>8 DEF CheckFails
  <2>3. CASE failures[a] + 1 >= Threshold
    <3>1. agents' = agents \ {a}
      BY <1>8, <2>3 DEF CheckFails
    <3>2. a \in agents
      BY <2>1, <2>3, ThresholdAssumption DEF Inv, TypeOK, OrphanCounts
    <3>. QED
      BY <2>1, <2>2, <3>1, <3>2 DEF Contract!Prune
  <2>4. CASE ~(failures[a] + 1 >= Threshold)
    BY <1>8, <2>2, <2>4 DEF CheckFails
  <2>. QED
    BY <2>3, <2>4
<1>9. ASSUME NEW a \in Agent, DispatchFails(a) PROVE Contract!ConnectionError(a)
  BY <1>9 DEF DispatchFails, Contract!ConnectionError
<1>10. ASSUME NEW a \in Agent, RemoveAgent(a) PROVE Contract!Remove(a)
  BY <1>10 DEF RemoveAgent, Contract!Remove
<1>11. CASE UNCHANGED vars
  BY <1>11 DEF vars
<1>. QED
  BY <1>1, <1>2, <1>3, <1>4, <1>5, <1>6, <1>7, <1>8, <1>9, <1>10, <1>11 DEF Next, Check

\* The registry is the one the roster synchronisation relies on: stale objects and
\* leftover counts never take an agent away that is not there or that answers.
THEOREM RegistryImplementsContract == Spec => ImplementsContract
<1>1. Init => Contract!RegistryInit
  BY DEF Init, Contract!RegistryInit
<1>2. Inv /\ [Next]_vars => [Contract!RegistryNext]_(Contract!registryVars)
  BY StepImplements
<1>. QED
  BY Invariance, <1>1, <1>2, PTL DEF Spec, ImplementsContract, Contract!RegistrySpec
====
