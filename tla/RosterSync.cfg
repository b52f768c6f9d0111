SPECIFICATION FairSpec
CONSTANTS
  a1 = a1
  a2 = a2
  Agent = {a1, a2}
  Configured = {a1}
  MaxSessions = 1
  MaxChanges = 2
  MaxPosts = 2
  MaxOutages = 1
  NoAgent = NoAgent
INVARIANTS TypeOK SteadyAgentsAreFound
PROPERTIES LiveAgentsReachRelay DeadAgentsLeaveRelay
CHECK_DEADLOCK FALSE
