SPECIFICATION FairSpec
CONSTANTS
  a1 = a1
  a2 = a2
  Agent = {a1, a2}
  Configured = {a1}
  Threshold = 3
INVARIANTS TypeOK DeleteFindsEntry
PROPERTIES ImplementsContract PruneIsEarned DeadAgentsLeave LiveAgentsStay
