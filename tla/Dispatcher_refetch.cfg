SPECIFICATION FairSpec
CONSTANTS
  MaxPolls = 3
  MaxEvents = 3
INVARIANTS TextIsRendered
CHECK_DEADLOCK FALSE
