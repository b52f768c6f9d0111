SPECIFICATION FairSpec
CONSTANTS
  m1 = m1
  m2 = m2
  Msg = {m1, m2}
  MaxTasks = 3
  MaxSignals = 2
  NoTask = NoTask
  NoMsg = NoMsg
INVARIANTS RepliesAreDispatched
CHECK_DEADLOCK FALSE
