SPECIFICATION FairSpec
CONSTANTS
  n1 = n1
  r1 = r1
  p = p
  NoEvent = NoEvent
  Event = {n1, r1}
  Critical = {r1}
  Call = {p}
  EventsOf <- MCEventsOf
  MaxRetriesCritical = 2
  MaxRetriesNormal = 1
  MaxDelay = 1
  TTL = 1
  BatchSize = 2
  MaxPages = 1
  TrimDivisor = 10
  VacuumDivisor = 2
  MaxAttempts = 2
  Damageable = {n1}
  MaxDowns = 1
INVARIANTS TypeOK OvertakesOnlyQueued
PROPERTIES ImplementsOutbox NoRowLost QueueDrains
CHECK_DEADLOCK FALSE
