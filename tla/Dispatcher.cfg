SPECIFICATION FairSpec
CONSTANTS
  MaxPolls = 3
  MaxEvents = 3
INVARIANTS TypeOK FailuresAreTold
PROPERTIES ImplementsContract ResendsBeforeOutput SyncDispatchEnds
CHECK_DEADLOCK FALSE
