SPECIFICATION FairSpec
CONSTANTS
  MaxFaults = 3
INVARIANT TypeOK
PROPERTY MessageIsAnswered
CHECK_DEADLOCK FALSE
