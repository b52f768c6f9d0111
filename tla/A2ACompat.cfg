SPECIFICATION Spec
CONSTANTS
  u1 = u1
  u2 = u2
  NoUrl = NoUrl
  Url <- MCUrl
  Card <- MCCard
  Part <- MCPart
  Style = {"0.3", "1.0", "mime", "stale"}
INVARIANTS TypeOK SpeakersAreReached ContentArrives ReplyIsUnderstood
CHECK_DEADLOCK FALSE
