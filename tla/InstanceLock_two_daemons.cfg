SPECIFICATION FairSpec
CONSTANTS
  p1 = p1
  p2 = p2
  p3 = p3
  s1 = s1
  s2 = s2
  Proc = {p1, p2, p3}
  Stopper = {s1, s2}
  NoFile = NoFile
  NoPid = NoPid
  Nobody = Nobody
INVARIANTS OneDaemon
CHECK_DEADLOCK FALSE
