SPECIFICATION ConfigSpec
CONSTANTS
  c1 = c1
  c2 = c2
  c3 = c3
  k1 = k1
  k2 = k2
  Command = {c1, c2, c3}
  Key = {k1, k2}
  NoKey = NoKey
  NoId = NoId
  Reference = Reference
SYMMETRY Symmetry
INVARIANTS ConfigTypeOK UserTextStays IdsAgree
CHECK_DEADLOCK FALSE
