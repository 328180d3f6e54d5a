\* No faults: two connections alone bring it about.
SPECIFICATION Spec
CONSTANTS
  Conns = {c1, c2}
  Console = console
  Keys = {k1, k2}
  NoKey = NoKey
  Codes = {p1}
  NoCode = NoCode
  Share = 1
  MaxAccepts = 2
  MaxRequests = 0
  MaxFaults = 0
INVARIANT SingleUse
CHECK_DEADLOCK FALSE
