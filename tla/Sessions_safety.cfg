\* Two connections, two clients, one device connection each, two codes.
SPECIFICATION Spec
CONSTANTS
  Conns = {c1, c2}
  Console = console
  Keys = {k1, k2}
  Codes = {p1, p2}
  NoKey = NoKey
  NoCode = NoCode
  Share = 1
  MaxAccepts = 3
  MaxRequests = 2
  MaxFaults = 1
INVARIANTS TypeOK PairingHolds RevocationHolds CountsExact
SYMMETRY Symmetry
\* With every accept, code and fault spent, the agent waits for ever.
CHECK_DEADLOCK FALSE
