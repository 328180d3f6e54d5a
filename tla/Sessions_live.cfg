\* No symmetry: two of the properties are temporal.
SPECIFICATION AllSpec
CONSTANTS
  Conns = {c1, c2}
  Console = console
  Keys = {k1, k2}
  NoKey = NoKey
  Codes = {p1}
  NoCode = NoCode
  Share = 1
  MaxAccepts = 3
  MaxRequests = 1
  MaxFaults = 1
  \* a request in two frames, replies that fill the sockets
  Header = 2
  MaxFrame = 3
  MaxMsg = 3
  Lengths = {0, 3}
  Says = {0, 1, 3, 5}
  Pipe = 2
  MaxAsked = 2
  MaxOdd = 3
  \* two windows and a half, a table that is swept
  Sources = {s1, s2}
  Limits = {0, 2}
  Window = 2
  SweepOver = 1
  MaxClock = 4
  Remotes = {r1, r2}
  Home = Home
  MaxSockets = 1
  Services = {e1, e2}
  Addresses = {a1}
  Nothing = Nothing
  Timeout = 4
  Grace = 2
INVARIANTS MessagesWhole BufferBounded OwnAddress LookupSound
PROPERTIES LimitKept PermitsComeBack QuietConnectionsEnd
\* With every accept, code and fault spent, the agent waits for ever.
CHECK_DEADLOCK FALSE
