SPECIFICATION AllSpec
CONSTANTS
  \* Two requests that may overlap, a third after them; a host with and without
  \* the drop-in, sshd sound and broken; two steps fail.
  Calls = {c1, c2}
  Owners = {"yes", "no", "broken"}
  Dropins = {"none", "yes", "no"}
  MaxCalls = 3
  MaxFaults = 2
  \* The service and two commands, a reset, a process that dies.
  Service = Service
  Commands = {p1, p2}
  MaxSecrets = 4
  MaxResets = 1
  MaxDeaths = 1
  MaxRuns = 4
  \* Two removers beside the tool; lines with one key twice, a key that begins
  \* like another, a line that does not parse; a failing step or a death.
  Eth0 = Eth0
  Removers = {r1, r2}
  ConfLines <- MCLines
  FirstConfs <- MCFirst
  AskedKeys <- MCKeys
  NoOne = NoOne
  DnatTool = DnatTool
  MaxConfLines = 4
  MaxConfSteps = 3
  MaxConfFaults = 1
  \* Addresses of two bits: a prefix with host bits, a range that is no prefix.
  Bits = 2
  Families = {"allow4", "allow6"}
  MaxTouches = 3
INVARIANTS AllTypeOK SshdInForce SecretsAgree RemovedLeavesTable
PROPERTIES RollbackRestores EditsAreAtomic PassSound
SYMMETRY Symmetry
\* With every request and removal made and every start spent, nothing runs.
CHECK_DEADLOCK FALSE
