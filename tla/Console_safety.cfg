SPECIFICATION AllSpec
CONSTANTS
  \* Two commands on switches, or one and its undoing, with one call failing.
  Ports = {"ssh"}
  SshPorts = {"ssh"}
  ConfigPorts = {}
  Lists = {"empty", "usable"}
  Supported = {"knock", "gate"}
  NoTable = NoTable
  MaxFaults = 1
  MaxRuns = 2
  \* Two commands on forwards at once beside the service and dnat's user, three
  \* acts between them, one slip.
  Consoles = {x1, x2}
  ForwardRequests <- MCRequests
  ToolLines <- MCTool
  Default = "eth0"
  NoIface = "auto"
  MaxIds = 2
  MaxActs = 3
  MaxSlips = 1
INVARIANTS AllTypeOK NoMixedSettings RescueHolds ForwardsKept OneAuthority
SYMMETRY Symmetry
\* With every command and start spent, nothing runs.
CHECK_DEADLOCK FALSE
