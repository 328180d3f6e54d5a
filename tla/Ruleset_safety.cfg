SPECIFICATION AllSpec
CONSTANTS
  \* A port range that covers sshd, one that does not, one that config.json keeps
  \* public; three faults: a transaction, the restore after it, a save or a crash.
  Ports = {"ssh", "web", "mail"}
  SshPorts = {"ssh"}
  ConfigPorts = {"mail"}
  Lists = {"empty", "usable", "clash"}
  Supported = {"knock", "gate"}
  NoTable = NoTable
  MaxFaults = 3
  \* Ports of two bits, so that ranges touch, overlap and end at the last port.
  Sources = {a, b}
  Local = Local
  MaxPort = 3
  SshPort = 1
  KnockPort = 2
  KnockTtl = 2
  ConfigPublic <- InConfig
  Requests <- Asks
  Dnats <- Forwards
  MaxPublic = 2
  MaxFlows = 1
INVARIANTS AllTypeOK NoMootAllowlist KernelTruthful AckedSettingsLast RenderedExact NobodyShutOut
PROPERTIES NobodyElseEnters
SYMMETRY Symmetry
CHECK_DEADLOCK FALSE
