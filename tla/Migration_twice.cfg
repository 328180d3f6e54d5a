\* Two clients move the same rule; nothing fails and no answer changes.
SPECIFICATION MSpec
CONSTANTS
  Calls = {c1, c2}
  Keys = {k1}
  Overlap = {}
  Hosts = {h1}
  Ips = {ip1}
  Forbidden = {}
  NoIp = NoIp
  DnatRules <- OneRule
  MaxEdits = 2
  MaxShifts = 0
  MaxFaults = 0
INVARIANT UndoneKept
CHECK_DEADLOCK FALSE
