\* The answer of the host changes and changes back.
SPECIFICATION FairSpec
CONSTANTS
  Calls = {c1}
  Keys = {k1}
  Overlap = {}
  Hosts = {h1}
  Ips = {ip1, ip2}
  Forbidden = {}
  NoIp = NoIp
  MaxEdits = 1
  MaxShifts = 2
  MaxFaults = 0
PROPERTY ForwardsHeal
CHECK_DEADLOCK FALSE
