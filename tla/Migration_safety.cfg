\* Two keys that catch the same packets, with and without a rule in dnat, one
\* client call beside the resolve thread, a host whose answer changes once, also to
\* a forbidden address or to none, one fault.
SPECIFICATION MFairSpec
CONSTANTS
  Calls = {c1}
  Keys = {k1, k2}
  Overlap <- AutoAndDefault
  Hosts = {h1}
  Ips = {ip1, bad}
  Forbidden = {bad}
  NoIp = NoIp
  DnatRules <- OneRule
  MaxEdits = 2
  MaxShifts = 1
  MaxFaults = 1
INVARIANTS MTypeOK NeverLost NoForbiddenTarget
PROPERTIES EndsServed
\* With every edit made and the service stopped nothing moves.
CHECK_DEADLOCK FALSE
