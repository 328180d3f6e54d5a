\* Two targets that share an address, such as a prefix and an address in it.
SPECIFICATION FairSpec
CONSTANTS
  Targets = {t1, t2}
  Clients = {c1}
  Expiries = {}
  Never = Never
  Absent = Absent
  NoCall = NoCall
  Overlap <- OverlappingTargets
  MaxTime = 0
  MaxOps = 2
  MaxFaults = 0
PROPERTIES AllowReachesKernel
