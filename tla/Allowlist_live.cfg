\* No symmetry: StoreWins is a liveness property.
SPECIFICATION AllSpec
CONSTANTS
  Targets = {t1, t2}
  Clients = {c1}
  Expiries = {1}
  Never = Never
  Absent = Absent
  NoCall = NoCall
  NoWord = NoWord
  Overlap = {}
  MaxTime = 1
  MaxOps = 2
  MaxFaults = 2
  MaxCommands = 2
INVARIANT OfflineLasts
PROPERTIES StoreWins
