\* Two targets, two connections, three calls and one fault or two of each: every
\* handler can overlap a pass, another handler, a restart and the end of a lifetime.
SPECIFICATION Spec
CONSTANTS
  Targets = {t1, t2}
  Clients = {c1, c2}
  Expiries = {1, 2}
  Never = Never
  Absent = Absent
  NoCall = NoCall
  Overlap = {}
  MaxTime = 2
  MaxOps = 3
  MaxFaults = 2
CONSTRAINT Budget
SYMMETRY Symmetry
INVARIANTS TypeOK SettledAgree
PROPERTIES WithdrawsOnlyOutdated ImplementsLedger
