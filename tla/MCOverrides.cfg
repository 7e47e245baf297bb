SPECIFICATION Spec
CONSTANTS
  r1 = r1
  r2 = r2
  Pool <- TwoPools
  Confs <- BothConfs
  Asks <- ManyAsks
  Request = {r1, r2}
  Faults = {"crash", "write"}
  MaxFaults = 1
INVARIANTS
  TypeOK
  LimitsMakeSense
  LoneSavesParse
PROPERTIES
  LimitsAreDurable
SYMMETRY RequestSymmetry
CHECK_DEADLOCK FALSE
