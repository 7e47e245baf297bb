SPECIFICATION FairSpec
CONSTANTS
  n1 = n1
  n2 = n2
  p1 = p1
  p2 = p2
  p3 = p3
  Name = {n1, n2}
  Pid = {p1, p2, p3}
  NoName = NoName
  NoPid = NoPid
  Stranger = Stranger
  Faults <- UsualFaults
  MaxFaults = 3
INVARIANTS
  TypeOK
  SignalsOnlyItsRunner
  ReportedGoneIsGone
PROPERTIES
  InstancesLiveOrderly
  DebrisIsCleared
