SPECIFICATION FairSpec
CONSTANTS
  n1 = n1
  n2 = n2
  n3 = n3
  Name = {n1, n2, n3}
  NoName = NoName
  PoolOrder <- OnePool
  PoolLabels <- OnePoolLabels
  JobLabels <- OneJob
  JobRepo <- SameRepo
  PoolOf <- AllOfLinux
  Conf <- ColdMaxOne
  OverrideChoices <- NoChoices
  Ceiling <- ConfMax
  Drainable = {"linux"}
  MaxCreateConcurrency = 1
  Faults = {"deregister", "list", "register", "destroy", "create", "crash", "die", "slow", "vanish"}
  MaxFaults = 1
  MaxOld = 1
PROPERTIES
  JobServed
  OrphansRemoved
  FinishedReaped
  DrainEmpties
