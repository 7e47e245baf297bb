SPECIFICATION HangSpec
CONSTANTS
  n1 = n1
  n2 = n2
  n3 = n3
  Name = {n1, n2, n3}
  NoName = NoName
  PoolOrder <- OnePool
  PoolLabels <- OnePoolLabels
  JobLabels <- OneJob
  JobRepo <- SameRepo
  PoolOf <- AllOfLinux
  Conf <- WarmMaxOne
  OverrideChoices <- NoChoices
  Ceiling <- ConfMax
  Drainable = {}
  MaxCreateConcurrency = 2
  Faults = {}
  MaxFaults = 1
  MaxOld = 1
PROPERTY
  JobTimeoutDestroys
