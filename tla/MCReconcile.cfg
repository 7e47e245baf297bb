SPECIFICATION Spec
CONSTANTS
  n1 = n1
  n2 = n2
  n3 = n3
  Name = {n1, n2, n3}
  NoName = NoName
  PoolOrder <- TwoPools
  PoolLabels <- TwoPoolLabels
  JobLabels <- GpuJobs
  JobRepo <- SameRepo
  PoolOf <- AllOfGpu
  Conf <- WarmMaxTwo
  OverrideChoices <- LowerMax
  Ceiling <- ConfMax
  Drainable = {}
  MaxCreateConcurrency = 2
  Faults = {"destroy", "register", "create", "poll", "partial", "crash", "die", "blip", "slow", "dayold"}
  MaxFaults = 2
  MaxOld = 1
INVARIANTS
  TypeOK
  NeverKillsBusy
  OrphansAreDead
  WithinMax
PROPERTIES
  RunnersLiveOrderly
SYMMETRY RunnerSymmetry
