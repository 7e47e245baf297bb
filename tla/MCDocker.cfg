SPECIFICATION FairSpec
CONSTANTS
  Name = {r1, r2}
  Policies = {"missing", "always", "never"}
  Faults = {"image", "list", "refuse", "lost", "remove", "signal", "crash"}
  MaxFaults = 3
INVARIANTS TypeOK ReportedGoneIsGone FailedLaunchNeverRuns
PROPERTY LeftoversGo
