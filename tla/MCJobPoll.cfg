SPECIFICATION FairSpec
CONSTANTS
  A = A
  B = B
  Repos <- MCRepos
  Runs <- MCRuns
  Jobs <- MCJobs
  RepoOf <- MCRepoOf
  RunOf <- MCRunOf
  Labels <- MCLabels
  Images <- MCImages
  Asks <- MCAsks
  Concurrency = 1
  PageSize = 100
  MaxRetries = 1
  MaxSleep = 120
INVARIANTS TypeOK NoJobOverlooked NoGhostJobs WaitsAreBounded
PROPERTY PollEnds
