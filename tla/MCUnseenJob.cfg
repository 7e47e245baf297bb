SPECIFICATION Spec
CONSTANTS
  A = A
  B = B
  Repos <- MCRepos
  Runs <- MCRuns
  Jobs <- MCJobs
  RepoOf <- MCRepoOf
  RunOf <- MCRunOf
  Labels <- MCLabels
  Images <- MCImages
  Asks <- MCAsks
  Concurrency = 1
  PageSize = 1
  MaxRetries = 1
  MaxSleep = 120
INVARIANT NoJobOverlooked
