SPECIFICATION FairSpec
CONSTANTS
  Interval = 1
  Stale = 3
  Tolerated = 2
  MaxPass = 4
  ResetIn = 2
INVARIANTS TypeOK HealthyMeansRecent DoorbellIsAnswered
PROPERTY JobsAreNoticed
