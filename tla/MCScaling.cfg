SPECIFICATION Spec
CONSTANTS
  PoolOrder <- MCPoolOrder
  PoolLabels <- MCPoolLabels
  JobLabels <- MCJobLabels
  JobRepo <- MCJobRepo
  Inputs <- MCInputs
INVARIANTS
  SpillsBeforeOverload
  ScarcePoolsAreSpared
  DiscountIsAMaximalMatching
  PlanCoversDemand
\* one decision ends a behaviour
CHECK_DEADLOCK FALSE
