\* Seven nodes: seed target 4, waves 2+2 (the 10% rule floored at 2), 1+1+2 or 3+1 (--initial-seeds 1 or 3).
CONSTANTS
  N = 7
  InitialCounts = {0, 1, 3}
  PublicSeeds = 2
  MaxFaults = 1
  MaxPlanTotal = 32
SPECIFICATION Spec
INVARIANT TypeOK
INVARIANT SeedAccounting
INVARIANT DeployedOnlyWhenSeeded
INVARIANT PlanFollowsDoubling
INVARIANT NoMeasurementPodLeft
PROPERTY Terminates
PROPERTY RolloutRefined
\* The command returns after deploying or failing; nothing runs after it.
CHECK_DEADLOCK FALSE
