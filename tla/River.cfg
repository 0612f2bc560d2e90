SPECIFICATION FairSpec
CONSTANTS
  Callers = {c1, c2}
  Kinds = {k1, k2}
  MaxWorkers = 1
  MaxAttempts = 2
  MaxBatch = 2
  MaxJobs = 2
  MaxStarts = 2
  MaxFaults = 1
INVARIANTS OutcomeFollowsClass NoOutcomeLost
PROPERTIES ImplementsContract EveryJobSettles
CHECK_DEADLOCK FALSE
