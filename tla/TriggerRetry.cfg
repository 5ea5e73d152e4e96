SPECIFICATION FairRetrySpec

CONSTANTS
  Triggers = {t1, t2}
  Attempts = 3

INVARIANTS
  OkMeansRun
  AttemptsBoundRuns

PROPERTIES
  EveryTriggerEnds

CHECK_DEADLOCK FALSE
