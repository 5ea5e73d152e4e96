SPECIFICATION FairTestSpec

CONSTANTS
  Tests = {t1, t2}
  Silent = {t2}

INVARIANTS
  PassedMeansAnswered

PROPERTIES
  TestEnds

CHECK_DEADLOCK FALSE
