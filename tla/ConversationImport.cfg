SPECIFICATION FairSpec
CONSTANTS
  Jobs = {j1}
  N = 3
  Runs = {q1, q2}
  None = None
  MaxAttempts = 2
  MaxCrashes = 2
INVARIANTS
  ActiveHasRun
  StatusSummarises
  StoredOnceUnlessLost
PROPERTIES
  JobsSettle
