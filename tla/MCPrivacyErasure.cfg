SPECIFICATION Spec
CONSTANTS
  Memories = {m1}
  Versions = {1, 2}
  Scenes = {}
  Core = core
  Artifacts = {a1}
  Backups = {a1}
  Tokens = {t1}
  MaxPlans = 1
  None = None
INVARIANTS
  TombstoneFirst
  CompleteMeansGone
  CopiesStayRegistered
  RunningHasExecution
PROPERTIES
  IndexGoesLast
