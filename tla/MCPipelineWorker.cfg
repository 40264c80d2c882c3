SPECIFICATION Spec
CONSTANTS
  Sessions = {s1}
  Coroutines = {c1, c2}
  EveryN = 2
  Warmup = TRUE
  Batch = 1
  MaxRetries = 1
  MaxCaptures = 2
  MaxEnds = 1
  MaxFaults = 2
  MaxBoots = 1
  NoState = NoState
  s1 = s1
  c1 = c1
  c2 = c2
CHECK_DEADLOCK FALSE
INVARIANTS NothingUnread CountedHasTrigger PersonaFollowsScenes
PROPERTIES CursorOnlyAdvances RecordsReachL2
