SPECIFICATION MCSpec
CONSTANTS
  h1 = h1
  h2 = h2
  h3 = h3
  t1 = t1
  t2 = t2
  w1 = w1
  w2 = w2
  Turns = {t1, t2}
  Hooks = {h1, h2, h3}
  Turn <- MCTurn
  Workers = {w1, w2}
  N = 2
  Preferred <- MCPreferred
  MaxAttempts = 2
  MaxFaults = 1
  Expirable = {h1}
  None = None
INVARIANT NothingLost
PROPERTY EntriesSettle
CHECK_DEADLOCK FALSE
