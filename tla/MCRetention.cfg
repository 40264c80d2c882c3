SPECIFICATION Spec
CONSTANTS
  L0 = {c1, c2}
  L1 = {m1}
  Requests = {r1, r2}
  Lengths = {1}
  FirstPeriod = 1
  BatchL0 = 1
  BatchL1 = 1
  Copies = {b1}
  Backups = {b1}
  MaxDays = 2
  MaxChanges = 3
  None = None
  c1 = c1
  b1 = b1
  m1 = m1
  c2 = c2
  r1 = r1
  r2 = r2
SYMMETRY Symmetry
INVARIANTS OneLiveLease DrainedIsClean BackupIsClean
PROPERTY IndexGoesLast
