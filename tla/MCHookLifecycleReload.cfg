SPECIFICATION Spec
CONSTANTS
  Turns = {t1}
  MaxChanges = 2
  MaxRestores = 1
  MaxRequests = 3
  None = None
INVARIANT ReloadHelps
