SPECIFICATION Spec
CONSTANTS
  Turns = {t1}
  MaxChanges = 3
  MaxRestores = 1
  MaxRequests = 3
  None = None
INVARIANTS
  ErasedStaysErased
  StoredWhole
  CountedOnce
PROPERTIES
  StoredUnderConsent
  HooksCatchUp
