SPECIFICATION Spec
CONSTANTS
  Memories = {m1}
  Target = 2
  MaxFaults = 3
  None = None
INVARIANTS
  DataSurvives
  OnlyStraysHaveDataOpen
PROPERTIES
  FailedUpgradeKeepsData
  ServedAgain
