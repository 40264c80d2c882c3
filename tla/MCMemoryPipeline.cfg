SPECIFICATION PipelineSpec
CONSTANTS
  Sessions = {s1}
  EveryN = 2
  Warmup = TRUE
  Batch = 2
  MaxRetries = 1
  RowsOf <- MCRowsOf
  MaxFaults = 1
  MaxBoots = 2
  NoState = NoState
  s1 = s1
CHECK_DEADLOCK FALSE
INVARIANTS OnlyDisplacedSkipped RoundsHaveTrigger ScenesHaveTrigger PersonaFollowsScenes
PROPERTIES ScenesCatchUp
