SPECIFICATION Spec
CONSTANTS
  Memories = {m1, m2}
  Versions = {1}
  Scenes = {}
  Core = core
  Artifacts = {}
  Backups = {}
  Tokens = {t1, t2}
  MaxPlans = 2
  None = None
SYMMETRY TokenSymmetry
INVARIANT
  ErasedTextStaysErased
