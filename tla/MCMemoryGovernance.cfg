SPECIFICATION Spec
CONSTANTS
  Memories = {m1, m2, m3}
  Requests = {r1, r2}
  Terms = {plain, merged}
  MergeTerms = {merged}
  MaxChanges = 3
  None = None
  m1 = m1
  m2 = m2
  m3 = m3
  r1 = r1
  r2 = r2
  plain = plain
  merged = merged
SYMMETRY Symmetry
INVARIANTS Acyclic ChecksStillHold DeletedStaysForgotten
PROPERTIES TombstonesStay
