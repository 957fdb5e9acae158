CONSTANTS
  MaxLevel = 2
  QDepth = 1
  RhoDepth = 1
  OutflowExtrap = TRUE
  q1 = q1
  q2 = q2
  r1 = r1
  r2 = r2
  NoIdx = NoIdx
  QIndices <- MCQIndices
  RhoIndices <- MCRhoIndices
  MaxInit = 2
INIT Init
NEXT Next
INVARIANTS
  RhoGhostsComplete
