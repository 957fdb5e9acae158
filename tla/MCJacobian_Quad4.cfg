CONSTANTS
  Kind = "Quad4"
  NDebug = FALSE
  None = None
  NQ <- MCNQ
  QPoints <- MCQPoints
  QWeights <- MCQWeights
  Elements <- MCElements
INIT Init
CHECK_DEADLOCK FALSE
NEXT Next
INVARIANTS
  KernelMatchesLagrange
