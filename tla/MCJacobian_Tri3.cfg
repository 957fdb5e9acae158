CONSTANTS
  Kind = "Tri3"
  NDebug = FALSE
  None = None
  NQ <- MCNQ
  QPoints <- MCQPoints
  QWeights <- MCQWeights
  Elements <- MCElements
INIT Init
CHECK_DEADLOCK FALSE
NEXT Next
INVARIANTS
  TypeOK
  KernelMatchesLagrange
  JxWPositive
