CONSTANTS
  w1 = w1
  w2 = w2
  w3 = w3
  Workers <- MCWorkers
  PerWorkerCache = FALSE
  Shared = Shared
  NoResult = NoResult
  Kind = "Tri3"
  NQ = 1
  QPoints <- MCQPoints
  QWeights <- MCQWeights
  Elements <- MCElements
  NDebug = FALSE
  None = None
  NoHolder = NoHolder
SPECIFICATION Spec
CHECK_DEADLOCK FALSE
INVARIANTS
  TypeOK
  

