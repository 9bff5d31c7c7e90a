SPECIFICATION Spec
CONSTANTS
  Workers = {w1, w2}
  Groups = {g1}
  NoRfq = NoRfq
  SubstanceOf <- OwnSubstance
  NoOwner = NoOwner
  MaxRuns = 1
  MaxRestarts = 0
  MaxClaims = 2
  MaxResumes = 0
  MaxLlmRetries = 1
  LateHeartbeats = FALSE
SYMMETRY WorkerSymmetry
PROPERTIES
  CancelledIsFinal
