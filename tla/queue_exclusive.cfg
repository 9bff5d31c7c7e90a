SPECIFICATION Spec
CONSTANTS
  Workers = {w1, w2}
  Groups = {g1}
  NoRfq = NoRfq
  SubstanceOf <- OneSubstance
  NoOwner = NoOwner
  MaxRuns = 2
  MaxRestarts = 1
  MaxClaims = 3
  MaxResumes = 0
  MaxLlmRetries = 1
  LateHeartbeats = FALSE
SYMMETRY WorkerSymmetry
INVARIANTS
  OneExecutor
PROPERTIES
  WritesUnderLease
