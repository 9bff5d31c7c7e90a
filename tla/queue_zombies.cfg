SPECIFICATION Spec
CONSTANTS
  Workers = {w1, w2}
  Groups = {g1}
  NoRfq = NoRfq
  SubstanceOf <- OwnSubstance
  NoOwner = NoOwner
  MaxRuns = 1
  MaxRestarts = 0
  MaxClaims = 3
  MaxResumes = 1
  MaxLlmRetries = 1
  LateHeartbeats = TRUE
SYMMETRY WorkerSymmetry
INVARIANTS
  TypeOK
  TokensUnique
PROPERTIES
  ImplementsRegister
  CancelledAtRestIsFinal
