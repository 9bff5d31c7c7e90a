SPECIFICATION FairSpec
CONSTANTS
  Workers = {w1, w2}
  Groups = {g1}
  NoRfq = NoRfq
  SubstanceOf <- OwnSubstance
  NoOwner = NoOwner
  MaxRuns = 1
  MaxRestarts = 1
  MaxClaims = 8
  MaxResumes = 0
  MaxLlmRetries = 2
  LateHeartbeats = FALSE
PROPERTIES
  QueuedIsServed
