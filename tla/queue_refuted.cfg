SPECIFICATION FairSpec
CONSTANTS
  Workers = {w1, w2}
  Groups = {g1}
  NoRfq = NoRfq
  SubstanceOf <- OwnSubstance
  NoOwner = NoOwner
  MaxRuns = 1
  MaxRestarts = 1
  MaxClaims = 4
  MaxResumes = 0
  MaxLlmRetries = 1
  LateHeartbeats = FALSE
PROPERTIES
  RestartFindsOwnJobs
  NothingStaysIntermediate
