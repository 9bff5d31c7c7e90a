SPECIFICATION WorkerSpec
CONSTANTS
  Letters <- TwoLetters
  Rfqs <- TwoRfqs
  Mail <- Subjects
  OffersOf <- Offers
  Odd = {}
  Syncs = {worker}
  Poller = worker
  Limit = 1
  Mode = "send"
  MaxPeople = 2
  MaxFaults = 1
  Earlier = {1}
  Nothing = 0
  Unavailable = Unavailable
  MaxReplies = 2
  GoalFields = {}
  Chemist = FALSE
  Writings <- ThreeDrafts
  Clerks = {clerk}
  Robot = robot
  SandboxLetters = {1, 2}
  Wordings <- TwoWordings
  Typed <- PricedAndFull
  DemoText <- Demonstration
  Context <- CasAndIdentity
  Numbers <- OneNumber
  Openings <- EveryOpening
  MaxRequests = 2
  MaxMishaps = 1
INVARIANTS
  OneSafeAnswer
  LettersInBudget
  CompleteIsEarned
PROPERTIES
  EverythingSettles
  LettersSettle
CHECK_DEADLOCK FALSE
