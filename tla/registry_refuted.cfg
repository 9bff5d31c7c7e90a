SPECIFICATION Spec
CONSTANTS
  run = run
  other = other
  r1 = r1
  maker = maker
  trader = trader
  Analog = FALSE
  Sessions = {run, other}
  Run = run
  RfqOf <- MCRfqOf
  Rows = 6
  OldRows <- MCOldRows
  Nobody = nobody
  Facts <- MCFacts
  TitleKey <- MCTitleKey
  AnswersTo <- MCAnswersTo
  Opinions <- MCOpinions
  Requested = 3
  MaxFetches = 4
  MaxCalls = 3
  OtherCards <- MCOtherCards
  Invalid_ = invalid
  Unnamed = unnamed
CHECK_DEADLOCK FALSE
ACTION_CONSTRAINT JustInTime
INVARIANTS
  OneRowPerCompany
  AskedAnswerStands
PROPERTIES
  CountryNeverWeaker
