SPECIFICATION Spec
CONSTANTS
  s1 = s1
  s2 = s2
  e1 = e1
  e2 = e2
  e3 = e3
  kamed = kamed
  xanthan = xanthan
  guar = guar
  grade = grade
  branded = branded
  neighbour = neighbour
  casX = casX
  casG = casG
  long = long
  bad = bad
  gum = gum
  fluid = fluid
  dowsil = dowsil
  c556 = c556
  c557 = c557
  None = none
  Nobody = nobody
  Unreadable = unreadable
  Numbers = {casX, casG}
  Names = {kamed, xanthan, guar, grade, branded, neighbour}
  Experts = {e1, e2, e3}
  Intents <- MCIntents
  Sessions = {s1, s2}
  LongTexts = {long}
  MaxRows = 3
  Files <- MCFiles
  Corrections <- MCCorrections
  MaxUploads = 2
  MaxEdits = 1
  International = {xanthan, guar, branded, grade, neighbour}
  Composition <- MCComposition
  MaxCandidates = 3
  Worlds <- MCWorlds
  FormSessions = {s1}
  Typed = {kamed, xanthan, casX}
  MaxTouches = 4
  FilledIn <- MCFilledIn
  OtherList <- MCOtherList
  Spelling <- MCSpelling
  Codes = {c556, c557}
  Kinds = {fluid}
  MaxAnalogs = 2
  Suggestions <- MCSuggestions
  PastRequests <- MCPastRequests
  PastAnalogs <- MCPastAnalogs
  MaxPresses = 3
INVARIANTS
  EachRowOnce
  RowsStandAlone
  PreviewKept
  TrailExplainsCards
  RecommendationIsAnchor
  ReplacementIsAnother
PROPERTIES
  OwnSpellingKept
CHECK_DEADLOCK FALSE
