SPECIFICATION FairSpec
CONSTANTS
  m1 = m1
  m2 = m2
  Messages = {m1, m2}
  Senders <- Partners
  OffersOf <- Offers
  Requests = {h1, h2}
  People = {p1, p2}
  MaxPeople = 4
  MaxFaults = 1
  Nothing = none
CHECK_DEADLOCK FALSE
INVARIANTS
  EscalatedHasCase
PROPERTIES
  RepliesVisible
