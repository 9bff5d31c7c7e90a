SPECIFICATION FairSpec
CONSTANTS
  m1 = m1
  m2 = m2
  Messages = {m1, m2}
  Senders <- Partners
  OffersOf <- Offers
  Requests = {h1, h2}
  People = {p1}
  MaxPeople = 2
  MaxFaults = 1
  Nothing = none
INVARIANTS
  NothingDropped
  StoredInOrder
PROPERTIES
  RepliesSettle
CHECK_DEADLOCK FALSE
