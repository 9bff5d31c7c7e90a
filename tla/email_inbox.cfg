SPECIFICATION Spec
CONSTANTS
  Letters <- TwoLetters
  Rfqs <- TwoRfqs
  Mail <- Subjects
  OffersOf <- Offers
  Odd = {}
  Syncs = {worker, request}
  Poller = worker
  Limit = 1
  Mode = "send"
  MaxPeople = 1
  MaxFaults = 1
  Earlier = {1}
  Nothing = 0
INVARIANTS
  FreshOnce
  OnlyLinkedAnswered
  MarkedAreStored
CHECK_DEADLOCK FALSE
