SPECIFICATION FairSpec
CONSTANTS
  husband = husband
  wife = wife
  h1 = h1
  w1 = w1
  w2 = w2
  r1 = r1
  r2 = r2
  m1 = m1
  None = None
  Spouses = {husband, wife}
  Conns = {h1, w1, w2}
  Requests = {r1, r2}
  Msgs = {m1}
  SpouseOf <- SpouseOfFive
  Author <- AuthorFive
CONSTRAINT AnyThreeTasks
INVARIANTS
  ChatInv
  LiveRegistered
  DeliveredReached
  AckedIsNotified
PROPERTIES
  EveryTaskSettles
CHECK_DEADLOCK FALSE
