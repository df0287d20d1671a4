SPECIFICATION FairSpec
CONSTANTS
  Phones = {p1, p2}
  Spouses = {husband, wife}
  Requests = {r1, r2, r3, r4}
  None = None
INVARIANTS
  AccessInv
  ResetWasApproved
PROPERTIES
  TokensNeedTheRow
  RemovedIsCutOff
CHECK_DEADLOCK FALSE
