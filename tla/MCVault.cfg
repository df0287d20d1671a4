SPECIFICATION Spec
CONSTANTS
  husband = husband
  wife = wife
  h1 = h1
  h2 = h2
  w1 = w1
  w2 = w2
  w3 = w3
  None = None
  Spouses = {husband, wife}
  Tasks = {h1, h2, w1, w2, w3}
  SpouseOf <- SpouseOfTasks
SYMMETRY Alike
CONSTRAINT FewCreatesAndViews
INVARIANTS
  VaultInv
  TrailTells
  AppliedOnlyIfApproved
CHECK_DEADLOCK FALSE
