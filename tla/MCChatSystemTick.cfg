SPECIFICATION SystemSpec
CONSTANTS
  husband = husband
  wife = wife
  h1 = h1
  w1 = w1
  r1 = r1
  r2 = r2
  m1 = m1
  None = None
  Spouses = {husband, wife}
  Conns = {h1, w1}
  Requests = {r1, r2}
  Msgs = {m1}
  SpouseOf <- SpouseOfPair
  Author <- AuthorPair
INVARIANTS
  SeenTickArrives
CHECK_DEADLOCK FALSE
