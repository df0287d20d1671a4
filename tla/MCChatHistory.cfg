SPECIFICATION HistoryFairSpec
CONSTANTS
  Lengths = {0, 7}
  MaxWrites = 3
  PageSize = 2
  SearchPage = 4
  MaxPages = 2
  Searches = {s1, s2}
  Matching = {2}
INVARIANTS
  HistoryInv
  ListIsWhole
  CompleteMeansComplete
PROPERTIES
  ReachesTheFirst
CHECK_DEADLOCK FALSE
