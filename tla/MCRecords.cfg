SPECIFICATION Spec
CONSTANTS
  h = h
  w = w
  h1 = h1
  h2 = h2
  w1 = w1
  p = p
  i = i
  Spouses = {h, w}
  Reqs = {h1, h2, w1}
  By <- MCBy
  Phrases = {p}
  Items = {i}
  Author <- MCAuthor
  Settings = {mode}
  ph = ph
  pw = pw
  Phones = {ph, pw}
  Owner <- MCOwner
  Password = password
  Ratings = {good, bad}
  Nothing = Nothing
  u1 = u1
  u2 = u2
  u3 = u3
  Uploads = {u1, u2, u3}
  v1 = v1
  v2 = v2
  Players = {v1, v2}
  PlainSizes = {0, 1, 4, 5}
  ChunkSize = 2
  Header = 1
  Overhead = 1
  BatchChunks = 2
  MaxRange = 6
  Absent = Absent
  Torn = Torn
SYMMETRY Alike
INVARIANTS RowsInv MediaInv NothingLost ScreensAgree MediaKept BytesExact
CHECK_DEADLOCK FALSE
