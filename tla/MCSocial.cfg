SPECIFICATION Spec
CONSTANTS
  husband = husband
  wife = wife
  h1 = h1
  h2 = h2
  h3 = h3
  w1 = w1
  w2 = w2
  redHeart = redHeart
  bareHeart = bareHeart
  None = None
  Spouses = {husband, wife}
  Tasks = {h1, h2, h3, w1, w2}
  SpouseOf <- SpouseOfFive
  Entries = {entry}
  Emojis = {redHeart, bareHeart}
  Hearts = {redHeart, bareHeart}
SYMMETRY Alike
INVARIANTS
  SocialInv
  MatchesAnnounced
  CelebratedOnce
  HeartsGoWithComment
CHECK_DEADLOCK FALSE
