SPECIFICATION Spec
CONSTANTS
  Admins = {a1, a2, a3}
  Phones = {p1, p2}
  Roles = {husband, wife}
  Deployments = {"fresh", "with code", "without code"}
  Old = Old
  None = None
SYMMETRY Alike
INVARIANTS
  KeyInv
  KeyIsKept
  ClaimedOnce
CHECK_DEADLOCK FALSE
