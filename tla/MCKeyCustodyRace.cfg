SPECIFICATION Spec
CONSTANTS
  Admins = {a1, a2}
  Phones = {p1, p2}
  Roles = {husband, wife}
  Deployments = {"fresh"}
  Old = Old
  None = None
INVARIANTS
  OneKey
CHECK_DEADLOCK FALSE
