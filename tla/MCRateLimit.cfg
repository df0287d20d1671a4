SPECIFICATION MCSpec
CONSTANTS
  Keys = {login, admin}
  MaxAttempts = 2
  Window = 2
  MaxTime = 6
INVARIANTS
  IInv
  NoBurst
PROPERTIES
  ImplementsSlidingWindow
