SPECIFICATION SessionSpec
CONSTANTS
  Sockets = {s1, s2}
  s1 = s1
  s2 = s2
  MaxReconnects = 2
  NoSocket = NoSocket
CONSTRAINT FewCalls
SYMMETRY Alike
INVARIANTS SessionInv NeverUnguarded Online
PROPERTY ImplementsAppLock
