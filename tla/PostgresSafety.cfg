SPECIFICATION Spec
CONSTANTS
  s1 = s1
  Sessions = {s1}
  Calls = {c1, c2, c3}
  Ops <- StoreOps
  Messages = {"u", "a", "v", "x", "y", "z"}
  None = None
  MaxTurns = 1
  MaxPool = 2
  MaxIndex = 4
INVARIANTS TypeOK NoLeakedPool Contiguous NoIndexConflict
PROPERTIES ImplementsSessionStore
SYMMETRY CallSymmetry
CHECK_DEADLOCK FALSE
