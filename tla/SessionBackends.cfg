SPECIFICATION BackendSpec
CONSTANTS
  s1 = s1
  Sessions = {s1}
  Calls = {c1, c2, c3}
  Ops <- StoreOps
  Messages = {"u", "a", "v", "x", "y"}
  None = None
  Retries = 1
INVARIANTS TypeOK StoredExpires
PROPERTIES ImplementsSessionStore MemoryImplementsSessionStore MemoryCallersListsKept
SYMMETRY CallSymmetry
CHECK_DEADLOCK FALSE
