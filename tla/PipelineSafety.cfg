SPECIFICATION Spec
CONSTANTS
  Requests = {r1, r2, r3}
  None = None
INVARIANTS InProgressBalance CountedAsAnswered OwnIds 
SYMMETRY RequestSymmetry
CHECK_DEADLOCK FALSE
