SPECIFICATION FairSpec
CONSTANTS
  s1 = s1
  Sessions = {s1}
  Calls = {c1, c2, c3}
  Ops <- LiveOps
  Messages = {"u", "a"}
  None = None
  MaxTurns = 1
  MaxPool = 1
  MaxIndex = 1
PROPERTIES CallsReturn
CHECK_DEADLOCK FALSE
