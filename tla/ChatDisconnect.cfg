SPECIFICATION Spec
CONSTANTS
  s1 = s1
  s2 = s2
  Sessions = {s1}
  Requests = {r1}
  Inputs <- StreamInputs
  Answers = {"ok"}
  MaxTurns = 1
  MaxChunks = 1
  MaxLog = 0
  None = None
INVARIANTS DisconnectRecorded
CHECK_DEADLOCK FALSE
