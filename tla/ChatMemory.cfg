SPECIFICATION Spec
CONSTANTS
  s1 = s1
  s2 = s2
  Sessions = {s1, s2}
  Requests = {r1, r2, r3}
  Inputs <- TwoSessions
  Answers = {"ok", "empty"}
  MaxTurns = 1
  MaxChunks = 0
  MaxLog = 2
  None = None
INVARIANTS PromptRemembers PromptIsConversation WholeTurns
SYMMETRY FullSymmetry
CHECK_DEADLOCK FALSE
