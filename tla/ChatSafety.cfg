SPECIFICATION FairSpec
CONSTANTS
  s1 = s1
  s2 = s2
  Sessions = {s1}
  Requests = {r1, r2}
  Inputs <- AllInputs
  Answers = {"ok", "blank", "empty"}
  MaxTurns = 1
  MaxChunks = 2
  MaxLog = 0
  None = None
INVARIANTS TypeOK SSEProtocol AcknowledgedIsStored WholeTurns MetricsBalance ResultAgrees
PROPERTIES StreamsClose
CHECK_DEADLOCK FALSE
