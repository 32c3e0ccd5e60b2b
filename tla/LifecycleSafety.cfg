SPECIFICATION Spec
CONSTANTS
  Requests = {r1, r2}
  Paths = {"ready", "chat"}
  Configs <- Deployments
  MaxLives = 2
  None = None
INVARIANTS TypeOK NothingLeftOpen ReadyWasTrue
SYMMETRY RequestSymmetry
CHECK_DEADLOCK FALSE
