SPECIFICATION Spec
CONSTANTS
  RetryCount = 2
  BaseDelay = 2
  MaxDelay = 3
  JitterEnabled = TRUE
  JitterRatio = 1
  Budget = 8
  MaxLatency = 5
  Statuses <- SomeStatuses
INVARIANTS TotalWithinBudget
CHECK_DEADLOCK FALSE
