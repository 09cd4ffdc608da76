SPECIFICATION Spec
CONSTANTS
  w1 = w1
  w2 = w2
  w3 = w3
  s1 = s1
  s2 = s2
  s3 = s3
  Workflows <- MCTwoWorkflows
  Sessions <- MCTwoSessions
  SessionOf <- MCTwoSessionOf
  Revising <- MCOneRevising
  Original = Original
  Origin = Origin
  None = None
  Periodic = TRUE
  MaxFaults = 0
INVARIANTS PublishedIsOnDisk
CHECK_DEADLOCK FALSE
