\* A workflow that has ended, or that its author leaves alone, stops.
SPECIFICATION FairSpec
CONSTANTS
  w1 = w1
  w2 = w2
  k1 = k1
  k2 = k2
  Workflows <- MCWorkflows
  Keys <- MCKeys
  NoKey = NoKey
  MaxClaims = 4
  MaxAgentAttempts = 2
  Workloads <- MCWorkloads
INVARIANTS GenerationTypeOK JudgedOnce ReviewedBeforePublished
PROPERTIES TerminalIsFinal JudgingEnds ConclusionsArrive
CHECK_DEADLOCK FALSE
