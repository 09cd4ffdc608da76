\* One environment of each kind; two resets, crashes and overlapping Reapers.
\* A released environment has nothing left to do.
SPECIFICATION ResourceFairSpec
CONSTANTS
  c = c
  r1 = r1
  r2 = r2
  ControllerCaller = c
  ReaperCallers <- MCReapers
  Kinds <- MCKinds
  NodeCount = 2
  SlotCount = 1
  MaxResets = 2
  MaxTaken = 1
  MaxFailures = 2
INVARIANTS ResourceInvariant
PROPERTIES CallsComplete
CHECK_DEADLOCK FALSE
