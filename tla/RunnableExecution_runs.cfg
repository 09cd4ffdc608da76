\* Two workers, two scheduling cycles, a bundle of two files and a plan of two steps.
\* A settled action has nothing left to do.
SPECIFICATION ExecutionFairSpec
CONSTANTS
  w1 = w1
  w2 = w2
  NoRuntimeWorker = NoRuntimeWorker
  RuntimeWorkers <- MCWorkers
  Runtimes <- MCRuntimes
  FileCount = 2
  StepCount = 2
  Ceiling = 1
  MaxCycles = 2
  MaxMishaps = 2
INVARIANTS ExecutionInvariant LostEnvironmentsAreMarked
PROPERTIES ActionsSettle
CHECK_DEADLOCK FALSE
