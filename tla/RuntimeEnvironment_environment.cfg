\* Copies up to two versions old, one fault; an environment that is gone stops.
SPECIFICATION FairSpec
CONSTANTS
  r1 = r1
  r2 = r2
  NoReaper = NoReaper
  Reapers <- MCReapers
  Workloads <- MCWorkloads
INVARIANTS EnvironmentInvariant OnlyARenewalUndoesDraining ReadyIsPostWipe
PROPERTIES EveryEnvironmentEnds
CHECK_DEADLOCK FALSE
