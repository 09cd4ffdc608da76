\* Two environments under one name, two requests at a time, two terminals, two checkpoints.
\* A scenario nobody asks for any more stops.
SPECIFICATION FairSpec
CONSTANTS
  u1 = u1
  u2 = u2
  c1 = c1
  c2 = c2
  s1 = s1
  s2 = s2
  t1 = t1
  t2 = t2
  NoUID = NoUID
  UIDs <- MCUIDs
  Callers <- MCCallers
  Sockets <- MCSockets
  Tickets <- MCTickets
  CheckpointCount = 2
  Workloads <- MCWorkloads
INVARIANTS LearningInvariant
PROPERTIES OutcomesAreFinal DeletedWasMeant SolvedIsRecorded UsageEnds
CHECK_DEADLOCK FALSE
