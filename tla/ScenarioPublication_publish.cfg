\* Two authors revise one scenario, a third creates one; a volume at rest stops.
SPECIFICATION FairSpec
CONSTANTS
  w1 = w1
  w2 = w2
  w3 = w3
  s1 = s1
  s2 = s2
  s3 = s3
  Workflows <- MCWorkflows
  Sessions <- MCSessions
  SessionOf <- MCSessionOf
  Revising <- MCRevising
  Original = Original
  Origin = Origin
  None = None
  Periodic = FALSE
  MaxFaults = 2
INVARIANTS PublicationTypeOK NoLostUpdate PublishedIsOnDisk StartIsClean
PROPERTIES PublicationEnds
CHECK_DEADLOCK FALSE
