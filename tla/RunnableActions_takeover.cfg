SPECIFICATION FairSpec
CONSTANTS
  m1 = m1
  v1 = v1
  w1 = w1
  w2 = w2
  Materializations <- MCMaterializations
  Verifications <- MCVerifications
  MaterializationOf <- MCMaterializationOf
  Workers <- MCWorkers
  NoWorker = NoWorker
  NoAction = NoAction
  MaxAttempts = 2
  Backoff <- MCBackoff
  LeaseTTL = 3
  RenewEvery = 1
  RequestTimeout = 2
  MaxFaults = 1
INVARIANTS TypeOK NoLossWithoutFault AttemptCeiling ResultsMatchRows
PROPERTIES ImplementsContract EveryActionSettles
