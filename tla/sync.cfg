CONSTANTS
  t1 = t1
  t2 = t2
  t3 = t3
  a1 = a1
  a2 = a2
  a3 = a3
  a4 = a4
  b1 = b1
  x = x
  Txs = {t1, t2, t3}
  Scripts = {a1, a2, a3, a4, b1, x}
  Outputs <- MCOutputs
  Inputs <- MCInputs
  StartAt <- MCStartAt
  MaxHeight = 3
  MaxEvents = 2
  SuffixLength = 2
  BatchSize = 3
  Keychains <- MCKeychains
  StopGap = 2
  Requests <- MCRequests
  Wallets <- MCWallets
  FetchPrev = {TRUE}
  MaxCalls = 2
SPECIFICATION Spec
INVARIANTS
  TypeOK
  UpdateConnects
  QuietUpdateOnChain
  AnchorsInChain
  ScanIsReference
  EvictionsExact
  OutpointsComplete
PROPERTIES
  CallEnds
CHECK_DEADLOCK FALSE
