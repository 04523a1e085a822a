SPECIFICATION Spec
CONSTANTS
  p1 = p1
  p2 = p2
  app1 = app1
  vendor = vendor
  covers_vendor = covers_vendor
  Workers = {w1, w2}
  Ptr <- MCPtr
  NoRecord = none
  None = nothing
  ShardCount = 2
  ShardOf <- MCShardOf
  Kinds <- MCKinds
  Names <- MCNames
  Rules = {covers_vendor}
  Covers <- MCCovers
  Buckets <- MCBuckets
  MaxId = 2
  MaxRules = 2
SYMMETRY Symmetry
INVARIANTS
  TypeOK
  DiffTruthful
  DeltasAgree
  HistogramAccounts
  LeaksReported
  ReportMatchesStatus
