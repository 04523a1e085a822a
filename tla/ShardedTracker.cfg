SPECIFICATION Spec
CONSTANTS
  p1 = p1
  p2 = p2
  p3 = p3
  Ptr <- MCPtr
  Rec = {r1, r2}
  Null = null
  NoRecord = none
  QuarantineSize = 2
  Threads = {t1, t2}
  ShardCount = 2
  ShardOf <- MCShardOf
SYMMETRY Symmetry
VIEW NoRet
INVARIANTS
  TypeOK
  TrackedNotQuarantined
  NoDuplicateInRing
  ScanBracketed
PROPERTY
  RefinesRegistry
