SPECIFICATION Spec
CONSTANTS
  Ptr <- MCPtr
  Rec <- MCRec
  Null = null
  NoRecord = none
  QuarantineSize = 2
  Threads = {t1, t2}
  ShardCount = 1
  ShardOf <- MCShardOf
  Cells = 4
  Configs <- Sampled
  Calls = {"report", "damage", "shutdown", "late_free"}
  MaxAllocs = 3
  MaxMisuse = 0
SYMMETRY Symmetry
INVARIANTS
  HeapNeverMisused
  AlertsJustified
  NothingLost
