SPECIFICATION Spec
CONSTANTS
  Ptr <- MCPtr
  Rec <- MCRec
  Null = null
  NoRecord = none
  QuarantineSize = 2
  Threads = {t1, t2}
  ShardCount = 1
  ShardOf <- MCShardOf
  Cells = 5
  Configs <- OnlyPlain
  Calls = {"realloc", "shutdown"}
  MaxAllocs = 3
  MaxMisuse = 0
SYMMETRY Symmetry
INVARIANT
  HeapNeverMisused
