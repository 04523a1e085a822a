SPECIFICATION Spec
CONSTANTS
  Ptr <- MCPtr
  Rec <- MCRec
  Null = null
  NoRecord = none
  QuarantineSize = 2
  Threads = {t1, t2}
  ShardCount = 1
  ShardOf <- MCShardOf
  Cells = 4
  Configs <- Watched
  Calls = {"realloc", "damage", "report", "misuse", "callback_free"}
  MaxAllocs = 3
  MaxMisuse = 1
SYMMETRY Symmetry
INVARIANTS
  TypeOK
  RecordsAreLive
  HeapNeverMisused
  DamageContained
  AlertsJustified
  ActiveAccountsForRecords
  NothingLost
PROPERTY
  DoubleFreeCaught
