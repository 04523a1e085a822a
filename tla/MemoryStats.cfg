SPECIFICATION Spec
CONSTANTS
  b1 = b1
  b2 = b2
  b3 = b3
  Threads = {t1, t2}
  Readers = {t2}
  None = none
  Blocks <- ThreeBlocks
  Size <- MCSize
  Limit = 1
INVARIANTS
  NoUnderflow
  PeakIsHighWater
  CountersAgree
  ExcessNoticed
