SPECIFICATION Spec
CONSTANTS
  HeaderSize = 8
  OffsetSize = 1
  WordSize = 2
  MinAlign = 4
  CandidateSpan = 8
  SizeMax = 63
  Requests <- MCRequests
  DamageLimit = 2
INVARIANTS
  TypeOK
  BlockFits
  AlarmExact
  LookupExact
