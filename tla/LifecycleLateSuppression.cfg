SPECIFICATION Spec
CONSTANTS
  Configs <- AllConfigs
  Tags = {lib, app}
  Statics = {s1}
  OwnStatuses = {0, 2}
  MaxStarts = 2
  MaxInits = 3
  MaxBlocks = 2
INVARIANT
  SuppressedNotReported
