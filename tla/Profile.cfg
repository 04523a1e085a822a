SPECIFICATION Spec
CONSTANTS
  hook = hook
  f1 = f1
  f2 = f2
  g = g
  main = main
  F = F
  G = G
  Main = Main
  Hook = Hook
  Threads = {t1, t2}
  Tags = {render}
  Null = null
  General = general
  Unknown = unknown
  Stacks <- MCStacks
  SymbolOf <- MCSymbolOf
  Sizes = {0, 1, 3}
  Configs <- MCConfigs
  Buckets <- MCBuckets
  Covered = {render, G}
  Slots = 2
  MaxCapture = 3
  Width = 3
  MaxObjects = 3
SYMMETRY Symmetry
INVARIANTS
  TagsFollowScopes
  TreeAccounts
  RectanglesNested
  ReportsAgree
