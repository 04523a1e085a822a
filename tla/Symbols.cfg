SPECIFICATION Spec
CONSTANTS
  a1 = a1
  a2 = a2
  game = game
  audio = audio
  play = play
  mix = mix
  byTag = byTag
  byName = byName
  empty = empty
  Threads = {t1, t2}
  Rules = {byTag, byName, empty}
  Records <- MCRecords
  Addrs = {a1, a2}
  Plugins = {a2}
  Names = {play, mix}
  Matching <- MCMatching
  EmptyRule = empty
  NoReply = noreply
  Builds = {"posix", "windows"}
  Miss = miss
  NoThread = nothread
  MaxCalls = 2
PROPERTIES
  RefinesSuppressions
  CallsReturn
