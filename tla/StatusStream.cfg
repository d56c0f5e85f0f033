SPECIFICATION MCSpec
CONSTANTS
  None = None
  main = main
  sub = sub
  Agents = {main, sub}
  Parent <- MCParent
  OmkcFor = 1
  EvictAfter = 0
  MaxQueue = 1
  MaxRecords = 2
  MaxWrites = 1
  MaxOmkc = 1
  MaxConnects = 1
  MaxNow = 1
  w1 = w1
  w2 = w2
  k1 = k1
  k2 = k2
  Workspaces = {w1, w2}
  Keys = {k1, k2}
  Boarded <- MCBoards
  Written = 2
  Slots = {1, 2}
  MaxRivals = 1
  MaxActs = 3
INVARIANTS
  PageShowsTheFold
  NothingUnseenIsReplaced
PROPERTIES
  EvictsOnlyTheIdle
CHECK_DEADLOCK FALSE
