SPECIFICATION BothSpec
CONSTANTS
  p1 = p1
  p2 = p2
  c1 = c1
  c2 = c2
  c3 = c3
  Clients = {c1, c2}
  Served <- MCServed
  Workspaces = {w1, w2}
  Global = Global
  Cap = 2
  MaxOps = 3
  MaxLinks = 3
  Procs = {p1, p2}
  Projects = {q1, q2}
  None = None
  Calls = {c1, c2, c3}
  Home <- MCHome
  Faulty = {"copy", "alias", "meta", "rename", "fold", "part"}
  Discipline = {"quiet", "serial"}
  MaxWrites = 2
  MaxAdmin = 3
  MaxFaults = 1
  MaxCrashes = 1
INVARIANTS
  NothingLost
  BoardsReachable
  ClaimedOnce
  NotesAreKept
CHECK_DEADLOCK FALSE
SYMMETRY Symmetry
