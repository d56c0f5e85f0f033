SPECIFICATION Spec
CONSTANTS
  Procs = {p1, p2}
  Keys = {k1, k2}
  Nobody = Nobody
  Kinds = {"write", "mutate", "read"}
  MaxNow = 2
  MaxCommits = 3
  MaxFails = 1
  MaxCrashes = 1
INVARIANTS
  FoldsAreCurrent
PROPERTIES
  ViewsAdvance
CHECK_DEADLOCK FALSE
SYMMETRY Symmetry
