SPECIFICATION Spec
CONSTANTS
  Procs = {p1, p2}
  Keys = {k1}
  Nobody = Nobody
  Kinds = {"mutate"}
  MaxNow = 1
  MaxCommits = 2
  MaxFails = 0
  MaxCrashes = 0
INVARIANTS
  MutationsReplaceWhatTheySaw
CHECK_DEADLOCK FALSE
