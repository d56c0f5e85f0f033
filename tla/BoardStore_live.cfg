SPECIFICATION FairSpec
CONSTANTS
  Procs = {p1, p2}
  Keys = {k1}
  Nobody = Nobody
  Kinds = {"write", "delete", "wait"}
  MaxNow = 2
  MaxCommits = 3
  MaxFails = 0
  MaxCrashes = 0
PROPERTIES
  WaitersServed
