SPECIFICATION Spec
CONSTANTS
  Procs = {p1, p2, p3}
  Nobody = Nobody
  MaxCrashes = 1
  MaxErrors = 0
  Stalling = {}
INVARIANT Exclusive
