SPECIFICATION Spec
CONSTANTS
  Sessions = {s1, s2}
  Daemons = {}
  None = None
  Local = Local
  LastPort = 3
  Foreign = {1}
  Threshold = 2
  MaxDepartures = 0
  MaxMisses = 0
INVARIANTS
  OneBus
CHECK_DEADLOCK FALSE
