SPECIFICATION Spec
CONSTANTS
  Sessions = {s1, s2}
  Daemons = {}
  None = None
  Local = Local
  LastPort = 2
  Foreign = {}
  Threshold = 2
  MaxDepartures = 1
  MaxMisses = 0
PROPERTIES
  ForeignFileKept
CHECK_DEADLOCK FALSE
