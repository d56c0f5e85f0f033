SPECIFICATION MCSpec
CONSTANTS
  Sessions = {s1, s2}
  Daemons = {d1, d2}
  None = None
  Local = Local
  LastPort = 3
  Foreign = {2}
  Threshold = 2
  MaxDepartures = 2
  MaxMisses = 1
  MaxProbes = 2
  MaxChanges = 2
  MaxStarts = 3
  MaxShifts = 3
  PageSessions = {s1}
  Ids = {a, b, c}
  Frames <- MCFrames
  Rows <- MCRows
  s1 = s1
  a = a
  b = b
  c = c
  d1 = d1
INVARIANTS
  OneOwner
  PageIsHonest
  StillLooking
  OneSubscription
PROPERTIES
  BusIsNeverLost
  CardComesBack
  ConnectsInTheEnd
CHECK_DEADLOCK FALSE
