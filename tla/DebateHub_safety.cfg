SPECIFICATION Spec
CONSTANTS
  N = 2
  Rounds = 2
  Clients = {c1, c2}
  MaxNotes = 1
INVARIANTS
  TurnsAreFair
  WaitersAreServed
  ArchiveAgrees
PROPERTIES
  TurnOrderSpec
