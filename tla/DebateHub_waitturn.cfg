SPECIFICATION Spec
CONSTANTS
  N = 2
  Rounds = 1
  Clients = {c1, c2}
  MaxNotes = 1
INVARIANT WaitEndsAtTurn
