SPECIFICATION MCSpec
CONSTANTS
  Procs = {p1, p2, p3}
  Nobody = Nobody
  MaxCrashes = 2
  MaxErrors = 1
  Stalling = {p1}
  Names = {"a", "b"}
  Words = {"a", "b", "model", "effort", "list", "note", "x", ""}
  Callers = {c1, c2}
  Texts <- MCTexts
  Changes <- MCChanges
  MaxSaves = 2
  MaxEdits = 1
  MaxBusy = 1
INVARIANT
  EverySaveIsExact
CHECK_DEADLOCK FALSE
