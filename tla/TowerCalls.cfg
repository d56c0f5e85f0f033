SPECIFICATION Spec
CONSTANTS
  None = None
  MaxWrites = 3
  MaxCommits = 1
  Trees = {t1}
  MaxRuns = 3
  Missions = {1, 2, 3}
  Deps <- MCDeps
INVARIANTS AnswersAreTrue OneCommandAtATime
PROPERTIES CallsSettle
CHECK_DEADLOCK FALSE
