SPECIFICATION FairSpec
CONSTANTS
  m1 = m1
  m2 = m2
  tower = tower
  reviewer = reviewer
  f1 = f1
  f2 = f2
  Missions = {m1, m2}
  Reviewers = {tower, reviewer}
  None = None
  Calls = {c1}
  Deps <- MCDeps
  Assigned <- MCAssigned
  Files = {f1, f2}
  Edited <- MCEditedOnce
  Moved <- MCMoved
  Kinds <- MCSurveyFirst
  Discipline = {"review", "merge"}
  MaxCommits = 2
  MaxReviews = 2
  MaxRuns = 1
  MaxCrashes = 1
  MaxReopens = 1
PROPERTIES
  CrashedMergeIsFinished
