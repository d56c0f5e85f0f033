SPECIFICATION CampSpec
CONSTANTS
  m1 = m1
  m2 = m2
  tower = tower
  reviewer = reviewer
  f1 = f1
  f2 = f2
  Missions = {m1, m2}
  Reviewers = {tower, reviewer}
  None = None
  Calls = {c1, c2}
  Deps <- MCDeps
  Assigned <- MCAssigned
  Files = {f1, f2}
  Edited <- MCEdited
  Moved <- MCMoved
  Kinds <- MCKinds
  Discipline = {"review", "merge", "status"}
  MaxCommits = 2
  MaxReviews = 2
  MaxRuns = 1
  MaxCrashes = 1
  MaxReopens = 1
  MaxMissions = 3
  Batches <- MCBatches
  Stems <- MCStems
  Paths <- MCPaths
  Names <- MCNames
  Slug <- MCSlug
  Agents = {a1, a2}
  Children = {a1}
INVARIANTS
  OnlyVettedLands
  LandsInOrder
  PlanIsSound
  CrewIsSound
PROPERTIES
  ObjectionsAreAnswered
CHECK_DEADLOCK FALSE
