SPECIFICATION MCSpec
CONSTANTS
  N = 2
  Rounds = 2
  Orchestrator = 99
  Clients = {0, 1, 99}
  MaxNotes = 0
  Debaters = {0, 1}
  Nobody = Nobody
  Preset <- MCPreset
  ReplayLimit = 3
  MaxTurns = 2
  MaxBreaks = 2
  MaxArchives = 2
  MaxWire = 0
  MaxVersions = 2
  MaxNodes = 3
INVARIANTS
  GrantedTurnIsHonoured
  FeedAndRunAgree
  TranscriptIsTheDebate
  SummaryWasInPlace
PROPERTIES
  DebatersAreDismissed
  CardSeesTheEnd
CHECK_DEADLOCK FALSE
