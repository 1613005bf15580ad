CONSTANTS
  Calls = {c1, c2}
  Characters <- MCCharacters
  Home <- MCHome
  Nobody = "no"
  Anywhere = "all"
  Items <- MCItems
  Wishes <- MCWishes
  Verbs <- MCVerbs
  Absent = Absent
  MaxCalls = 4
  Messages = 3
  Unhandled = {2}
  Workers = {w1, w2}
  Limit = 2
  MaxReconciles = 1
  MaxCrashes = 1
  Persons = {"ann"}
  Sites = {"mill"}
  Strength <- MCStrength
  Afflictions = {"pox", "flux"}
  Severity <- MCSeverity
  Scope <- MCScope
  Duration = 1
  Indices = {0, 1, 3}
  LastDue = 1
  MaxChanges = 1
  MaxDeaths = 1
  Places = {"mill", "inn"}
  Ties <- MCTies
  Attempts <- MCAttempts
  PhasesPerDay = 3
  RecentPhases = 2
  HalfLife = 2
  Floor = 2
  Threshold = 2
  MinAge = 1
  MaxPerDay = 1
  MaxTotal = 2
  MaxSalience = 3
  CiteBump = 1
  Newest = 1
  Room = 2
  LastPhase = 5
  MaxScenes = 1
  MaxMoves = 1
  Contents = {"old", "new"}
  Drafts = {d1}
  Keys = {k1, k2}
  Shipped <- MCShipped
  MaxRevision = 2
  MaxVersion = 2
  MaxStories = 2
  Entries = {e1}
  Presets = {p1}
  BuiltIn = {}
  Connections = {}
  Preferences = {}
  MaxSaves = 3
  Mortals = {"ann", "bob"}
  Schedules = {"death", "raid"}
  FallsDue <- MCFallsDue
  Victim <- MCVictim
  Major <- MCMajor
  Periods <- MCPeriods
  Spans <- MCSpans
  Window = 2
  LastDayStart = 3
  MaxEraEvents = 2
  MaxEraMemories = 2
  LastTold = 3
  Moments = {1, 3}
  MaxQuestions = 2
  Overridden = {"bob"}
  MaxOverrides = 1
SPECIFICATION Spec
INVARIANT OneStoryPerDraft
CHECK_DEADLOCK FALSE
