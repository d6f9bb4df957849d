SPECIFICATION Spec
CONSTANTS
  None = None
  Latest = Latest
  Snapshots = {1, 2, 3}
  Catalogues <- MCCatalogues
  Policies <- MCPolicies
  Paths <- MCPaths
  Abbreviations <- MCAbbreviations
  Hosts = {"h1"}
  Tags = {"t"}
  Scopes <- MCScopes
  Instants = {2}
  Moments = {2, 4}
  Cadences = {None, 1, 2}
  Named <- MCNamed
  Spelled <- MCSpelled
  MaxSnapshots = 2
  Invalid <- MCInvalid
  Dashed <- MCDashed
  Denied = {"-r"}
  SnapshotIds = {"aaaaaaaa"}
  Globs = {"h", "t", "--tag", "-r", "--", "/p"}
  Clean <- MCClean
  Pieces <- MCPieces
  Modes = {"restore-size", "raw-data"}
  Repositories = {"r1", "r2"}
  Questions <- MCQuestions
INVARIANTS ShownWithinPolicy NothingStableOverlooked NotFoundIsTrue StatsWithinPolicy FreshnessIsTrue LatestWasNewest PagesFromLiveSelection AnswersFitQuestions
CHECK_DEADLOCK FALSE
