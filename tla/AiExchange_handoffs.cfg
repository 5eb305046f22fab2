SPECIFICATION ExchangeSpec
CONSTANTS
  Posts = {1, 2}
  ParentOf <- MCParentOf
  Exported <- MCExported
  Traces <- MCTraces
  MaxExports = 2
  MaxScripts = 3
  MaxScriptFaults = 1
  NoPaper = NoPaper
  TornPaper = TornPaper
  Shelves <- MCShelves
  LabShelves <- MCLabShelves
  Scoped = {1, 2}
  Preorder = 2
  Expected <- MCExpected
  Pinned <- MCPinned
  MaxShelves = 4
  MaxBuilds = 2
  MaxBuildFaults = 1
  NoSheet = NoSheet
  TornSheet = TornSheet
  CaseCount = 2
  CandidateTop = 2
  MetricTop = 1
  RrfK = 60
  MaxRetries = 1
  Holdable = {1}
  MaxProjections = 2
  MaxScriptRuns = 1
  MaxLabFaults = 1
INVARIANT HandoffIsBacked
INVARIANT CatalogIsSound
INVARIANT CatalogScopesAgree
INVARIANT EvaluationIsAccounted
\* Every script that was to be started was, and no more exports come.
CHECK_DEADLOCK FALSE
