SPECIFICATION Spec
CONSTANTS
  NetPlaces <- MCNetPlaces
  checkpointInterval = 2
  Clients = {"c1", "c2"}
  SessionIds = {"a", "b", "c"}
  Scripts <- MCScripts
  MaxEvents = 4
  MaxSessions = 2
  SNAPSHOT_INTERVAL = 2
  Filters <- MCFilters
  Breakpoints <- MCBreakpoints
  ArchiveStarts <- MCArchiveStarts
  Budgets <- MCBudgets
INVARIANTS ListenersOwned LiveExact CacheExactWhileComplete
CHECK_DEADLOCK FALSE
