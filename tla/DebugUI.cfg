SPECIFICATION Spec
CONSTANTS
  NetPlaces <- MCNetPlaces
  checkpointInterval = 2
  Sessions = {"a", "b"}
  History <- MCHistory
  BatchSize = 3
  LiveMessages = 1
  Gone = {}
  DeepLinks = {"a"}
  Modes = {"live", "replay"}
  Breakpoints <- MCBreakpoints
  Stray <- MCStray
  Budgets <- MCBudgets
INVARIANTS SessionIsOnePhase NothingStuck ReplayExact DisplayTruthful
CHECK_DEADLOCK FALSE
