SPECIFICATION FairSpec
CONSTANTS
  Places <- TimedPlaces
  NumTransitions = 3
  Required <- TimedRequired
  TakesAll <- NoArcs3
  Reads <- TimedReads
  Inhibitors <- NoArcs3
  Resets <- NoArcs3
  Terminals = {}
  Priority <- TimedPriority
  Timing <- TimedTiming
  InitialMarkings <- TimedInitial
  EnvPlaces = {"lock"}
  Productions <- TimedProductions
  MayFail = {}
  MayThrow = {}
  MayReject = {}
  Tolerance = 1
  BudgetPolicies = {}
  MaxInject = 1
  MaxNow = 3
INVARIANTS
  FiringOnTime
PROPERTIES
  EnabledProgress
  InjectionsSettle
  DrainTerminates
