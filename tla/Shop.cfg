SPECIFICATION Spec
CONSTANTS
  Places <- ShopPlaces
  NumTransitions = 3
  Required <- ShopRequired
  TakesAll <- ShopTakesAll
  Reads <- ShopReads
  Inhibitors <- ShopInhibitors
  Resets <- ShopResets
  Terminals = {"end"}
  Priority <- ShopPriority
  Timing <- Immediate3
  InitialMarkings <- ShopInitial
  EnvPlaces = {"job"}
  Productions <- ShopProductions
  MayFail = {1, 3}
  MayThrow = {1, 2}
  MayReject = {"job"}
  Tolerance = 0
  BudgetPolicies = {"abandon", "close"}
  MaxInject = 3
  MaxNow = 0
INVARIANTS
  BitmapFaithful
  EnablementTracksMarking
  NoLostWakeUp
  RestorePointComplete
  NoOrphanedInjection
  ReasonTruthful
PROPERTY
  ImplementsNet
