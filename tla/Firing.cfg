SPECIFICATION FairSpec
CONSTANTS
  Specs <- TwoLevels
  Consumed <- TwoTaken
  MaxWrites = 3
INVARIANTS
  AmbiguityExact
  ValidationExact
  OutcomesDoNotMix
PROPERTY
  TimeoutEndsFiring
CHECK_DEADLOCK FALSE
