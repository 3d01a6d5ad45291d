CONSTANTS
  Infinity = 1000
  Specs <- TheSpecs
  Queries <- PruningQueries
  Pool = {1, 2, 3}
  EnvSupply = 2
SPECIFICATION Spec
INVARIANT PruningSound
CHECK_DEADLOCK FALSE
