CONSTANTS
  Infinity = 1000
  Specs <- TheSpecs
  Queries <- TheQueries
  Pool = {1, 2, 3}
  EnvSupply = 2
SPECIFICATION Spec
INVARIANTS NamesProvenSound NamesViolationReal
CHECK_DEADLOCK FALSE
