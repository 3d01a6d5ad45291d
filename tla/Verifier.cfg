CONSTANTS
  Infinity = 1000
  Specs <- TheSpecs
  Queries <- TheQueries
  OpenCalls <- TheOpenCalls
  MaxCalls = 2
  Box = 4
  CountBound = 3
  RankBound = 4
  MaxRefinements = 2
SPECIFICATION OpenSpec
INVARIANTS VerdictSound ViolationReal CacheTransparent LawsHold ContractExact
CHECK_DEADLOCK FALSE
