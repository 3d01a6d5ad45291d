CONSTANTS
  Infinity = 1000
  Specs <- TheSpecs
  Cases <- TheCases
SPECIFICATION Spec
INVARIANTS GraphExact StubbornKeepsDead LivenessExact
CHECK_DEADLOCK FALSE
