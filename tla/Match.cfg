SPECIFICATION Spec
CONSTANTS
  Joins <- TwoJoins
  Names = {1, 2}
  Stamps = {1, 2, 3}
  MaxAdds = 5
INVARIANTS
  BindingCanonical
PROPERTY
  FiringTakesRequired
CHECK_DEADLOCK FALSE
