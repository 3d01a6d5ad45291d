CONSTANTS
  Authored <- AuthoredDef
  Defs <- DefsDef
  Script <- ScriptDef
  CallBound <- BoundDef
SPECIFICATION Spec
INVARIANTS
  FlatNetExact
  ActionsReachPlaces
CHECK_DEADLOCK FALSE
