\* Native code calls a callback it has kept.
CONSTANTS
  Arity = 1
  Permitted = {"retain"}
SPECIFICATION Spec
INVARIANTS
  NothingCrosses
