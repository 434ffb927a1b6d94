\* A failing function leaves a freed pointer in an out parameter.
CONSTANTS
  Arity = 1
  Permitted = {"stale"}
SPECIFICATION Spec
INVARIANTS
  MemorySafe
