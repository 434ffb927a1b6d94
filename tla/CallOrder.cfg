\* Every signature of three parameters; conversions may throw, and exceptions have any HResult.
CONSTANTS
  Arity = 3
  Permitted = {"convert", "hresult"}
SPECIFICATION Spec
INVARIANTS
  TypeOK
  MemorySafe
  ArgumentsUsable
  CallLeavesNothing
  FailureArrives
