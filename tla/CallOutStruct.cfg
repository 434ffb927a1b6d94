\* A function fills in a struct that holds a text.
CONSTANTS
  Arity = 1
  Permitted = {}
SPECIFICATION Spec
INVARIANTS
  ReceivedIsFreed
