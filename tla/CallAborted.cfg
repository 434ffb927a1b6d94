\* A conversion throws after another has allocated.
CONSTANTS
  Arity = 2
  Permitted = {"convert"}
SPECIFICATION Spec
INVARIANTS
  CallLeavesNothingAtAll
