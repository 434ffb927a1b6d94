\* Two providers throw for the same name.
SPECIFICATION Spec
CONSTANTS
  a = a
  b = b
  NoName = NoName
  Names = {a, b}
  Folded <- Distinct
  NameOf <- OneName
  Treat <- LenientFirst
  Silenced = {}
  Answers = {"throw"}
  OwnNames <- NoOwnName
  Logs = FALSE
  Memoise = FALSE
  Projects = {"project"}
  AllowCrash = FALSE
INVARIANTS
  ThrownFailsBuild
