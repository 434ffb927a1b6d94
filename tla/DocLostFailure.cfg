\* Two elements' queries fail at the same time; one of them is silenced.
SPECIFICATION Spec
CONSTANTS
  a = a
  b = b
  NoName = NoName
  Names = {a, b}
  Folded <- Distinct
  NameOf <- TwoNames
  Treat <- Strict
  Silenced = {b}
  Answers = {"throw"}
  OwnNames <- NoOwnName
  Logs = FALSE
  Memoise = FALSE
  Projects = {"project"}
  AllowCrash = FALSE
INVARIANTS
  ThrownFailsBuild
