\* The provider logs an error.
SPECIFICATION Spec
CONSTANTS
  a = a
  b = b
  NoName = NoName
  Names = {a, b}
  Folded <- Distinct
  NameOf <- OneName
  Treat <- Strict
  Silenced = {}
  Answers = {"item"}
  OwnNames <- NoOwnName
  Logs = TRUE
  Memoise = FALSE
  Projects = {"project"}
  AllowCrash = FALSE
INVARIANTS
  LoggedFailsBuild
