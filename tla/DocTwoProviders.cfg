\* Two providers, and two elements of the same name besides one of another.
SPECIFICATION Spec
CONSTANTS
  a = a
  b = b
  NoName = NoName
  Names = {a, b}
  Folded <- Distinct
  NameOf <- Overloads
  Treat <- LenientFirst
  Silenced = {}
  Answers = {"item", "never", "throw"}
  OwnNames <- AnyOwnName
  Logs = FALSE
  Memoise = FALSE
  Projects = {"project"}
  AllowCrash = FALSE
INVARIANTS
  OnlyThrownFailsBuild
  DocumentedIsSaved
PROPERTIES
  FirstProviderWins
