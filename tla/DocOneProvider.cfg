\* One provider that may do anything, asked for two names and passed over
\* once, in builds that may be killed.
SPECIFICATION FairSpec
CONSTANTS
  a = a
  b = b
  NoName = NoName
  Names = {a, b}
  Folded <- Distinct
  NameOf <- WithUnnamed
  Treat <- Strict
  Silenced = {}
  Answers = {"item", "soon", "later", "throw"}
  OwnNames <- NoOwnName
  Logs = TRUE
  Memoise = TRUE
  Projects = {"project"}
  AllowCrash = TRUE
INVARIANTS
  TypeOK
  BoundedRetries
  ThrownFailsBuild
  NothingForgotten
PROPERTIES
  BuildsEnd
