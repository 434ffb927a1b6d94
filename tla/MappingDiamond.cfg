\* Three files: a scenario of the README.
CONSTANTS
  f1 = f1
  f2 = f2
  f3 = f3
  Files = {f1, f2, f3}
  Root = Root
  Ids = {"i1", "i2", "i3"}
  NoId = NoId
  RootId = "SharpGen-MSBuild"
  Types = {"A", "B", "int"}
  Primitives = {"int"}
  RuntimeTypes = {"B"}
  NoBinding = NoBinding
  Projects <- MCProjects
  MaxDepth = 5
SPECIFICATION Spec
INVARIANTS
  RulesApplyOnce
