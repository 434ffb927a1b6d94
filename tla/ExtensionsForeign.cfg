\* Scenario.
CONSTANTS
  p1 = p1
  p2 = p2
  earlier = earlier
  later = later
  helper = helper
  damaged = damaged
  r1 = r1
  r2 = r2
  Absent = Absent
  Main = Main
  Paths = {p1, p2}
  Contents = {earlier, later, helper, damaged}
  Broken = {damaged}
  Identities = {"docs 1.0", "helper 1.0"}
  IdentityOf <- MCIdentityOf
  TypesOf <- MCTypesOf
  CastableOf <- MCTypesOf
  Resolvers = {}
  Projects = {"app", "tool"}
  Listed <- MCListed
  MaxBuilds = 2
  MaxChanges = 1
SPECIFICATION Spec
CHECK_DEADLOCK FALSE
INVARIANT OnlyListedProviders
