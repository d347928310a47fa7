CONSTANTS
  Machines = {"access"}
  Scheduler = {p1, p2}
  Tenants = {1, 2}
  FireAt = {1, 2, 5}
  Every = 1
  Window = 3
  MaxTime = 6
  Client = {c1, c2, c3}
  Keys = {1, 2}
  Bodies = {1, 2}
  NoRow = NoRow
  UserId = "u"
  Branches <- AllBranches
  Memberships <- SomeMemberships
  MaxMemberships = 2
  Models <- SomeModels
  Runs <- SomeRuns
  Section = 4
  MaxDepth = 3
  MaxWraps = 3
SPECIFICATION Spec
INVARIANTS BranchesAreTheUnion
