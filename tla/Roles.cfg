CONSTANTS
  Ids = {i1, i2, i3}
  Employees = {e1, e2}
  Seeder = Seeder
  Order <- TwoRoles
  Custom = {custom}
  Lists <- ThreeLists
  Signed = {TRUE, FALSE}
  MaxRequests = 2
  None = None
SPECIFICATION Spec
SYMMETRY Symmetry
INVARIANTS
  SystemRoleKeepsDefaults
  RoleIsWhatWasAsked
  SeedingIsComplete
  AdminRemains
  AdminReachesEveryRoute
