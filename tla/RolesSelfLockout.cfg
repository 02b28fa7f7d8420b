CONSTANTS
  Ids = {i1}
  Employees = {e1}
  Seeder = Seeder
  Order <- AdminOnly
  Custom = {}
  Lists <- ThreeLists
  Signed = {FALSE}
  MaxRequests = 1
  None = None
SPECIFICATION Spec
PROPERTY OwnAdminRoleKept
