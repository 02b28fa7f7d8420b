CONSTANTS
  Nodes = {n1, n2}
  Tenants = {"west", "repeats"}
  Zones <- AllZones
  Home <- HomeZones
  FirstOfMonth = 1
  LastDay = 1
  MaxMishaps = 2
SPECIFICATION CronSpec
SYMMETRY Symmetry
INVARIANTS
  EnqueuedOncePerPod
  CheckedOutWhenOver
  ReconciledAfterCheckout
  WorkDateInItsPeriod
CHECK_DEADLOCK FALSE
