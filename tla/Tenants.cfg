CONSTANTS
  Callers = {c1, c2}
  Pods = {p1}
  Flags = {"payroll", "webhooks"}
  None = None
  Null = Null
  TTL = 2
  MaxTime = 3
  MaxWrites = 3
SPECIFICATION Spec
SYMMETRY Symmetry
INVARIANTS
  TerminatedUnlessRaced
  EventsTellStatus
  FeatureAsAsked
  SuspensionIsSeen
CHECK_DEADLOCK FALSE
