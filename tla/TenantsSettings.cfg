CONSTANTS
  Callers = {c1}
  Pods = {p1}
  Flags = {"payroll", "webhooks"}
  None = None
  Null = Null
  TTL = 1
  MaxTime = 1
  MaxWrites = 3
SPECIFICATION Spec
PROPERTY KeysPreserved
CHECK_DEADLOCK FALSE
