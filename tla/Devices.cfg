CONSTANTS
  e1 = e1
  e2 = e2
  e3 = e3
  d1 = d1
  d2 = d2
  Emps = {e1, e2, e3}
  Phones = {d1, d2}
  Rows <- SharedPhone
  Fcm = {t1}
  None = None
  Callers = {c1, c2}
  MaxDevices = 1
SPECIFICATION Spec
SYMMETRY Symmetry
CONSTRAINT FewAccidents
INVARIANTS
  LimitHeld
  OneOwner
  UseIsAttributed
