CONSTANTS
  Emps = {e1}
  Depts = {d1, d2}
  None = None
  Callers = {c1, c2}
SPECIFICATION Spec
SYMMETRY Symmetry
CONSTRAINT FewAccidents
INVARIANTS
  StaffInOpenDepartment
  ManagersAreFit
  EndedUnlessRaced
  DevicesRevoked
