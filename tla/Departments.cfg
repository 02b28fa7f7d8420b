CONSTANTS
  Depts = {d1, d2, d3}
  Root = Root
  Callers = {c1, c2}
SPECIFICATION Spec
SYMMETRY Symmetry
INVARIANTS
  AcyclicUnlessRaced
  ActiveUnderActiveUnlessRaced
PROPERTY AtomicUnlessRaced
