CONSTANTS
  Tokens = {t1, t2, t3}
  Resets = {r1}
  Callers = {c1, c2}
  None = None
  MaxFailed = 2
  MaxChanges = 2
  CountBound = 2
SPECIFICATION Spec
SYMMETRY Symmetry
CONSTRAINT Bounded
INVARIANTS
  OneLivePerFamily
  RevokedStaysRevoked
  SessionsKnowPassword
  SessionNotLost
  ResetSpentOnce
