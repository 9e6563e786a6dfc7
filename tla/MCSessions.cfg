CONSTANTS
  User = {u1, u2}
  Session = {s1, s2, s3}
  Thread = {t1, t2}
  RefreshTTL = 2
  MaxTime = 3
  None = None
SYMMETRY MCSymmetry
SPECIFICATION Spec
INVARIANTS
  OneActivePerLogin
  LogoutEnds
  RefreshedInTime
PROPERTY ChainsSpec
