CONSTANTS
  c1 = c1
  g1 = g1
  Call <- MCCall
  ToPlugin <- MCToPlugin
  Thread = {t1, t2}
  Skew = 1
  Grace = 1
  MaxTime = 3
  None = None
SPECIFICATION FairSpec
INVARIANTS
  AcceptedOnce
  KeptWhileFresh
PROPERTY
  ExpiredPruned
