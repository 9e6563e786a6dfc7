CONSTANTS
  Person = {ann, bea}
  NameOf <- MCNameOf
  MailOf <- MCMailOf
  User = {u1, u2}
  Session = {s1, s2}
  Thread = {t1, t2}
  AccessTTL = 1
  RefreshTTL = 2
  MaxTime = 2
  None = None
SYMMETRY MCSymmetry
SPECIFICATION AccountsSpec
INVARIANTS
  AccountsType
  AnswersOwner
  AccessEnds
