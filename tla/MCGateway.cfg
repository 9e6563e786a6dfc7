CONSTANTS
  r1 = r1
  r2 = r2
  u1 = u1
  u2 = u2
  s1 = s1
  None = None
  Request = {r1, r2}
  User = {u1, u2}
  Slug = {s1}
  InputsOf <- MCInputsOf
  Delivery <- MCDelivery
  RolesOf <- MCRolesOf
  Permitted = {"writer"}
  AllowPublicRoutes = TRUE
  MaxCopies = 2
  DefaultSize = 1
  MaxSize = 2
  IntMax = 7
SPECIFICATION FairSpec
CHECK_DEADLOCK FALSE
INVARIANTS
  GatewayType
  AuthorIsCaller
  AnswerTellsTruth
  PageCoversTotal
PROPERTY
  EveryRequestEnds
