CONSTANTS
  blog = blog
  shop = shop
  wiki = wiki
  i1 = i1
  t1 = t1
  t2 = t2
  NoRow = NoRow
  None = NoRow
  Segment <- MCSegment
  Path <- MCPath
  Method = {"GET", "POST"}
  AnyMethod = "ANY"
  Plugin = {blog, shop, wiki}
  Instance = {i1}
  Thread = {t1, t2}
  Manifest <- MCManifest
  PluginOf <- MCPluginOf
  RoutesOf <- MCRoutesOf
  Operation <- MCOperation
  TTL = 1
  Threshold = 2
  MaxTime = 0
  MaxFailures = 0
SYMMETRY MCThreads
SPECIFICATION Spec
INVARIANTS
  TypeOK
  ClaimsExclusive
  RoutesFollowService
  SingleOwner
  OneBestRow
  DiagnosticsAgree
PROPERTY OwnershipSpec
