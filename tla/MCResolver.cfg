CONSTANTS
  blog = blog
  i1 = i1
  t1 = t1
  r1 = r1
  old = old
  new = new
  NoRow = NoRow
  None = NoRow
  Segment = {"a", "b"}
  Path <- MCPath
  Method = {"GET"}
  AnyMethod = "ANY"
  Plugin = {blog}
  Instance = {i1}
  Thread = {t1}
  Resolver = {r1}
  Manifest = {old, new}
  PluginOf <- MCPluginOf
  RoutesOf <- MCRoutesOf
  Operation = {"register", "heartbeat", "set_service", "fail", "restart"}
  TTL = 2
  CacheTTL = 2
  Threshold = 1
  MaxTime = 3
  MaxFailures = 1
SYMMETRY MCManifests
SPECIFICATION ResolverSpec
INVARIANTS
  BoundedStaleness
  PickedHeard
