CONSTANTS
  blog = blog
  i1 = i1
  t1 = t1
  t2 = t2
  only = only
  NoRow = NoRow
  None = NoRow
  Segment = {"a"}
  Path <- MCPath
  Method = {"GET"}
  AnyMethod = "ANY"
  Plugin = {blog}
  Instance = {i1}
  Thread = {t1, t2}
  Manifest = {only}
  PluginOf <- MCPluginOf
  RoutesOf <- MCRoutesOf
  Operation = {"register", "heartbeat", "unregister", "set_instance", "health", "maintain", "fail", "restart"}
  TTL = 1
  Threshold = 2
  MaxTime = 3
  MaxFailures = 2
SYMMETRY MCSymmetry
SPECIFICATION Spec
INVARIANTS
  HealthCoherent
  LeaseFollowsContact
