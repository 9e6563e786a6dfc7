CONSTANTS
  blog = blog
  i1 = i1
  i2 = i2
  t1 = t1
  t2 = t2
  r1 = r1
  r2 = r2
  old = old
  new = new
  NoRow = NoRow
  None = NoRow
  Segment = {"a"}
  Path <- MCPath
  Method = {"GET"}
  AnyMethod = "ANY"
  Plugin = {blog}
  Instance = {i1, i2}
  Thread = {t1, t2}
  Manifest = {old, new}
  PluginOf <- MCPluginOf
  RoutesOf <- MCRoutesOf
  Runner = {r1, r2}
  ManifestOf <- MCManifestOf
  InstanceOf <- MCInstanceOf
  Operation = {"set_instance", "fail", "restart"}
  TTL = 1
  Threshold = 2
  MaxTime = 0
  MaxFailures = 2
SPECIFICATION RunnerSpec
INVARIANTS
  RunnerType
PROPERTIES
  ShutOutUntilReadmitted
  Reregisters
