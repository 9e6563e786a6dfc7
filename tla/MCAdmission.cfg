CONSTANTS
  Instance = {i1, i2}
  Segment = {"x", "a", "blog"}
  HostName = {"plugin", "other"}
  Address = {"public", "private", "loopback", "link_local"}
  KindOf <- MCKindOf
  MaxRouteTimeout = 5
  Config <- MCConfig
  Command <- MCCommand
  None = None
SPECIFICATION Spec
SYMMETRY Instances
INVARIANTS
  StoredTrusted
  HashMeansRoutes
  AdmittedReachable
