\* Two admin handlers take two versions of a connector through their lifecycle.
SPECIFICATION RegistrySpec
CONSTANTS
  orders = orders  v1 = v1  v2 = v2  d1 = d1  d2 = d2  t1 = t1  t2 = t2
  a1 = a1  a2 = a2
  None = None
  Connectors = {orders}
  VersionIds = {v1, v2}
  Digests = {d1, d2}
  ToolNames = {t1, t2}
  BuiltIn = {t1}
  Admins = {a1, a2}
  Submissions <- Upgrades
  MaxEvents = 6
SYMMETRY AdminSymmetry
\* The length of the log is bounded.
CHECK_DEADLOCK FALSE
INVARIANTS
  RegistryTypeOK
  LogExplainsStatus
  NameIsTaken
PROPERTIES
  VersionsAreImmutable
