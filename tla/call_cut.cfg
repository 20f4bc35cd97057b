\* One tool call, while the stream may break and the desktop may die.
SPECIFICATION Spec
CONSTANTS
  orders = orders  v1 = v1  d1 = d1  t1 = t1  a1 = a1  c1 = c1  c2 = c2
  None = None
  Connectors = {orders}
  VersionIds = {v1}
  Digests = {d1}
  ToolNames = {t1}
  BuiltIn = {}
  Admins = {a1}
  Submissions <- OneVersion
  MaxEvents = 1
  Chats = {c1}
  MaxCalls = 1
  Tool = t1
\* The turn ends and the log of the registry is bounded.
CHECK_DEADLOCK FALSE
INVARIANTS
  CancelledMeansNotWritten
