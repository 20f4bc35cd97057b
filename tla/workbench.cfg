\* Two contents of one version: edits, tests, freezes, locks and submissions.
SPECIFICATION FairSpec
CONSTANTS
  None = None
  c1 = c1
  v1 = v1
  b1 = b1
  b2 = b2
  a1 = a1
  Connectors = {c1}
  VersionIds = {v1}
  ToolNames = {tool}
  BuiltIn = {}
  Admins = {admin}
  MaxEvents = 1
  MaxWire = 1
  Tools = {query}
  Contents = {b1, b2}
  TestArguments = {a1}
  Credentials = {old, new}
  Forms <- TwoForms
  Digests <- PayloadDigests
  Submissions <- AllSubmissions
\* The window may stay locked.
CHECK_DEADLOCK FALSE
INVARIANTS
  RegisteredIsInstalled
  ShownIsOfDraft
PROPERTIES
  SubmittedWasTested
  SubmittedIsShown
  EveryRunEnds
