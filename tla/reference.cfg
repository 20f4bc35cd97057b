\* Two reports at a time, two starts of the process, one key of an earlier version.
SPECIFICATION Spec
CONSTANTS
  None = None
  k1 = k1
  k2 = k2
  Bundled = TRUE
  MaxLaunches = 2
  Calls = {d1, d2}
  Keys = {k1, k2}
  Legacy = {k2}
  Requests <- SomeRequests
  Files <- PackageFiles
  Seed <- FirstRecord
\* The process may stay closed.
CHECK_DEADLOCK FALSE
INVARIANTS
  TypeOK
  VersionCountsKeys
  AnswersAgree
  ClosedOwnsNothing
PROPERTIES
  ConfirmedIsReplaced
