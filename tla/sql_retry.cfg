\* A key that is retried after crashes and lost answers, one delivery of it at
\* a time, on a database whose reads wait for locks and whose other writers
\* keep the version contract.
SPECIFICATION FairSpec
CONSTANTS
  c1 = c1  c2 = c2  c3 = c3  k1 = k1  k2 = k2  a = a  b = b  m1 = m1  m2 = m2
  None = None
  Calls = {c1, c2}
  Keys = {k1, k2}
  Vals = {a, b}
  Memos = {m1}
  MaxVersion = 2
  Requests <- RetryRequests
  VersionedPeers = TRUE
  SnapshotReads = FALSE
  SameKeyOverlap = FALSE
PROPERTIES
  NoLostUpdate
  VerdictIsFinal
  ImplementsIdempotentUpdate
  EveryCallSettles
\* Every delivery is answered once and none is left to make a step.
CHECK_DEADLOCK FALSE
