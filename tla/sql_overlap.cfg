\* Two deliveries in flight at once, versioned reads, any other writer.
SPECIFICATION Spec
CONSTANTS
  c1 = c1  c2 = c2  c3 = c3  k1 = k1  k2 = k2  a = a  b = b  m1 = m1  m2 = m2
  None = None
  Calls = {c1, c2}
  Keys = {k1, k2}
  Vals = {a, b}
  Memos = {m1, m2}
  MaxVersion = 1
  Requests <- DuplicateRequests
  VersionedPeers = FALSE
  SnapshotReads = TRUE
  SameKeyOverlap = TRUE
SYMMETRY CallSymmetry
INVARIANTS
  TypeOK
  AtMostOneCommit
  AnswersAgree
  SuccessWasVisible
  HonestFailure
\* Every delivery is answered once and none is left to make a step.
CHECK_DEADLOCK FALSE
