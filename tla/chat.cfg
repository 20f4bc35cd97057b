\* Two turns of one session or of two, after a turn of one of them or of none.
SPECIFICATION FairSpec
CONSTANTS
  None = None
  t0 = t0
  Turns = {t0, t1, t2}
  Past = t0
  Sessions = {s1, s2}
  MaxIter = 2
\* The user may stop asking.
CHECK_DEADLOCK FALSE
INVARIANTS
  SequentialHistory
  SessionsApart
  FileAnswerFits
PROPERTIES
  EveryTurnEnds
