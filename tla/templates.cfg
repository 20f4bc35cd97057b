\* Reads and updates, accepted or not, qualified and plain or not, over every
\* small database.
SPECIFICATION FairSpec
CONSTANTS
  None = None
  Missing = Missing
  MaxInt = 1
  VersionColumn = 3
  Templates <- AllTemplates
  Databases <- Contents
  Arguments <- CallArguments
\* A run ends with its answer.
CHECK_DEADLOCK FALSE
INVARIANTS
  RunTypeOK
  ReadStaysOnResource
  NoPoolIsLeft
PROPERTIES
  ShownIsWritten
  CloseEndsTheCall
