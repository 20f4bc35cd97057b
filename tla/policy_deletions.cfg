\* Two administrators delete a role each; one skill names both.
SPECIFICATION Spec
CONSTANTS
  h1 = h1  h2 = h2  r1 = r1  r2 = r2  bad = bad  s1 = s1  b1 = b1  b2 = b2
  None = None
  Handlers = {h1, h2}
  Roles = {r1, r2}
  Malformed = {}
  Skills = {s1}
  Bodies = {b1}
  Requests <- Deletions
  MaxRequests = 2
CHECK_DEADLOCK FALSE
INVARIANTS
  DeletedRoleLeavesNoTrace
