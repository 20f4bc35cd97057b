\* Two administrators edit one role and a skill that names it.
SPECIFICATION Spec
CONSTANTS
  h1 = h1  h2 = h2  r1 = r1  r2 = r2  bad = bad  s1 = s1  b1 = b1  b2 = b2
  None = None
  Handlers = {h1, h2}
  Roles = {r1, bad}
  Malformed = {bad}
  Skills = {s1}
  Bodies = {b1}
  Requests <- EditRequests
  MaxRequests = 3
SYMMETRY HandlerSymmetry
\* The number of requests is bounded.
CHECK_DEADLOCK FALSE
INVARIANTS
  TypeOK
  OkMeansInForce
  CascadeComplete
