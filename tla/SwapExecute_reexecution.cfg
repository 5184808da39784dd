CONSTANTS
  Request = {r1, r2}
  Key = {k1}
  BadKey = BadKey
  None = None
SPECIFICATION Spec
INVARIANTS
  NoReexecution
