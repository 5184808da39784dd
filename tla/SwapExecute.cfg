\* Three requests on two keys: two may share a key while a third uses
\* another, or all three share one.
CONSTANTS
  Request = {r1, r2, r3}
  Key = {k1, k2}
  BadKey = BadKey
  None = None
SPECIFICATION FairSpec
INVARIANTS
  TypeOK
  AnswerNamesOwnJob
  AcknowledgedOnce
  HangsOnlyWhileClosing
PROPERTIES
  EveryRequestEnds
