\* Two requests with one key: the second may overlap the first or repeat it.
CONSTANTS
  Request = {r1, r2}
  Key = {k1}
  BadKey = BadKey
  None = None
  Worker = {w1}
  BATCH = 1
  Time = {1}
  Outcomes = {"ok", "throw"}
  Faults = {"db", "crash"}
  NoJob = NoJob
SPECIFICATION FairSpec
INVARIANTS
  RepeatsNotExecuted
  AnswersComeTrue
PROPERTIES
  PromisesTakenUp
