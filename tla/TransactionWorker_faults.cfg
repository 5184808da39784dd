\* Both workers may hold the same rows in their batches, and there are more than
\* fit in one.  With one value of created_at the order of the rows is free.
CONSTANTS
  Tx = {t1, t2, t3}
  Worker = {w1, w2}
  BATCH = 2
  Time = {1}
  Outcomes <- Both
  Faults <- AnyFault
  NoJob = NoJob
SPECIFICATION FairSpec
INVARIANTS
  TypeOK
  AtMostOncePerWorker
PROPERTIES
  KeepsSharedJobs
  EveryRowTakenUp
