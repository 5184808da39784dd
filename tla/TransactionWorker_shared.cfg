\* More rows than fit in a batch, and no end of them.
CONSTANTS
  Tx = {t1, t2, t3}
  Worker = {w1, w2}
  BATCH = 2
  Time = {1}
  Outcomes <- Throw
  Faults <- NoFault
  NoJob = NoJob
SPECIFICATION EndlessSpec
INVARIANTS
  ProcessingHasWorker
PROPERTIES
  EveryRowSettles
