CONSTANTS
  Tx = {t1, t2, t3}
  Worker = {w1}
  BATCH = 2
  Time <- Times
  Outcomes <- Both
  Faults <- CrashOnly
  NoJob = NoJob
SPECIFICATION Spec
PROPERTIES
  KeepsLifecycle
