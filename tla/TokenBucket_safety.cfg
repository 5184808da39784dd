\* A bucket of two tokens that refills one in two seconds and expires after six.
CONSTANTS
  RPM = 30
  BURST = 2
  TTL = 6
  LATENCY = 1
  MaxClock = 16
  MaxInFlight = 2
  MaxErrors = 1
SPECIFICATION Spec
INVARIANTS
  TypeOK
  WindowBounded
PROPERTIES
  RefusalIsEarned
