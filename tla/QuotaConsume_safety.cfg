CONSTANTS
  Handler = {h1, h2, h3}
  Path <- Paths
  LimitOf <- Limits
  MaxLimit = 2
  Amounts <- Bundles
  MaxPurchased = 1
  Faults <- DbFault
  NoRow = NoRow
SPECIFICATION HistorySpec
SYMMETRY Symmetry
INVARIANTS
  TypeOK
  PaidOverdrawBounded
  DailyOverdrawBounded
  PathOverdrawBounded
PROPERTIES
  KeepsLedger
