CONSTANTS
  Handler = {h1, h2, h3}
  POOL = 2
  Path <- Paths
  LimitOf <- Limits
  MaxLimit = 2
  Amounts <- Bundles
  MaxPurchased = 1
  Faults <- DbFault
  NoRow = NoRow
SPECIFICATION FairPool
INVARIANTS
  PoolTypeOK
  NothingLeaks
  PaidOverdrawWithinPool
  DailyOverdrawWithinPool
PROPERTIES
  HandlerIsAnswered
  RefinesQuotaConsume
  KeepsPoolLedger
