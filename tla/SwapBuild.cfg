CONSTANTS
  Request = {r1, r2}
  Prefix = {p1}
  Token <- Tokens
  Price <- Prices
  Variance <- Variances
  Improvement <- Improvements
  Asks <- AllAsks
  None = None
SPECIFICATION Spec
SYMMETRY Symmetry
INVARIANTS
  TypeOK
  RevokedForGood
  FeeOfKey
  QuoteWithinSlippage
  ValueOnlyToPayable
CHECK_DEADLOCK FALSE
