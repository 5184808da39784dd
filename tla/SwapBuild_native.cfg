CONSTANTS
  Request = {r1}
  Prefix = {p1}
  Token <- Tokens
  Price <- Prices
  Variance <- Variances
  Improvement <- Improvements
  Asks <- AllAsks
  None = None
SPECIFICATION Spec
INVARIANTS
  NativeIsSentAsValue
CHECK_DEADLOCK FALSE
