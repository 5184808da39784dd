\* Every actor acts once, so that the behaviours end.
CONSTANTS
  Request = {r1, r2, r3}
  Script = {s1, s2}
  Admin = {a1}
  Reader = {q1}
  Wallet = {x1, x2}
  SeedWallet = {x3}
  Unused = Unused
  Gone = Gone
  NoRow = NoRow
  None = None
  Tier <- Tiers
  Endpoint <- Endpoints
  Chain = {"1"}
  Token = {"USDC"}
  Link <- Links
  TestKey = None
  TierName <- TierNames
  Path <- Paths
  Matches <- Fits
  Casts <- Companies
SPECIFICATION Spec
SYMMETRY Symmetry
INVARIANTS
  TypeOK
  ReferencesHold
  SeededIsLimited
  AdaptersListed
PROPERTIES
  ImplementsRegistry
CHECK_DEADLOCK FALSE
