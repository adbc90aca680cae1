SPECIFICATION TradeSpec
CONSTANTS
  Mints = {"usdc"}
  SOL <- Lamports
  TermsSet <- SolForUsdc
  EscrowRent = 1
  VaultRent = 1
  ReceiptRent = 1
  MaxTime = 1
  MaxStray = 0
  MaxCrashes = 1
  MaxFailures = 1
INVARIANT FundedIsStored
CHECK_DEADLOCK FALSE
