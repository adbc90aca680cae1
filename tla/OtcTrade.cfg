SPECIFICATION FairTradeSpec
CONSTANTS
  Mints = {"usdc"}
  SOL <- Lamports
  TermsSet <- SolForUsdc
  EscrowRent = 1
  VaultRent = 1
  ReceiptRent = 1
  MaxTime = 1
  MaxStray = 1
  MaxCrashes = 1
  MaxFailures = 1
INVARIANTS DeskNeverExposed SaveOwed
  
CHECK_DEADLOCK FALSE
