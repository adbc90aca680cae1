SPECIFICATION Spec
CONSTANTS
  usdc = usdc  bonk = bonk  SOL = SOL
  Mints = {usdc, bonk}
  TermsSet <- SameMint
  EscrowRent = 7  VaultRent = 11  ReceiptRent = 13
  MaxTime = 3  MaxStray = 0
INVARIANTS CancelRefunds
CHECK_DEADLOCK FALSE
