SPECIFICATION Spec
CONSTANTS
  usdc = usdc  bonk = bonk  SOL = SOL
  Mints = {usdc, bonk}
  TermsSet <- MCTerms
  EscrowRent = 7  VaultRent = 11  ReceiptRent = 13
  MaxTime = 3  MaxStray = 1
INVARIANTS Backed AllOrNothing  
PROPERTIES ImplementsAtomicSwap
CHECK_DEADLOCK FALSE
