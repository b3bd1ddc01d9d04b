SPECIFICATION Spec
CONSTANTS
  issuer = issuer
  a = a
  b = b
  t1 = t1
  t2 = t2
  t3 = t3
  t4 = t4
  k1 = k1
  k2 = k2
  k3 = k3
  ann = ann
  bob = bob
  None = None
  Issuer = issuer
  Investor <- MCInvestor
  Id <- MCId
  Key <- MCKey
  Person <- MCPerson
  Nav <- MCNav
  Units = {1}
  Price = {1}
  Fee = {1}
  Expiry = {2}
  InitialCash <- MCInitialCash
  MaxUnits <- MCMaxUnits
  ValidUntil <- MCValidUntil
  DeviationBps = 5000
  Horizon = 2
  MaxRounds = 2
SYMMETRY Alike
INVARIANTS BooksAreSettledEffects OneKeyPerTransaction ReceiptsStayTrue ExceptionsSettleOnce
CHECK_DEADLOCK FALSE
