SPECIFICATION Spec
CONSTANTS
  a = a
  b = b
  s1 = s1
  t1 = t1
  t2 = t2
  r1 = r1
  x1 = x1
  k1 = k1
  k2 = k2
  k3 = k3
  k4 = k4
  alice = alice
  bob = bob
  None = None
  Issuer = Issuer
  Fee = Fee
  Treasury = Treasury
  Investor <- MCInvestor
  Tx <- MCTx
  UserKey <- MCUserKey
  Request <- MCRequest
  Actor <- MCActor
  Price = {10, 12}
  MaxDeviationBps = 500
  Opening <- MCOpening
  MaxUnits <- MCMaxUnits
  ValidUntil <- MCValidUntil
  DemoPrice = 10
  MaxTime = 1
  MaxProposals = 2
  ReplacementId <- MCReplacementId
SYMMETRY Alike
INVARIANTS ResetSucceeds
CHECK_DEADLOCK FALSE
