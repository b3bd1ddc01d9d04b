\* At the end every instruction may have expired: the system may stop.
CHECK_DEADLOCK FALSE
SPECIFICATION ChainSpec
CONSTANTS
  Tx = {t1, t2, t3}
  Note = {g1, g2, g3, g4, a1, a2, b1, b2, c1, c2, d1}
  g1 = g1
  g2 = g2
  g3 = g3
  g4 = g4
  a1 = a1
  a2 = a2
  b1 = b1
  b2 = b2
  c1 = c1
  c2 = c2
  d1 = d1
  Party = {p1}
  Key = {k1}
  Operator = {o1, o2}
  Call = {x1, x2}
  Gate = {web, worker}
  GateOf <- MCGateOf
  MaxConcurrent = 1
  MaxTreeSize = 9
  JoinSplit <- MCJoinSplit
  Genesis <- MCGenesis
  None = None
SYMMETRY MCSymmetry
INVARIANTS
  NoDoubleSpend
  TreeIsSettledOutputs
  RootsFormOneChain
PROPERTIES
  ImplementsNoteLedger
