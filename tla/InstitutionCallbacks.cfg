SPECIFICATION CallbackSpec
CONSTANTS
  c1 = c1
  c2 = c2
  c3 = c3
  c4 = c4
  c5 = c5
  agent = agent
  other = other
  k1 = k1
  k2 = k2
  maker = maker
  checker = checker
  Unassigned = Unassigned
  Id <- MCId
  Institution <- MCInstitution
  Channel = {"REGISTER"}
  Key <- MCKey
  Envelope <- MCEnvelope
  MaxSequence = 3
  Actor <- MCActor
  MaxProposals = 2
SYMMETRY Alike
INVARIANTS StreamIsPrefix FailureIsReported ResolutionIsAttested
PROPERTY BlockedStreamStops
CHECK_DEADLOCK FALSE
