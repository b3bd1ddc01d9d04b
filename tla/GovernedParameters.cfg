SPECIFICATION Spec
CONSTANTS
  maker = maker
  checker = checker
  c1 = c1
  c2 = c2
  t1 = t1
  t2 = t2
  t3 = t3
  b1 = b1
  b2 = b2
  p1 = p1
  p2 = p2
  x1 = x1
  Provider = Provider
  MaxWithheld = 1
  Inherited <- MCInherited
  None = None
  Nobody = Nobody
  Client <- MCClient
  Member <- MCMember
  Person <- MCMember
  Permission <- MCPermission
  Challenge <- MCChallenge
  Token <- MCToken
  SubjectOf <- MCSubjectOf
  NonceOf <- MCNonceOf
  Artifact <- MCArtifact
  Product <- MCProduct
  Context <- MCContext
  MaxProposals = 2
SYMMETRY Alike
INVARIANTS LoginsAreSingleUse ParametersAreAttested ContextsAreDisjoint
PROPERTIES PinnedWhenActivated AuthorityIsCurrent
CHECK_DEADLOCK FALSE
