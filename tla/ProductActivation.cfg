SPECIFICATION Spec
CONSTANTS
  i1 = i1
  i2 = i2
  k1 = k1
  k2 = k2
  k3 = k3
  issuer = issuer
  custodian = custodian
  opinion = opinion
  mandate = mandate
  alice = alice
  bob = bob
  None = None
  Institution <- MCInstitution
  Product = {p1}
  Role <- MCRole
  Requirement <- MCRequirement
  Key <- MCKey
  Actor <- MCActor
  Primary <- MCPrimary
  OwnerOf <- MCOwnerOf
  IssuerRole = issuer
  ResponsibleRole <- MCResponsibleRole
  Mandatory <- MCMandatory
  MaxReviews = 1
  MaxActivations = 2
SYMMETRY Alike
INVARIANTS ActivationIsAttested EvidenceIsAlive OneOpenActivation
CHECK_DEADLOCK FALSE
