---------------------------- MODULE ZkGovernance ----------------------------
(***************************************************************************)
(* Governed changes of what the confidential rail trusts                   *)
(* (ZkGovernanceService): which circuit artifacts are active, and which    *)
(* context a product's notes live in. Every change is proposed by one      *)
(* person and decided by another; between the two the process may be       *)
(* redeployed with another artifact pinned, another proposal may be        *)
(* decided, and an operator may retire a context.                          *)
(*                                                                         *)
(* Every operation is one serializable transaction. The actor is a         *)
(* parameter: who may act is the business of the module that composes this *)
(* one with the sessions.                                                  *)
(***************************************************************************)
EXTENDS Naturals, Sequences

CONSTANTS
  Person,
  Artifact,      \* [version, hash]: a circuit version and the hashes of its key and manifest
  Inherited,     \* artifacts that were activated before proposals were required
  Product, Context,
  MaxProposals,  \* bound on the number of proposals
  Nobody

ASSUME ProposalBound == MaxProposals \in Nat
ASSUME InheritedAssumption ==
  /\ Inherited \subseteq Artifact
  /\ \A a, b \in Inherited : a.version = b.version => a = b
ASSUME NobodyAssumption == Nobody \notin Person

VARIABLES
  pinned,     \* artifact the running process has loaded
  proposals,  \* zk_parameter_proposals, in the order they were made
  circuits,   \* proof_circuit_versions: the artifacts activated
  contexts    \* zk_product_contexts, each created with its genesis root

parameters == <<pinned, proposals, circuits, contexts>>

Versions == {a.version : a \in Artifact}

GovernanceInit ==
  /\ pinned \in Artifact
  /\ proposals = << >>
  /\ circuits = Inherited
  /\ contexts = {}

CircuitPayload == [kind |-> "CIRCUIT_ACTIVATION", artifact |-> pinned]
ContextPayload(p, x) ==
  [kind |-> "PRODUCT_CONTEXT", product |-> p, context |-> x, version |-> pinned.version]

\* #assertCircuitAvailable
CircuitAvailable(payload) == \A c \in circuits : c.version # payload.artifact.version

Activated(version) == \E c \in circuits : c.version = version

\* #assertContextAvailable
ContextAvailable(payload) ==
  /\ Activated(payload.version)
  /\ \A c \in contexts : c.product = payload.product => c.retired
  /\ \A c \in contexts : c.context # payload.context

Available(payload) ==
  IF payload.kind = "CIRCUIT_ACTIVATION" THEN CircuitAvailable(payload) ELSE ContextAvailable(payload)

Pending == {i \in DOMAIN proposals : proposals[i].status = "PENDING"}

\* A pending proposal of the kind, and of the product for a context.
Equivalent(payload, other) ==
  /\ payload.kind = other.kind
  /\ payload.kind = "PRODUCT_CONTEXT" => payload.product = other.product

Propose(maker, payload) ==
  /\ Len(proposals) < MaxProposals
  /\ Available(payload)
  /\ \A i \in Pending : ~Equivalent(payload, proposals[i].payload)
  /\ proposals' = Append(proposals,
       [payload |-> payload, status |-> "PENDING", maker |-> maker, checker |-> Nobody])
  /\ UNCHANGED <<pinned, circuits, contexts>>

Conclude(i, checker, status) ==
  proposals' = [proposals EXCEPT ![i] =
    [payload |-> @.payload, status |-> status, maker |-> @.maker, checker |-> checker]]

\* Mutant: the maker may decide.
MayDecide_Anyone(i, checker) == i \in Pending /\ checker \in Person

\* ZK_PARAMETER_PROPOSAL_NOT_PENDING, MAKER_CHECKER_CONFLICT
MayDecide(i, checker) == i \in Pending /\ proposals[i].maker # checker

\* Mutant: the version is compared, its hashes are not.
StillPinned_Version(payload) == payload.artifact.version = pinned.version

\* ZK_ARTIFACT_CHANGED
StillPinned(payload) == payload.artifact = pinned

ApproveCircuit(i, checker) ==
  /\ MayDecide(i, checker)
  /\ LET payload == proposals[i].payload IN
       /\ payload.kind = "CIRCUIT_ACTIVATION"
       /\ StillPinned(payload)
       /\ CircuitAvailable(payload)
       /\ circuits' = circuits \cup {payload.artifact}
  /\ Conclude(i, checker, "APPROVED")
  /\ UNCHANGED <<pinned, contexts>>

\* Mutant: what was available when it was proposed is not looked at again.
StillAvailable_AsProposed(payload) == Activated(payload.version)

StillAvailable(payload) == ContextAvailable(payload)

\* A row of zk_product_contexts.
ContextOf(x, retired) ==
  [product |-> x.product, context |-> x.context, version |-> x.version, retired |-> retired]

\* The pinned artifact is not asked for; the primary key is (product, version).
ApproveContext(i, checker) ==
  /\ MayDecide(i, checker)
  /\ LET payload == proposals[i].payload IN
       /\ payload.kind = "PRODUCT_CONTEXT"
       /\ StillAvailable(payload)
       /\ \A c \in contexts : ~(c.product = payload.product /\ c.version = payload.version)
       /\ contexts' = contexts \cup {ContextOf(payload, FALSE)}
  /\ Conclude(i, checker, "APPROVED")
  /\ UNCHANGED <<pinned, circuits>>

RejectProposal(i, checker) ==
  /\ MayDecide(i, checker)
  /\ Conclude(i, checker, "REJECTED")
  /\ UNCHANGED <<pinned, circuits, contexts>>

\* The process is restarted with another build.
Redeploy(artifact) ==
  /\ artifact # pinned
  /\ pinned' = artifact
  /\ UNCHANGED <<proposals, circuits, contexts>>

\* By an operator, with SQL; the row is kept and the guard trigger lets it be retired.
RetireContext(c) ==
  /\ ~c.retired
  /\ contexts' = (contexts \ {c}) \cup {ContextOf(c, TRUE)}
  /\ UNCHANGED <<pinned, proposals, circuits>>

-----------------------------------------------------------------------------
ApprovedOf(kind) ==
  {i \in DOMAIN proposals : proposals[i].status = "APPROVED" /\ proposals[i].payload.kind = kind}

\* Four eyes: what the rail trusts is exactly what the approved proposals say, each by
\* a maker and another checker, and no proposal took effect twice (decide).
ParametersAreAttested ==
  /\ circuits = Inherited \cup
       {proposals[i].payload.artifact : i \in ApprovedOf("CIRCUIT_ACTIVATION")}
  /\ {<<c.product, c.context, c.version>> : c \in contexts} =
       {<<proposals[i].payload.product, proposals[i].payload.context, proposals[i].payload.version>> :
          i \in ApprovedOf("PRODUCT_CONTEXT")}
  /\ \A i \in DOMAIN proposals : proposals[i].status # "PENDING" =>
       proposals[i].checker \in Person \ {proposals[i].maker}

\* Notes are never carried into another product's context: an id is used once, even
\* after its context is retired, a product has one live context, and the circuit of a
\* context was activated (header of zk-governance-service.js).
ContextsAreDisjoint ==
  /\ \A c, d \in contexts : c.context = d.context => c = d
  /\ \A c, d \in contexts : c.product = d.product /\ ~c.retired /\ ~d.retired => c = d
  /\ \A c \in contexts : Activated(c.version)

\* An artifact becomes active only while the process that approves it has loaded exactly
\* that artifact, key and manifest, and no version is ever activated twice.
PinnedWhenActivated ==
  [][/\ circuits' \ circuits \subseteq {pinned}
     /\ \A c, d \in circuits' : c.version = d.version => c = d]_parameters
=============================================================================
