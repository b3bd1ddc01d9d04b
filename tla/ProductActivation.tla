------------------------- MODULE ProductActivation -------------------------
(***************************************************************************)
(* The product catalogue of one tenant (ProductCatalogService): the        *)
(* onboarding of institutions and of their signing keys, the roles they    *)
(* hold in a product, the signed evidence the product's template asks for, *)
(* and the activation of the product by a maker and a checker.             *)
(*                                                                         *)
(* The database takes part: a trigger registers the first key of an        *)
(* institution, and another withdraws the evidence signed with a key that  *)
(* is revoked, suspends the configurations that lose it and pauses their   *)
(* products (migration 021). Operators pause and resume products through   *)
(* DurableWorkflowService, which knows nothing of configurations.          *)
(*                                                                         *)
(* Every operation is one serializable transaction, hence one action; one  *)
(* that is refused changes nothing and is no step.                         *)
(***************************************************************************)
EXTENDS Naturals

CONSTANTS
  Institution, Product, Role, Requirement, Key, Actor,
  Primary,          \* key an institution is registered with
  OwnerOf,          \* institution of a key
  IssuerRole,       \* the role createProduct fills
  ResponsibleRole,  \* role whose holder must supply a requirement
  Mandatory,        \* requirements the gate insists on
  MaxReviews,       \* bound on the rounds of an onboarding review
  MaxActivations,   \* bound on the rounds of an activation
  None

ASSUME KeyAssumption ==
  /\ OwnerOf \in [Key -> Institution]
  /\ Primary \in [Institution -> Key]
  /\ \A i \in Institution : OwnerOf[Primary[i]] = i
ASSUME TemplateAssumption ==
  /\ IssuerRole \in Role
  /\ ResponsibleRole \in [Requirement -> Role]
  /\ Mandatory \subseteq Requirement
ASSUME BoundAssumption == MaxReviews \in Nat /\ MaxActivations \in Nat
ASSUME NoneAssumption == None \notin Institution /\ None \notin [key : Key, expired : BOOLEAN]

VARIABLES
  onboarding,  \* tenant_institutions.onboarding_status
  reviews,     \* institution_onboarding_approvals
  key,         \* institution_signing_keys.status
  status,      \* products.status
  config,      \* product_configurations.configuration_status
  assigned,    \* open rows of product_role_assignments
  evidence,    \* product_evidence_requirements, with the evidence each rests on
  approvals    \* product_activation_approvals

institutions == <<onboarding, reviews>>
products == <<status, config, assigned, evidence, approvals>>
vars == <<institutions, key, products>>

Init ==
  /\ onboarding = [i \in Institution |-> "NONE"]
  /\ reviews = {}
  /\ key = [k \in Key |-> "NONE"]
  /\ status = [p \in Product |-> "NONE"]
  /\ config = [p \in Product |-> "NONE"]
  /\ assigned = [p \in Product |-> [r \in Role |-> None]]
  /\ evidence = [p \in Product |-> [q \in Requirement |-> None]]
  /\ approvals = {}

-----------------------------------------------------------------------------
(* Rounds of a maker and a checker, of institutions and of products.       *)

Row(about, round, role, actor, decision) ==
  [about |-> about, round |-> round, role |-> role, actor |-> actor, decision |-> decision]

Decided(rows, m) ==
  \E c \in rows : c.about = m.about /\ c.round = m.round /\ c.role = "CHECKER"

\* Maker rows without a checker row in their round.
OpenRows(rows, x) ==
  {m \in rows : m.about = x /\ m.role = "MAKER" /\ ~Decided(rows, m)}

Rounds(rows, x) == {m.round : m \in {n \in rows : n.about = x}}

\* One more than the latest round.
NextRound(rows, x, bound) ==
  {n \in 1 .. bound : n - 1 \in Rounds(rows, x) \cup {0} /\ n \notin Rounds(rows, x)}

\* Mutant: who proposed is not asked again at the decision.
MayCheck_Anyone(m, a) == m.actor \in Actor /\ a \in Actor

\* MAKER_CHECKER_CONFLICT, in the service and in a trigger.
MayCheck(m, a) == m.actor # a

-----------------------------------------------------------------------------
(* Institutions and their keys.                                            *)

Approved(i) == onboarding[i] = "APPROVED"

\* The trigger on institutions registers the primary key.
RegisterInstitution(i) ==
  /\ onboarding[i] = "NONE"
  /\ onboarding' = [onboarding EXCEPT ![i] = "DUE_DILIGENCE"]
  /\ key' = [key EXCEPT ![Primary[i]] = "ACTIVE"]
  /\ UNCHANGED <<reviews, products>>

ProposeInstitutionReview(i, a, decision) ==
  /\ onboarding[i] = "DUE_DILIGENCE"
  /\ OpenRows(reviews, i) = {}
  /\ \E n \in NextRound(reviews, i, MaxReviews) :
       reviews' = reviews \cup {Row(i, n, "MAKER", a, decision)}
  /\ UNCHANGED <<onboarding, key, products>>

\* The checker confirms the maker's verdict, or returns the review.
Outcome(proposal, decision) ==
  IF decision = "REJECT" THEN "DUE_DILIGENCE"
  ELSE IF proposal = "APPROVE" THEN "APPROVED" ELSE "REJECTED"

DecideInstitutionReview(i, m, a, decision) ==
  /\ onboarding[i] = "DUE_DILIGENCE"
  /\ m \in OpenRows(reviews, i)
  /\ MayCheck(m, a)
  /\ reviews' = reviews \cup {Row(i, m.round, "CHECKER", a, decision)}
  /\ onboarding' = [onboarding EXCEPT ![i] = Outcome(m.decision, decision)]
  /\ UNCHANGED <<key, products>>

RegisterSigningKey(k) ==
  /\ Approved(OwnerOf[k])
  /\ key[k] = "NONE"
  /\ key' = [key EXCEPT ![k] = "ACTIVE"]
  /\ UNCHANGED <<institutions, products>>

\* Mutant: only configurations in force lose the evidence of a revoked key.
Withdrawn_InForce(k) ==
  [p \in Product |-> [q \in Requirement |->
     IF config[p] = "ACTIVE" /\ evidence[p][q] # None /\ evidence[p][q].key = k
     THEN None ELSE evidence[p][q]]]

\* Requirements that rested on the key are MISSING again.
Withdrawn(k) ==
  [p \in Product |-> [q \in Requirement |->
     IF evidence[p][q] # None /\ evidence[p][q].key = k THEN None ELSE evidence[p][q]]]

\* Configurations in force that lack mandatory evidence.
Suspended(rows) ==
  [p \in Product |->
     IF config[p] = "ACTIVE" /\ \E q \in Mandatory : rows[p][q] = None
     THEN "SUSPENDED" ELSE config[p]]

Paused(configuration) ==
  [p \in Product |->
     IF status[p] = "ACTIVE" /\ configuration[p] = "SUSPENDED" THEN "PAUSED" ELSE status[p]]

\* With the trigger invalidate_evidence_for_signing_key.
RevokeSigningKey(k) ==
  /\ key[k] = "ACTIVE"
  /\ key' = [key EXCEPT ![k] = "REVOKED"]
  /\ evidence' = Withdrawn(k)
  /\ config' = Suspended(Withdrawn(k))
  /\ status' = Paused(Suspended(Withdrawn(k)))
  /\ UNCHANGED <<institutions, assigned, approvals>>

-----------------------------------------------------------------------------
(* Products.                                                               *)

CreateProduct(p, issuer) ==
  /\ status[p] = "NONE"
  /\ Approved(issuer)
  /\ status' = [status EXCEPT ![p] = "DRAFT"]
  /\ config' = [config EXCEPT ![p] = "ROLES_PENDING"]
  /\ assigned' = [assigned EXCEPT ![p][IssuerRole] = issuer]
  /\ UNCHANGED <<institutions, key, evidence, approvals>>

\* #refreshConfigurationStatus, after a row was written: it looks at the roles alone.
Refreshed(holders) ==
  IF \A r \in Role : holders[r] # None THEN "READY_FOR_EVIDENCE" ELSE "ROLES_PENDING"

\* Also while an activation is pending, whose maker row stays open.
AssignRole(p, r, i) ==
  /\ status[p] = "DRAFT"
  /\ Approved(i)
  /\ assigned' = [assigned EXCEPT ![p][r] = i]
  /\ config' = [config EXCEPT ![p] = Refreshed(assigned'[p])]
  /\ UNCHANGED <<institutions, key, status, evidence, approvals>>

\* The checks of the envelope: its source holds the responsible role, its key is
\* registered, active and inside its window, and the signature verifies.
AttachEvidence(p, q, k) ==
  /\ status[p] = "DRAFT"
  /\ Approved(OwnerOf[k])
  /\ assigned[p][ResponsibleRole[q]] = OwnerOf[k]
  /\ key[k] = "ACTIVE"
  /\ evidence' = [evidence EXCEPT ![p][q] = [key |-> k, expired |-> FALSE]]
  /\ UNCHANGED <<institutions, key, status, config, assigned, approvals>>

\* expires_at passes.
ExpireEvidence(p, q) ==
  /\ evidence[p][q] # None
  /\ ~evidence[p][q].expired
  /\ evidence' = [evidence EXCEPT ![p][q] = [key |-> @.key, expired |-> TRUE]]
  /\ UNCHANGED <<institutions, key, status, config, assigned, approvals>>

\* #assertActivationReady: who holds a role now is not compared with the source of
\* the evidence.
ActivationReady(p) ==
  /\ \A r \in Role : assigned[p][r] # None /\ Approved(assigned[p][r])
  /\ \A q \in Mandatory :
       /\ evidence[p][q] # None
       /\ ~evidence[p][q].expired
       /\ key[evidence[p][q].key] = "ACTIVE"

\* Mutant: a proposal is refused only while the configuration is pending.
NothingPending_Status(p) == config[p] # "ACTIVATION_PENDING"

\* ACTIVATION_ALREADY_PENDING
NothingPending(p) == OpenRows(approvals, p) = {}

ProposeActivation(p, a) ==
  /\ status[p] = "DRAFT" /\ config[p] = "READY_FOR_EVIDENCE"
  /\ ActivationReady(p)
  /\ NothingPending(p)
  /\ \E n \in NextRound(approvals, p, MaxActivations) :
       approvals' = approvals \cup {Row(p, n, "MAKER", a, "ACTIVATE")}
  /\ config' = [config EXCEPT ![p] = "ACTIVATION_PENDING"]
  /\ UNCHANGED <<institutions, key, status, assigned, evidence>>

\* The checks both decisions make, and the checker's row.
DecideActivation(p, m, a, decision) ==
  /\ status[p] = "DRAFT" /\ config[p] = "ACTIVATION_PENDING"
  /\ m \in OpenRows(approvals, p)
  /\ MayCheck(m, a)
  /\ approvals' = approvals \cup {Row(p, m.round, "CHECKER", a, decision)}
  /\ UNCHANGED <<institutions, key, assigned, evidence>>

\* The gate is passed again; if it fails, the checker's row is rolled back with it.
ApproveActivation(p, m, a) ==
  /\ DecideActivation(p, m, a, "APPROVE")
  /\ ActivationReady(p)
  /\ status' = [status EXCEPT ![p] = "ACTIVE"]
  /\ config' = [config EXCEPT ![p] = "ACTIVE"]

RejectActivation(p, m, a) ==
  /\ DecideActivation(p, m, a, "REJECT")
  /\ config' = [config EXCEPT ![p] = "READY_FOR_EVIDENCE"]
  /\ UNCHANGED status

Opposite(s) == IF s = "PAUSED" THEN {"ACTIVE"} ELSE {"PAUSED"}

\* DurableWorkflowService.setProductStatus looks at products.status alone.
SetProductStatus(p, s) ==
  /\ status[p] \in Opposite(s)
  /\ status' = [status EXCEPT ![p] = s]
  /\ UNCHANGED <<institutions, key, config, assigned, evidence, approvals>>

-----------------------------------------------------------------------------
Onboarding ==
  \/ \E i \in Institution, a \in Actor, decision \in {"APPROVE", "REJECT"} :
       \/ ProposeInstitutionReview(i, a, decision)
       \/ \E m \in reviews : DecideInstitutionReview(i, m, a, decision)
  \/ \E i \in Institution : RegisterInstitution(i)
  \/ \E k \in Key : RegisterSigningKey(k) \/ RevokeSigningKey(k)

Configuration ==
  \E p \in Product :
    \/ \E i \in Institution : CreateProduct(p, i) \/ \E r \in Role : AssignRole(p, r, i)
    \/ \E q \in Requirement : ExpireEvidence(p, q) \/ \E k \in Key : AttachEvidence(p, q, k)

Activation ==
  \E p \in Product :
    \/ \E a \in Actor :
         \/ ProposeActivation(p, a)
         \/ \E m \in approvals : ApproveActivation(p, m, a) \/ RejectActivation(p, m, a)
    \/ \E s \in {"ACTIVE", "PAUSED"} : SetProductStatus(p, s)

Next == Onboarding \/ Configuration \/ Activation

Spec == Init /\ [][Next]_vars

-----------------------------------------------------------------------------
(* Properties.                                                             *)

RowShape(about, decision) ==
  [about : about, round : Nat \ {0}, role : {"MAKER", "CHECKER"}, actor : Actor,
   decision : decision]

\* The rows keep the shape migrations 018, 019 and 021 give them.
TypeOK ==
  /\ onboarding \in [Institution -> {"NONE", "DUE_DILIGENCE", "APPROVED", "REJECTED"}]
  /\ reviews \subseteq RowShape(Institution, {"APPROVE", "REJECT"})
  /\ key \in [Key -> {"NONE", "ACTIVE", "REVOKED"}]
  /\ status \in [Product -> {"NONE", "DRAFT", "ACTIVE", "PAUSED"}]
  /\ config \in [Product -> {"NONE", "ROLES_PENDING", "READY_FOR_EVIDENCE",
                             "ACTIVATION_PENDING", "ACTIVE", "SUSPENDED"}]
  /\ assigned \in [Product -> [Role -> Institution \cup {None}]]
  /\ evidence \in [Product -> [Requirement -> [key : Key, expired : BOOLEAN] \cup {None}]]
  /\ approvals \subseteq RowShape(Product, {"ACTIVATE", "APPROVE", "REJECT"})

\* Four eyes: whatever was rejected, proposed again, paused or suspended since, a
\* product that has left DRAFT did so by a round in which one person proposed and
\* another approved, and no round has come after it (decideActivation).
ActivationIsAttested ==
  \A p \in Product : status[p] \in {"ACTIVE", "PAUSED"} =>
    \E m, c \in approvals :
      /\ m.about = p /\ m.role = "MAKER"
      /\ c.about = p /\ c.role = "CHECKER" /\ c.decision = "APPROVE"
      /\ m.round = c.round /\ m.actor # c.actor
      /\ \A n \in Rounds(approvals, p) : n <= m.round

\* No requirement, of whatever product and stage, rests on a key that has been
\* revoked, and a configuration in force lacks no mandatory evidence: revocation
\* reaches all of them (invalidate_evidence_for_signing_key).
EvidenceIsAlive ==
  \A p \in Product :
    /\ \A q \in Requirement : evidence[p][q] # None => key[evidence[p][q].key] = "ACTIVE"
    /\ config[p] = "ACTIVE" => \A q \in Mandatory : evidence[p][q] # None

\* At most one activation of a product is open, it is that of the latest round, and
\* a pending configuration has one (proposeActivation, decideActivation).
OneOpenActivation ==
  \A p \in Product :
    /\ \A m, n \in OpenRows(approvals, p) : m = n
    /\ \A m \in OpenRows(approvals, p) : \A n \in Rounds(approvals, p) : n <= m.round
    /\ config[p] = "ACTIVATION_PENDING" => OpenRows(approvals, p) # {}
=============================================================================
