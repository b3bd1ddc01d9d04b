---------------------- MODULE ProductActivation_proofs ----------------------
(***************************************************************************)
(* Safety of the catalogue, for any number of institutions, keys, products *)
(* and people, and any number of rounds.                                   *)
(***************************************************************************)
EXTENDS ProductActivation, TLAPS

\* The rounds of a product are numbered without a gap.
RoundsAreDense ==
  \A p \in Product : \A n \in Rounds(approvals, p) : 1 .. n \subseteq Rounds(approvals, p)

\* A configuration exists, and can be in force, only beside a product that says so.
StatusesAgree ==
  \A p \in Product :
    /\ status[p] = "DRAFT" => config[p] \in {"ROLES_PENDING", "READY_FOR_EVIDENCE", "ACTIVATION_PENDING"}
    /\ status[p] = "NONE" => config[p] = "NONE"

IInv ==
  /\ TypeOK
  /\ RoundsAreDense
  /\ StatusesAgree
  /\ ActivationIsAttested
  /\ EvidenceIsAlive
  /\ OneOpenActivation

-----------------------------------------------------------------------------
(* Rounds.                                                                 *)

\* Rows about one subject leave the rounds of every other as they were.
LEMMA OtherRounds ==
  ASSUME NEW rows, NEW row, NEW x, row.about # x
  PROVE  /\ Rounds(rows \cup {row}, x) = Rounds(rows, x)
         /\ OpenRows(rows \cup {row}, x) = OpenRows(rows, x)
BY DEF Rounds, OpenRows, Decided

\* A round whose predecessor exists and which does not is later than all of them.
LEMMA NextIsLatest ==
  ASSUME NEW p \in Product, TypeOK, RoundsAreDense,
         NEW n \in NextRound(approvals, p, MaxActivations)
  PROVE  /\ n \in Nat \ {0} /\ n \notin Rounds(approvals, p)
         /\ 1 .. n - 1 \subseteq Rounds(approvals, p)
         /\ \A k \in Rounds(approvals, p) : k < n
<1> DEFINE R == Rounds(approvals, p)
<1>1. n \in Nat /\ n >= 1 /\ n \notin R /\ n - 1 \in R \cup {0}
  BY BoundAssumption DEF NextRound
<1>2. R \subseteq Nat \ {0}
  BY DEF TypeOK, RowShape, Rounds
<1>3. \A k \in R : 1 .. k \subseteq R
  BY DEF RoundsAreDense
<1> HIDE DEF R
<1>4. 1 .. n - 1 \subseteq R
  BY <1>1, <1>3
<1>5. ASSUME NEW k \in R PROVE k < n
  <2>1. k \in Nat /\ 1 .. k \subseteq R
    BY <1>2, <1>3
  <2>2. ~(n <= k)
    BY <1>1, <2>1
  <2> QED BY <1>1, <2>1, <2>2
<1> QED BY <1>1, <1>4, <1>5 DEF R

\* A new maker row opens the round it names, where nothing was open before.
LEMMA Opened ==
  ASSUME IInv, NEW p \in Product, NEW a \in Actor, NothingPending(p),
         NEW n \in NextRound(approvals, p, MaxActivations),
         NEW rows, rows = approvals \cup {Row(p, n, "MAKER", a, "ACTIVATE")}
  PROVE  /\ Rounds(rows, p) = Rounds(approvals, p) \cup {n}
         /\ OpenRows(rows, p) = {Row(p, n, "MAKER", a, "ACTIVATE")}
<1> DEFINE row == Row(p, n, "MAKER", a, "ACTIVATE")
<1>1. row.about = p /\ row.round = n /\ row.role = "MAKER"
  BY DEF Row
<1>2. Rounds(rows, p) = Rounds(approvals, p) \cup {n}
  BY <1>1 DEF Rounds
<1>3. n \notin Rounds(approvals, p)
  BY NextIsLatest DEF IInv
<1>4. ~Decided(rows, row)
  BY <1>1, <1>3 DEF Decided, Rounds
<1>5. \A m \in approvals : m.about = p /\ m.role = "MAKER" => Decided(rows, m)
  BY DEF NothingPending, OpenRows, Decided
<1> HIDE DEF row
<1>6. OpenRows(rows, p) = {row}
  BY <1>1, <1>4, <1>5 DEF OpenRows, row
<1> QED BY <1>2, <1>6 DEF row

\* The checker's row closes the only round that is open.
LEMMA Closed ==
  ASSUME IInv, NEW p \in Product, NEW m \in OpenRows(approvals, p), NEW a, NEW decision,
         NEW rows, rows = approvals \cup {Row(p, m.round, "CHECKER", a, decision)}
  PROVE  /\ Rounds(rows, p) = Rounds(approvals, p)
         /\ OpenRows(rows, p) = {}
<1> DEFINE row == Row(p, m.round, "CHECKER", a, decision)
<1>1. row.about = p /\ row.round = m.round /\ row.role = "CHECKER"
  BY DEF Row
<1>2. m \in approvals /\ m.about = p
  BY DEF OpenRows
<1>3. Rounds(rows, p) = Rounds(approvals, p)
  BY <1>1, <1>2 DEF Rounds
<1>4. \A k \in OpenRows(approvals, p) : k = m
  BY DEF IInv, OneOpenActivation
<1>5. Decided(rows, m)
  BY <1>1, <1>2 DEF Decided
<1>6. \A k \in approvals : Decided(approvals, k) => Decided(rows, k)
  BY DEF Decided
<1> HIDE DEF row
<1>7. ASSUME NEW k \in OpenRows(rows, p) PROVE FALSE
  <2>1. k \in rows /\ k.about = p /\ k.role = "MAKER" /\ ~Decided(rows, k)
    BY DEF OpenRows
  <2>2. k \in approvals
    BY <1>1, <2>1 DEF row
  <2>3. k \in OpenRows(approvals, p)
    BY <1>6, <2>1, <2>2 DEF OpenRows
  <2> QED BY <1>4, <1>5, <2>1, <2>3
<1> QED BY <1>3, <1>7

-----------------------------------------------------------------------------
(* The inductive invariant.                                                *)

LEMMA InitIInv == Init => IInv
<1> SUFFICES ASSUME Init PROVE IInv
  OBVIOUS
<1>1. TypeOK
  BY DEF Init, TypeOK
<1>2. \A p \in Product : Rounds(approvals, p) = {} /\ OpenRows(approvals, p) = {}
  BY DEF Init, Rounds, OpenRows
<1>3. RoundsAreDense /\ OneOpenActivation
  BY <1>2 DEF Init, RoundsAreDense, OneOpenActivation
<1>4. StatusesAgree /\ ActivationIsAttested /\ EvidenceIsAlive
  BY DEF Init, StatusesAgree, ActivationIsAttested, EvidenceIsAlive
<1> QED BY <1>1, <1>3, <1>4 DEF IInv

\* What a step that writes no approval has to show.
LEMMA NoApproval ==
  ASSUME IInv, UNCHANGED approvals, TypeOK', StatusesAgree', EvidenceIsAlive',
         \A p \in Product :
           /\ status'[p] \in {"ACTIVE", "PAUSED"} => status[p] \in {"ACTIVE", "PAUSED"}
           /\ config'[p] = "ACTIVATION_PENDING" => config[p] = "ACTIVATION_PENDING"
  PROVE  IInv'
<1>1. \A p \in Product : Rounds(approvals', p) = Rounds(approvals, p)
                         /\ OpenRows(approvals', p) = OpenRows(approvals, p)
  OBVIOUS
<1>2. RoundsAreDense' /\ OneOpenActivation'
  BY <1>1 DEF IInv, RoundsAreDense, OneOpenActivation
<1>3. ActivationIsAttested'
  BY <1>1 DEF IInv, ActivationIsAttested
<1> QED BY <1>2, <1>3 DEF IInv

\* Institutions, their reviews and their keys.
LEMMA OnboardingStep == IInv /\ Onboarding => IInv'
<1> SUFFICES ASSUME IInv, Onboarding PROVE IInv'
  OBVIOUS
<1> USE DEF IInv
<1>1. ASSUME NEW i \in Institution, NEW a \in Actor, NEW decision \in {"APPROVE", "REJECT"},
             ProposeInstitutionReview(i, a, decision)
      PROVE  IInv'
  <2>1. PICK n \in NextRound(reviews, i, MaxReviews) :
          reviews' = reviews \cup {Row(i, n, "MAKER", a, decision)}
    BY <1>1 DEF ProposeInstitutionReview
  <2>2. n \in Nat \ {0}
    BY BoundAssumption DEF NextRound
  <2>3. TypeOK'
    BY <1>1, <2>1, <2>2 DEF ProposeInstitutionReview, TypeOK, RowShape, Row, products
  <2> QED BY <1>1, <2>3, NoApproval DEF ProposeInstitutionReview, StatusesAgree, EvidenceIsAlive, products
<1>2. ASSUME NEW i \in Institution, NEW a \in Actor, NEW decision \in {"APPROVE", "REJECT"},
             NEW m \in reviews, DecideInstitutionReview(i, m, a, decision)
      PROVE  IInv'
  <2>1. m.round \in Nat \ {0} /\ m.decision \in {"APPROVE", "REJECT"}
    BY DEF TypeOK, RowShape
  <2>2. Row(i, m.round, "CHECKER", a, decision) \in RowShape(Institution, {"APPROVE", "REJECT"})
    BY <2>1 DEF RowShape, Row
  <2>3. TypeOK'
    BY <1>2, <2>2 DEF DecideInstitutionReview, TypeOK, Outcome, products
  <2> QED BY <1>2, <2>3, NoApproval DEF DecideInstitutionReview, StatusesAgree, EvidenceIsAlive, products
<1>3. ASSUME NEW i \in Institution, RegisterInstitution(i) PROVE IInv'
  <2>1. TypeOK'
    BY <1>3, KeyAssumption DEF RegisterInstitution, TypeOK, products
  <2>2. EvidenceIsAlive'
    BY <1>3, KeyAssumption DEF RegisterInstitution, TypeOK, EvidenceIsAlive, products
  <2> QED BY <1>3, <2>1, <2>2, NoApproval DEF RegisterInstitution, StatusesAgree, products
<1>4. ASSUME NEW k \in Key, RegisterSigningKey(k) PROVE IInv'
  <2>1. TypeOK'
    BY <1>4 DEF RegisterSigningKey, TypeOK, institutions, products
  <2>2. EvidenceIsAlive'
    BY <1>4 DEF RegisterSigningKey, TypeOK, EvidenceIsAlive, institutions, products
  <2> QED BY <1>4, <2>1, <2>2, NoApproval DEF RegisterSigningKey, StatusesAgree, products
<1>5. ASSUME NEW k \in Key, RevokeSigningKey(k) PROVE IInv'
  <2> DEFINE rows == Withdrawn(k)
  <2>1. \A p \in Product, q \in Requirement :
          rows[p][q] = IF evidence[p][q] # None /\ evidence[p][q].key = k
                       THEN None ELSE evidence[p][q]
    BY DEF Withdrawn
  <2>2. rows \in [Product -> [Requirement -> [key : Key, expired : BOOLEAN] \cup {None}]]
    BY DEF Withdrawn, TypeOK
  <2> HIDE DEF rows
  <2>3. \A p \in Product :
          config'[p] = IF config[p] = "ACTIVE" /\ \E q \in Mandatory : rows[p][q] = None
                       THEN "SUSPENDED" ELSE config[p]
    BY <1>5 DEF RevokeSigningKey, Suspended, rows
  <2>4. \A p \in Product :
          status'[p] = IF status[p] = "ACTIVE" /\ config'[p] = "SUSPENDED" THEN "PAUSED" ELSE status[p]
    BY <1>5 DEF RevokeSigningKey, Paused, rows
  <2>5. evidence' = rows
    BY <1>5 DEF RevokeSigningKey, rows
  <2>6. /\ key' = [key EXCEPT ![k] = "REVOKED"]
        /\ UNCHANGED <<onboarding, reviews, assigned, approvals>>
    BY <1>5 DEF RevokeSigningKey, institutions
  <2>7. TypeOK'
    <3>1. config' \in [Product -> {"NONE", "ROLES_PENDING", "READY_FOR_EVIDENCE",
                                   "ACTIVATION_PENDING", "ACTIVE", "SUSPENDED"}]
      BY <1>5 DEF RevokeSigningKey, Suspended, TypeOK
    <3>2. status' \in [Product -> {"NONE", "DRAFT", "ACTIVE", "PAUSED"}]
      BY <1>5 DEF RevokeSigningKey, Paused, TypeOK
    <3> QED BY <2>2, <2>5, <2>6, <3>1, <3>2 DEF TypeOK
  <2>8. StatusesAgree'
    BY <2>3, <2>4 DEF StatusesAgree, TypeOK
  <2>9. EvidenceIsAlive'
    <3>1. ASSUME NEW p \in Product, NEW q \in Requirement, evidence'[p][q] # None
          PROVE  key'[evidence'[p][q].key] = "ACTIVE"
      <4>1. evidence'[p][q] = evidence[p][q] /\ evidence[p][q].key # k
        BY <2>1, <2>5, <3>1
      <4>2. evidence[p][q] \in [key : Key, expired : BOOLEAN]
        BY <3>1, <4>1 DEF TypeOK
      <4>3. key[evidence[p][q].key] = "ACTIVE"
        BY <3>1, <4>1 DEF EvidenceIsAlive
      <4> QED BY <2>6, <4>1, <4>2, <4>3 DEF TypeOK
    <3>2. ASSUME NEW p \in Product, NEW q \in Mandatory, config'[p] = "ACTIVE"
          PROVE  evidence'[p][q] # None
      BY <2>3, <2>5, <3>2
    <3> QED BY <3>1, <3>2 DEF EvidenceIsAlive
  <2>10. \A p \in Product :
           /\ status'[p] \in {"ACTIVE", "PAUSED"} => status[p] \in {"ACTIVE", "PAUSED"}
           /\ config'[p] = "ACTIVATION_PENDING" => config[p] = "ACTIVATION_PENDING"
    BY <2>3, <2>4
  <2> QED BY <2>6, <2>7, <2>8, <2>9, <2>10, NoApproval
<1> QED BY <1>1, <1>2, <1>3, <1>4, <1>5 DEF Onboarding

\* Products before their activation.
LEMMA ConfigurationStep == IInv /\ Configuration => IInv'
<1> SUFFICES ASSUME IInv, NEW p \in Product,
                    \/ \E i \in Institution : CreateProduct(p, i) \/ \E r \in Role : AssignRole(p, r, i)
                    \/ \E q \in Requirement : ExpireEvidence(p, q) \/ \E k \in Key : AttachEvidence(p, q, k)
             PROVE  IInv'
  BY DEF Configuration
<1> USE DEF IInv
<1>1. ASSUME NEW i \in Institution, CreateProduct(p, i) PROVE IInv'
  <2>1. TypeOK'
    BY <1>1, TemplateAssumption DEF CreateProduct, TypeOK, institutions
  <2>2. StatusesAgree' /\ EvidenceIsAlive'
    BY <1>1 DEF CreateProduct, TypeOK, StatusesAgree, EvidenceIsAlive
  <2> QED BY <1>1, <2>1, <2>2, NoApproval DEF CreateProduct, TypeOK
<1>2. ASSUME NEW i \in Institution, NEW r \in Role, AssignRole(p, r, i) PROVE IInv'
  <2>1. config' = [config EXCEPT ![p] = Refreshed(assigned'[p])]
          /\ Refreshed(assigned'[p]) \in {"READY_FOR_EVIDENCE", "ROLES_PENDING"}
    BY <1>2 DEF AssignRole, Refreshed
  <2>2. /\ status[p] = "DRAFT" /\ assigned' = [assigned EXCEPT ![p][r] = i]
        /\ UNCHANGED <<onboarding, reviews, key, status, evidence, approvals>>
    BY <1>2 DEF AssignRole, institutions
  <2>3. TypeOK'
    BY <2>1, <2>2 DEF TypeOK
  <2>4. StatusesAgree' /\ EvidenceIsAlive'
    <3>1. \A o \in Product : config'[o] \in {config[o], "READY_FOR_EVIDENCE", "ROLES_PENDING"}
      BY <2>1 DEF TypeOK
    <3>2. \A o \in Product : o # p => config'[o] = config[o]
      BY <2>1 DEF TypeOK
    <3>3. StatusesAgree'
      BY <2>2, <3>1, <3>2 DEF StatusesAgree
    <3>4. EvidenceIsAlive'
      BY <2>2, <3>1 DEF EvidenceIsAlive
    <3> QED BY <3>3, <3>4
  <2>5. \A o \in Product :
           /\ status'[o] \in {"ACTIVE", "PAUSED"} => status[o] \in {"ACTIVE", "PAUSED"}
           /\ config'[o] = "ACTIVATION_PENDING" => config[o] = "ACTIVATION_PENDING"
    BY <2>1, <2>2 DEF TypeOK
  <2>6. UNCHANGED approvals
    BY <2>2
  <2> HIDE DEF IInv
  <2> QED BY <2>3, <2>4, <2>5, <2>6, NoApproval
<1>3. ASSUME NEW q \in Requirement, NEW row \in [key : Key, expired : BOOLEAN], key[row.key] = "ACTIVE",
             evidence' = [evidence EXCEPT ![p][q] = row],
             UNCHANGED <<onboarding, reviews, key, status, config, assigned, approvals>>
      PROVE  IInv'
  <2>1. TypeOK'
    BY <1>3 DEF TypeOK
  <2>2. \A o \in Product, r \in Requirement :
          evidence'[o][r] = IF o = p /\ r = q THEN row ELSE evidence[o][r]
    BY <1>3 DEF TypeOK
  <2>3. EvidenceIsAlive'
    <3>1. row # None
      BY NoneAssumption
    <3>2. \A o \in Product, r \in Requirement : evidence'[o][r] # None => key[evidence'[o][r].key] = "ACTIVE"
      BY <1>3, <2>2 DEF EvidenceIsAlive
    <3>3. \A o \in Product : config[o] = "ACTIVE" => \A r \in Mandatory : evidence'[o][r] # None
      BY <2>2, <3>1, TemplateAssumption DEF EvidenceIsAlive
    <3> QED BY <1>3, <3>2, <3>3 DEF EvidenceIsAlive
  <2>4. StatusesAgree'
    BY <1>3 DEF StatusesAgree
  <2> QED BY <1>3, <2>1, <2>3, <2>4, NoApproval
<1>4. ASSUME NEW q \in Requirement, ExpireEvidence(p, q) PROVE IInv'
  <2>1. evidence[p][q] \in [key : Key, expired : BOOLEAN]
    BY <1>4 DEF ExpireEvidence, TypeOK
  <2>2. /\ evidence' = [evidence EXCEPT ![p][q] = [key |-> evidence[p][q].key, expired |-> TRUE]]
        /\ UNCHANGED <<onboarding, reviews, key, status, config, assigned, approvals>>
    BY <1>4 DEF ExpireEvidence, institutions
  <2>3. key[evidence[p][q].key] = "ACTIVE"
    BY <1>4 DEF ExpireEvidence, EvidenceIsAlive
  <2> DEFINE row == [key |-> evidence[p][q].key, expired |-> TRUE]
  <2>4. row \in [key : Key, expired : BOOLEAN] /\ key[row.key] = "ACTIVE"
    BY <2>1, <2>3
  <2> QED BY <1>3, <2>2, <2>4
<1>5. ASSUME NEW q \in Requirement, NEW k \in Key, AttachEvidence(p, q, k) PROVE IInv'
  <2> DEFINE row == [key |-> k, expired |-> FALSE]
  <2>1. row \in [key : Key, expired : BOOLEAN] /\ key[row.key] = "ACTIVE"
    BY <1>5 DEF AttachEvidence
  <2>2. /\ evidence' = [evidence EXCEPT ![p][q] = row]
        /\ UNCHANGED <<onboarding, reviews, key, status, config, assigned, approvals>>
    BY <1>5 DEF AttachEvidence, institutions
  <2> QED BY <1>3, <2>1, <2>2
<1> QED BY <1>1, <1>2, <1>4, <1>5

\* What ActivationIsAttested says of one product.
Attested(p) ==
  status[p] \in {"ACTIVE", "PAUSED"} =>
    \E m, c \in approvals :
      /\ m.about = p /\ m.role = "MAKER"
      /\ c.about = p /\ c.role = "CHECKER" /\ c.decision = "APPROVE"
      /\ m.round = c.round /\ m.actor # c.actor
      /\ \A n \in Rounds(approvals, p) : n <= m.round

\* Rows about other products take nothing from it.
LEMMA AttestedStays ==
  ASSUME NEW p \in Product, ActivationIsAttested, approvals \subseteq approvals',
         Rounds(approvals', p) = Rounds(approvals, p),
         status'[p] \in {"ACTIVE", "PAUSED"} => status[p] \in {"ACTIVE", "PAUSED"}
  PROVE  Attested(p)'
<1> SUFFICES ASSUME status'[p] \in {"ACTIVE", "PAUSED"} PROVE Attested(p)'
  BY DEF Attested
<1>1. PICK m \in approvals, c \in approvals :
        /\ m.about = p /\ m.role = "MAKER"
        /\ c.about = p /\ c.role = "CHECKER" /\ c.decision = "APPROVE"
        /\ m.round = c.round /\ m.actor # c.actor
        /\ \A n \in Rounds(approvals, p) : n <= m.round
  BY DEF ActivationIsAttested
<1>2. m \in approvals' /\ c \in approvals' /\ \A n \in Rounds(approvals', p) : n <= m.round
  BY <1>1
<1> QED BY <1>1, <1>2 DEF Attested

\* The maker of an activation.
LEMMA ProposeStep ==
  ASSUME IInv, NEW p \in Product, NEW a \in Actor, ProposeActivation(p, a)
  PROVE  IInv'
<1> USE DEF IInv
<1>1. PICK n \in NextRound(approvals, p, MaxActivations) :
        approvals' = approvals \cup {Row(p, n, "MAKER", a, "ACTIVATE")}
  BY DEF ProposeActivation
<1>2. n \in Nat \ {0} /\ 1 .. n - 1 \subseteq Rounds(approvals, p)
        /\ \A k \in Rounds(approvals, p) : k < n
  BY NextIsLatest
<1>3. /\ Rounds(approvals', p) = Rounds(approvals, p) \cup {n}
      /\ OpenRows(approvals', p) = {Row(p, n, "MAKER", a, "ACTIVATE")}
  BY <1>1, Opened DEF ProposeActivation
<1>4. ASSUME NEW o \in Product, o # p
      PROVE  Rounds(approvals', o) = Rounds(approvals, o) /\ OpenRows(approvals', o) = OpenRows(approvals, o)
  BY <1>1, <1>4, OtherRounds DEF Row
<1>5. /\ status[p] = "DRAFT" /\ config' = [config EXCEPT ![p] = "ACTIVATION_PENDING"]
      /\ UNCHANGED <<onboarding, reviews, key, status, assigned, evidence>>
  BY DEF ProposeActivation, institutions
<1>6. TypeOK'
  <2>1. Row(p, n, "MAKER", a, "ACTIVATE") \in RowShape(Product, {"ACTIVATE", "APPROVE", "REJECT"})
    BY <1>2 DEF Row, RowShape
  <2> QED BY <1>1, <1>5, <2>1 DEF TypeOK
<1>7. RoundsAreDense'
  <2>1. ASSUME NEW k \in Rounds(approvals', p) PROVE 1 .. k \subseteq Rounds(approvals', p)
    <3>1. CASE k = n
      BY <1>2, <1>3, <3>1
    <3>2. CASE k # n
      BY <1>3, <2>1, <3>2 DEF RoundsAreDense
    <3> QED BY <3>1, <3>2
  <2> QED BY <1>4, <2>1 DEF RoundsAreDense
<1>8. OneOpenActivation'
  <2>1. \A k \in Rounds(approvals', p) : k <= n
    <3>1. Rounds(approvals, p) \subseteq Nat
      BY DEF TypeOK, RowShape, Rounds
    <3> QED BY <1>2, <1>3, <3>1
  <2>2. \A m \in OpenRows(approvals', p) : m = Row(p, n, "MAKER", a, "ACTIVATE") /\ m.round = n
    BY <1>3 DEF Row
  <2>3. OpenRows(approvals', p) # {}
    BY <1>3
  <2> QED BY <1>4, <1>5, <2>1, <2>2, <2>3 DEF OneOpenActivation, TypeOK
<1>9. ActivationIsAttested'
  <2>1. ASSUME NEW o \in Product PROVE Attested(o)'
    <3>1. CASE o = p
      BY <1>5, <3>1 DEF Attested
    <3>2. CASE o # p
      BY <1>1, <1>4, <1>5, <3>2, AttestedStays
    <3> QED BY <3>1, <3>2
  <2> QED BY <2>1 DEF Attested, ActivationIsAttested
<1>10. StatusesAgree' /\ EvidenceIsAlive'
  BY <1>5 DEF TypeOK, StatusesAgree, EvidenceIsAlive
<1> QED BY <1>6, <1>7, <1>8, <1>9, <1>10

\* The checker of an activation, who approves or rejects it.
LEMMA DecideStep ==
  ASSUME IInv, NEW p \in Product, NEW m \in approvals, NEW a \in Actor,
         ApproveActivation(p, m, a) \/ RejectActivation(p, m, a)
  PROVE  IInv'
<1> USE DEF IInv
<1>1. PICK decision \in {"APPROVE", "REJECT"} :
        /\ DecideActivation(p, m, a, decision)
        /\ decision = "APPROVE" => ApproveActivation(p, m, a)
        /\ decision = "REJECT" => RejectActivation(p, m, a)
  BY DEF ApproveActivation, RejectActivation
<1> DEFINE row == Row(p, m.round, "CHECKER", a, decision)
<1>2. /\ m \in OpenRows(approvals, p) /\ m.actor # a
      /\ approvals' = approvals \cup {row}
      /\ UNCHANGED <<onboarding, reviews, key, assigned, evidence>>
      /\ status[p] = "DRAFT" /\ config[p] = "ACTIVATION_PENDING"
  BY <1>1 DEF DecideActivation, MayCheck, institutions
<1>3. row.about = p /\ row.round = m.round /\ row.role = "CHECKER" /\ row.actor = a
        /\ row.decision = decision
  BY DEF Row
<1>4. m.about = p /\ m.role = "MAKER" /\ m.round \in Nat \ {0}
  BY <1>2 DEF OpenRows, TypeOK, RowShape
<1>5. row \in RowShape(Product, {"ACTIVATE", "APPROVE", "REJECT"})
  BY <1>4 DEF Row, RowShape
<1>6. Rounds(approvals', p) = Rounds(approvals, p) /\ OpenRows(approvals', p) = {}
  BY <1>2, Closed
<1>7. ASSUME NEW o \in Product, o # p
      PROVE  Rounds(approvals', o) = Rounds(approvals, o) /\ OpenRows(approvals', o) = OpenRows(approvals, o)
  BY <1>2, <1>3, <1>7, OtherRounds
<1> HIDE DEF row
<1>8. \/ /\ decision = "APPROVE" /\ ActivationReady(p)
         /\ status' = [status EXCEPT ![p] = "ACTIVE"] /\ config' = [config EXCEPT ![p] = "ACTIVE"]
      \/ /\ decision = "REJECT" /\ UNCHANGED status
         /\ config' = [config EXCEPT ![p] = "READY_FOR_EVIDENCE"]
  BY <1>1 DEF ApproveActivation, RejectActivation
<1>9. TypeOK'
  BY <1>2, <1>5, <1>8 DEF TypeOK
<1>10. RoundsAreDense'
  BY <1>6, <1>7 DEF RoundsAreDense
<1>11. OneOpenActivation'
  BY <1>6, <1>7, <1>8 DEF OneOpenActivation, TypeOK
<1>12. StatusesAgree'
  BY <1>2, <1>8 DEF StatusesAgree, TypeOK
<1>13. EvidenceIsAlive'
  BY <1>2, <1>8 DEF EvidenceIsAlive, TypeOK, ActivationReady
<1>14. ActivationIsAttested'
  <2>1. \A o \in Product \ {p} : status'[o] \in {"ACTIVE", "PAUSED"} => status[o] \in {"ACTIVE", "PAUSED"}
    BY <1>8 DEF TypeOK
  <2>2. ASSUME NEW o \in Product \ {p} PROVE Attested(o)'
    <3>1. Rounds(approvals', o) = Rounds(approvals, o)
      BY <1>7
    <3>2. status'[o] \in {"ACTIVE", "PAUSED"} => status[o] \in {"ACTIVE", "PAUSED"}
      BY <2>1
    <3>3. approvals \subseteq approvals'
      BY <1>2
    <3>4. ActivationIsAttested
      OBVIOUS
    <3> HIDE DEF IInv
    <3> QED BY <3>1, <3>2, <3>3, <3>4, AttestedStays
  <2>3. Attested(p)'
    <3>1. \A n \in Rounds(approvals', p) : n <= m.round
      BY <1>2, <1>6 DEF OneOpenActivation
    <3>2. status'[p] \in {"ACTIVE", "PAUSED"} => decision = "APPROVE"
      BY <1>2, <1>8
    <3>3. m \in approvals' /\ row \in approvals'
      BY <1>2
    <3> QED BY <1>2, <1>3, <1>4, <3>1, <3>2, <3>3 DEF Attested
  <2> QED BY <2>2, <2>3 DEF Attested, ActivationIsAttested
<1> QED BY <1>9, <1>10, <1>11, <1>12, <1>13, <1>14

LEMMA ActivationStep == IInv /\ Activation => IInv'
<1> SUFFICES ASSUME IInv, Activation PROVE IInv'
  OBVIOUS
<1>1. ASSUME NEW p \in Product, NEW s \in {"ACTIVE", "PAUSED"}, SetProductStatus(p, s) PROVE IInv'
  <2>1. /\ status[p] \in {"ACTIVE", "PAUSED"} /\ status' = [status EXCEPT ![p] = s]
        /\ UNCHANGED <<onboarding, reviews, key, config, assigned, evidence, approvals>>
    BY <1>1 DEF SetProductStatus, Opposite, institutions
  <2>2. TypeOK' /\ StatusesAgree' /\ EvidenceIsAlive'
    BY <2>1 DEF IInv, TypeOK, StatusesAgree, EvidenceIsAlive
  <2> QED BY <2>1, <2>2, NoApproval DEF IInv, TypeOK
<1> QED BY <1>1, ProposeStep, DecideStep DEF Activation

\* The inductive invariant of the catalogue: rows keep their shape, rounds are numbered
\* without a gap and open one at a time, statuses and configurations agree, and evidence
\* rests on active keys (all of ProductCatalogService and its triggers).
THEOREM ActivationInvariance == Spec => []IInv
<1>1. IInv /\ UNCHANGED vars => IInv'
  <2> SUFFICES ASSUME IInv, UNCHANGED vars PROVE IInv'
    OBVIOUS
  <2>1. UNCHANGED <<onboarding, reviews, key, status, config, assigned, evidence, approvals>>
    BY DEF vars, institutions, products
  <2>2. TypeOK' /\ StatusesAgree' /\ EvidenceIsAlive'
    BY <2>1 DEF IInv, TypeOK, StatusesAgree, EvidenceIsAlive
  <2> QED BY <2>1, <2>2, NoApproval
<1>2. IInv /\ [Next]_vars => IInv'
  BY <1>1, OnboardingStep, ConfigurationStep, ActivationStep DEF Next
<1> QED BY <1>2, InitIInv, PTL DEF Spec

\* A product that left DRAFT was proposed by one person and approved by another in its
\* last round, whatever came before and since (decideActivation).
THEOREM ActivationFourEyes == Spec => []ActivationIsAttested
<1>1. IInv => ActivationIsAttested
  BY DEF IInv
<1> QED BY <1>1, ActivationInvariance, PTL

\* No requirement rests on a revoked key, and a configuration in force has its mandatory
\* evidence (the triggers of migration 021).
THEOREM RevocationReachesEvidence == Spec => []EvidenceIsAlive
<1>1. IInv => EvidenceIsAlive
  BY DEF IInv
<1> QED BY <1>1, ActivationInvariance, PTL

\* One activation of a product is open at a time, and it is the latest
\* (ACTIVATION_ALREADY_PENDING).
THEOREM ActivationsAreSequential == Spec => []OneOpenActivation
<1>1. IInv => OneOpenActivation
  BY DEF IInv
<1> QED BY <1>1, ActivationInvariance, PTL
=============================================================================
