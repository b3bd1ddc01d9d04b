------------------- MODULE ConfidentialSettlement_proofs -------------------
(***************************************************************************)
(* Proofs about ConfidentialSettlement for every set of transfers, notes,  *)
(* parties, operators and calls. The inductive invariant says what the     *)
(* rows of one transfer owe each other; the safety properties follow.      *)
(***************************************************************************)
EXTENDS ConfidentialSettlement, SequenceTheorems, FiniteSetTheorems, TLAPS

-----------------------------------------------------------------------------
(* The inductive invariant.                                                *)

\* An authorization, once inserted, names a JoinSplit of two distinct inputs.
AuthorizationBound ==
  \A t \in Tx : authz[t].status # "NONE" =>
    /\ authz[t].js \in JoinSplit
    /\ authz[t].js.in0 # authz[t].js.in1

\* What a call of `accept` carries across its await is what the row still says:
\* the authorization is immutable.
CallBound ==
  \A c \in Call : call[c].phase # "IDLE" =>
    /\ call[c].tx \in Tx
    /\ authz[call[c].tx].status # "NONE"
    /\ call[c].js = authz[call[c].tx].js
    /\ call[c].root = authz[call[c].tx].root

\* Acceptance writes the transaction, the authorization, the nullifiers and the
\* commitments together, and nothing takes one of them back.
AcceptanceAtomic ==
  /\ \A t \in Tx : Accepted(t) <=> authz[t].status = "VERIFIED"
  /\ \A t \in Tx, n \in Note :
       spentBy[n] = t <=> Accepted(t) /\ n \in Inputs(authz[t].js)
  /\ \A t \in Tx : outputs[t] = IF Accepted(t) THEN Outputs(authz[t].js) ELSE << >>

IInv == TypeOK /\ AuthorizationBound /\ CallBound /\ AcceptanceAtomic

-----------------------------------------------------------------------------
\* The outputs of a JoinSplit are a sequence of two notes.
LEMMA OutputsType ==
  ASSUME NEW js \in JoinSplits
  PROVE  /\ Outputs(js) \in Seq(Note)
         /\ Len(Outputs(js)) = 2
         /\ Leaves(Outputs(js)) = {js.out0, js.out1}
BY DEF Outputs, Leaves, JoinSplits

\* The initial state satisfies the inductive invariant.
LEMMA InitIInv == Init => IInv
<1> SUFFICES ASSUME Init PROVE IInv
  OBVIOUS
<1>1. TypeOK
  BY TreeAssumption, NoneAssumption
  DEF Init, TypeOK, Instruction, Authorization, AcceptCall, Proposal, OwnerKey,
      NoInstruction, NoAuthorization, NoProposal, Idle
<1>2. AuthorizationBound
  BY DEF Init, AuthorizationBound, NoAuthorization
<1>3. CallBound
  BY DEF Init, CallBound, Idle
<1>4. AcceptanceAtomic
  BY NoneAssumption DEF Init, AcceptanceAtomic, Accepted, NoAuthorization
<1> QED BY <1>1, <1>2, <1>3, <1>4 DEF IInv

\* The updates of a row keep it in shape.
LEMMA ProposalUpdates ==
  ASSUME NEW row \in Proposal, NEW q \in Operator
  PROVE  /\ [row EXCEPT !.status = "CANCELLED"] \in Proposal
         /\ [[row EXCEPT !.status = "APPROVED"] EXCEPT !.approver = q] \in Proposal
BY DEF Proposal

LEMMA CallUpdate ==
  ASSUME NEW row \in AcceptCall PROVE [row EXCEPT !.phase = "VERIFIED"] \in AcceptCall
BY DEF AcceptCall

LEMMA KeyUpdate ==
  ASSUME NEW row \in OwnerKey PROVE [row EXCEPT !.status = "REVOKED"] \in OwnerKey
BY DEF OwnerKey

LEMMA AuthorizationUpdate ==
  ASSUME NEW row \in Authorization PROVE [row EXCEPT !.status = "VERIFIED"] \in Authorization
BY DEF Authorization

\* Withdrawing a proposal keeps its row in shape.
LEMMA WithdrawType ==
  ASSUME NEW t \in Tx, TypeOK, Withdraw(t)
  PROVE  proposal' \in [Tx -> Proposal] /\ outbox' \in [Tx -> SUBSET Topic]
<1>1. \A row \in Proposal : [row EXCEPT !.status = "CANCELLED"] \in Proposal
  BY DEF Proposal
<1>2. proposal' \in [Tx -> Proposal]
  BY <1>1 DEF TypeOK, Withdraw
<1>3. outbox' \in [Tx -> SUBSET Topic]
  BY DEF TypeOK, Withdraw, Topic
<1> QED BY <1>2, <1>3

\* Every step keeps the rows in shape, given what the invariant says of a call
\* that is about to commit.
LEMMA TypeStep == IInv /\ [Next]_vars => TypeOK'
<1> SUFFICES ASSUME IInv, [Next]_vars PROVE TypeOK'
  OBVIOUS
<1> USE DEF IInv, TypeOK, vars, partyVars, gateVars, finalityVars
<1>1. CASE \E s \in {"ACTIVE", "PAUSED"} : SetProductStatus(s)
  BY <1>1 DEF SetProductStatus
<1>2. CASE RetirePolicy
  BY <1>2 DEF RetirePolicy
<1>3. CASE \E p \in Party : RestrictCredential(p)
  BY <1>3 DEF RestrictCredential
<1>4. CASE \E k \in Key, p \in Party : RegisterOwnerKey(k, p)
  BY <1>4 DEF RegisterOwnerKey, OwnerKey
<1>5. CASE \E k \in Key : RevokeOwnerKey(k)
  BY <1>5, KeyUpdate DEF RevokeOwnerKey
<1>6. CASE \E t \in Tx : ExpireInstruction(t)
  <2>1. PICK t \in Tx : ExpireInstruction(t)
    BY <1>6
  <2>2. instr' \in [Tx -> Instruction]
    <3>1. instr[t] \in Instruction
      OBVIOUS
    <3>2. [instr[t] EXCEPT !.expired = TRUE] \in Instruction
      BY <3>1 DEF Instruction
    <3> QED BY <2>1, <3>2 DEF ExpireInstruction
  <2> QED BY <2>1, <2>2 DEF ExpireInstruction
<1>7. CASE \E r \in historical : ExpireRoot(r)
  BY <1>7 DEF ExpireRoot
<1>8. CASE \E t \in Tx, s, r \in Party, k \in Key : Prepare(t, s, r, k)
  BY <1>8 DEF Prepare, Instruction, Topic
<1>9. CASE \E t \in Tx, js \in JoinSplit, r \in KnownRoots : Authorize(t, js, r)
  BY <1>9 DEF Authorize, Authorization, KnownRoots, Proposal
<1>10. CASE \E c \in Call, t \in Tx : AcceptRead(c, t)
  BY <1>10 DEF AcceptRead, AcceptCall, Authorization
<1>11. CASE \E c \in Call : VerifyProof(c)
  <2>1. PICK c \in Call : VerifyProof(c)
    BY <1>11
  <2>2. [call[c] EXCEPT !.phase = "VERIFIED"] \in AcceptCall
    BY <2>1, CallUpdate
  <2>3. call' \in [Call -> AcceptCall]
    BY <2>1, <2>2 DEF VerifyProof
  <2> QED BY <2>1, <2>3 DEF VerifyProof
<1>12. CASE \E c \in Call : AcceptAbandon(c)
  BY <1>12 DEF AcceptAbandon, AcceptCall, Idle
<1>13. CASE \E c \in Call : AcceptCommit(c)
  <2>1. PICK c \in Call : AcceptCommit(c)
    BY <1>13
  <2> DEFINE t == call[c].tx
             js == call[c].js
  <2>2. t \in Tx /\ js \in JoinSplits
    BY <2>1, JoinSplitAssumption DEF AcceptCommit, CallBound, AuthorizationBound
  <2>3. Outputs(js) \in Seq(Note)
    BY <2>2, OutputsType
  <2>4. /\ spentBy' \in [Note -> Tx \cup {None}]
        /\ outputs' \in [Tx -> Seq(Note)]
    BY <2>1, <2>2, <2>3 DEF AcceptCommit
  <2>5. authz' \in [Tx -> Authorization]
    BY <2>1, <2>2, AuthorizationUpdate DEF AcceptCommit
  <2>6. /\ tx' \in [Tx -> {"NONE", "PROOF_PENDING", "ROOT_PENDING", "SETTLED"}]
        /\ settlement' \in [Tx -> {"NONE", "ROOT_PENDING", "FINAL"}]
        /\ outbox' \in [Tx -> SUBSET Topic]
    BY <2>1, <2>2 DEF AcceptCommit, Topic
  <2>7. call' \in [Call -> AcceptCall]
    BY <2>1 DEF AcceptCommit, AcceptCall, Idle
  <2> QED BY <2>1, <2>4, <2>5, <2>6, <2>7 DEF AcceptCommit
<1>14. CASE \E t \in Tx, p \in Operator : ProposeFinalization(t, p)
  <2>1. PICK t \in Tx, p \in Operator : ProposeFinalization(t, p)
    BY <1>14
  <2>2. Extension(t) \in Seq(Note)
    BY DEF Extension
  <2>3. proposal' \in [Tx -> Proposal] /\ outbox' \in [Tx -> SUBSET Topic]
    BY <2>1, <2>2 DEF ProposeFinalization, Proposal, Topic
  <2> QED BY <2>1, <2>3 DEF ProposeFinalization
<1>15. CASE \E t \in Tx : CancelFinalization(t)
  <2>1. PICK t \in Tx : CancelFinalization(t)
    BY <1>15
  <2> QED BY <2>1, WithdrawType DEF CancelFinalization
<1>16. CASE \E t \in Tx, q \in Operator : FinalizeStale(t, q)
  <2>1. PICK t \in Tx, q \in Operator : FinalizeStale(t, q)
    BY <1>16
  <2> QED BY <2>1, WithdrawType DEF FinalizeStale
<1>17. CASE \E t \in Tx, q \in Operator : FinalizePublish(t, q)
  <2>1. PICK t \in Tx, q \in Operator : FinalizePublish(t, q)
    BY <1>17
  <2>2. proposal[t].output \in Seq(Note)
    BY DEF Proposal
  <2>3. proposal' \in [Tx -> Proposal] /\ outbox' \in [Tx -> SUBSET Topic]
    <3>1. [[proposal[t] EXCEPT !.status = "APPROVED"] EXCEPT !.approver = q] \in Proposal
      BY ProposalUpdates
    <3>2. proposal' = [proposal EXCEPT ![t] =
                        [[proposal[t] EXCEPT !.status = "APPROVED"] EXCEPT !.approver = q]]
      BY <2>1 DEF FinalizePublish
    <3>3. outbox' \in [Tx -> SUBSET Topic]
      BY <2>1 DEF FinalizePublish, Topic
    <3> QED BY <3>1, <3>2, <3>3
  <2>4. /\ tx' \in [Tx -> {"NONE", "PROOF_PENDING", "ROOT_PENDING", "SETTLED"}]
        /\ settlement' \in [Tx -> {"NONE", "ROOT_PENDING", "FINAL"}]
    BY <2>1 DEF FinalizePublish
  <2>5. tree' \in Seq(Note) /\ historical' \subseteq Seq(Note) /\ expiredRoots' \subseteq historical'
    BY <2>1, <2>2 DEF FinalizePublish
  <2> QED BY <2>1, <2>3, <2>4, <2>5 DEF FinalizePublish
<1>18. CASE UNCHANGED vars
  BY <1>18
<1> QED
  BY <1>1, <1>2, <1>3, <1>4, <1>5, <1>6, <1>7, <1>8, <1>9, <1>10, <1>11, <1>12, <1>13,
     <1>14, <1>15, <1>16, <1>17, <1>18
  DEF Next, Administration, Clock, Broker, Accept, Operations

-----------------------------------------------------------------------------
\* No step rewrites an authorization or a call in a way the other does not know.
LEMMA BoundStep ==
  IInv /\ [Next]_vars => AuthorizationBound' /\ CallBound'
<1> SUFFICES ASSUME IInv, [Next]_vars PROVE AuthorizationBound' /\ CallBound'
  OBVIOUS
<1> USE DEF IInv, AuthorizationBound, CallBound, vars, partyVars, gateVars, finalityVars
<1>1. CASE UNCHANGED <<authz, call>>
  BY <1>1
<1>2. CASE \E t \in Tx, js \in JoinSplit, r \in KnownRoots : Authorize(t, js, r)
  <2>1. PICK t \in Tx, js \in JoinSplit, r \in KnownRoots : Authorize(t, js, r)
    BY <1>2
  <2>2. /\ authz[t].status = "NONE"
        /\ js.in0 # js.in1
        /\ authz' = [authz EXCEPT ![t] = [status |-> "PENDING", js |-> js, root |-> r]]
        /\ call' = call
    BY <2>1 DEF Authorize
  <2> QED BY <2>2 DEF TypeOK
<1>3. CASE \E c \in Call, t \in Tx : AcceptRead(c, t)
  BY <1>3 DEF AcceptRead, TypeOK
<1>4. CASE \E c \in Call : VerifyProof(c)
  BY <1>4 DEF VerifyProof, TypeOK, AcceptCall
<1>5. CASE \E c \in Call : AcceptAbandon(c)
  BY <1>5 DEF AcceptAbandon, TypeOK, Idle
<1>6. CASE \E c \in Call : AcceptCommit(c)
  <2>1. PICK c \in Call : AcceptCommit(c)
    BY <1>6
  <2>2. /\ authz' = [authz EXCEPT ![call[c].tx].status = "VERIFIED"]
        /\ call' = [call EXCEPT ![c] = Idle]
        /\ call[c].tx \in Tx
    BY <2>1 DEF AcceptCommit
  <2>3. \A t \in Tx : /\ authz'[t].js = authz[t].js
                      /\ authz'[t].root = authz[t].root
                      /\ authz'[t].status # "NONE" <=> authz[t].status # "NONE"
    BY <2>1, <2>2 DEF AcceptCommit, AcceptRecheck, TypeOK, Authorization
  <2> QED BY <2>2, <2>3 DEF TypeOK, Idle
<1> QED
  BY <1>1, <1>2, <1>3, <1>4, <1>5, <1>6
  DEF Next, Administration, Clock, Broker, Accept, Operations, SetProductStatus, RetirePolicy,
      RestrictCredential, RegisterOwnerKey, RevokeOwnerKey, ExpireInstruction, ExpireRoot,
      Prepare, ProposeFinalization, CancelFinalization, FinalizeStale, FinalizePublish

\* Acceptance is one step: it moves the transaction, its authorization, its two
\* nullifiers and its two commitments together, and no other step moves any.
LEMMA AtomicStep == IInv /\ [Next]_vars => AcceptanceAtomic'
<1> SUFFICES ASSUME IInv, [Next]_vars PROVE AcceptanceAtomic'
  OBVIOUS
<1> USE DEF IInv, vars, partyVars, gateVars, finalityVars
<1>1. CASE UNCHANGED <<tx, authz, spentBy, outputs>>
  BY <1>1 DEF AcceptanceAtomic, Accepted
<1>2. CASE \E t \in Tx, s, r \in Party, k \in Key : Prepare(t, s, r, k)
  BY <1>2 DEF Prepare, AcceptanceAtomic, Accepted, TypeOK
<1>3. CASE \E t \in Tx, js \in JoinSplit, r \in KnownRoots : Authorize(t, js, r)
  BY <1>3 DEF Authorize, AcceptanceAtomic, Accepted, TypeOK
<1>4. CASE \E c \in Call : AcceptCommit(c)
  <2>1. PICK c \in Call : AcceptCommit(c)
    BY <1>4
  <2> DEFINE u == call[c].tx
             js == call[c].js
  <2>2. u \in Tx /\ js = authz[u].js /\ js \in JoinSplits
    BY <2>1, JoinSplitAssumption DEF AcceptCommit, CallBound, AuthorizationBound
  <2>3. tx[u] = "PROOF_PENDING" /\ ~Accepted(u)
    BY <2>1 DEF AcceptCommit, AcceptRecheck, Accepted
  <2>4. /\ tx' = [tx EXCEPT ![u] = "ROOT_PENDING"]
        /\ authz' = [authz EXCEPT ![u].status = "VERIFIED"]
        /\ spentBy' = [n \in Note |-> IF n \in Inputs(js) THEN u ELSE spentBy[n]]
        /\ outputs' = [outputs EXCEPT ![u] = Outputs(js)]
    BY <2>1 DEF AcceptCommit
  <2>5. \A t \in Tx : /\ authz'[t].js = authz[t].js
                      /\ authz'[t].status = IF t = u THEN "VERIFIED" ELSE authz[t].status
                      /\ Accepted(t)' <=> t = u \/ Accepted(t)
                      /\ outputs'[t] = IF t = u THEN Outputs(js) ELSE outputs[t]
    BY <2>2, <2>4 DEF TypeOK, Authorization, Accepted
  <2>6. \A n \in Inputs(js) : spentBy[n] = None
    BY <2>1 DEF AcceptCommit, NullifiersUnspent
  <2>7. \A t \in Tx, n \in Note :
          spentBy'[n] = t <=> Accepted(t)' /\ n \in Inputs(authz'[t].js)
    <3> TAKE t \in Tx, n \in Note
    <3>1. CASE t = u
      BY <3>1, <2>2, <2>3, <2>4, <2>5 DEF AcceptanceAtomic
    <3>2. CASE t # u /\ n \in Inputs(js)
      <4>1. spentBy[n] # t
        BY <3>2, <2>6, NoneAssumption
      <4> QED BY <3>2, <4>1, <2>4, <2>5 DEF AcceptanceAtomic
    <3>3. CASE t # u /\ n \notin Inputs(js)
      BY <3>3, <2>4, <2>5 DEF AcceptanceAtomic
    <3> QED BY <3>1, <3>2, <3>3
  <2>8. \A t \in Tx : /\ Accepted(t)' <=> authz'[t].status = "VERIFIED"
                      /\ outputs'[t] = IF Accepted(t)' THEN Outputs(authz'[t].js) ELSE << >>
    BY <2>2, <2>5 DEF AcceptanceAtomic
  <2> QED BY <2>7, <2>8 DEF AcceptanceAtomic, Inputs, Outputs
<1>5. CASE \E t \in Tx, q \in Operator : FinalizePublish(t, q)
  <2>1. PICK t \in Tx, q \in Operator : FinalizePublish(t, q)
    BY <1>5
  <2>2. \A u \in Tx : Accepted(u)' <=> Accepted(u)
    BY <2>1 DEF FinalizePublish, FinalizeAllowed, AwaitingFinality, Accepted, TypeOK
  <2>3. UNCHANGED <<authz, spentBy, outputs>>
    BY <2>1 DEF FinalizePublish
  <2> QED BY <2>2, <2>3 DEF AcceptanceAtomic
<1> QED
  BY <1>1, <1>2, <1>3, <1>4, <1>5
  DEF Next, Administration, Clock, Broker, Accept, Operations, SetProductStatus, RetirePolicy,
      RestrictCredential, RegisterOwnerKey, RevokeOwnerKey, ExpireInstruction, ExpireRoot,
      AcceptRead, VerifyProof, AcceptAbandon, ProposeFinalization, CancelFinalization,
      FinalizeStale

-----------------------------------------------------------------------------
(* What holds in every reachable state.                                    *)

THEOREM Invariance == Spec => []IInv
<1>1. IInv /\ [Next]_vars => IInv'
  BY TypeStep, BoundStep, AtomicStep DEF IInv
<1> QED BY InitIInv, <1>1, PTL DEF Spec

\* The rows keep the shape their tables give them (TypeOK).
THEOREM TypeCorrect == Spec => []TypeOK
<1>1. IInv => TypeOK
  BY DEF IInv
<1> QED BY Invariance, <1>1, PTL

\* No note is consumed by two accepted transfers (primary key of zk_spent_nullifiers
\* under concurrent calls of accept).
THEOREM DoubleSpendFree == Spec => []NoDoubleSpend
<1>1. IInv => NoDoubleSpend
  <2> SUFFICES ASSUME IInv, NEW t \in Tx, NEW u \in Tx, t # u, Accepted(t), Accepted(u),
                      NEW n \in Inputs(authz[t].js), n \in Inputs(authz[u].js)
               PROVE FALSE
    BY DEF NoDoubleSpend
  <2>1. authz[t].js \in JoinSplits
    BY JoinSplitAssumption DEF IInv, AcceptanceAtomic, AuthorizationBound
  <2>2. n \in Note
    BY <2>1 DEF Inputs, JoinSplits
  <2> QED BY <2>2 DEF IInv, AcceptanceAtomic
<1> QED BY Invariance, <1>1, PTL

\* A consumed note always has its accepted transfer and both recorded outputs
\* (migration 025: a verified transfer moves only forward).
THEOREM ValueIsNeverBurned == Spec => []NoValueBurned
<1>1. IInv => NoValueBurned
  BY DEF IInv, AcceptanceAtomic, NoValueBurned, TypeOK
<1> QED BY Invariance, <1>1, PTL

\* Notes are consumed only in a state that satisfies every condition the transfer
\* was authorized under (accept checks again after its await).
THEOREM ConsumptionRechecked == Spec => ConsumedOnlyWhileEligible
<1>1. IInv /\ [Next]_vars =>
        [\A t \in Tx : tx[t] = "PROOF_PENDING" /\ tx'[t] = "ROOT_PENDING" =>
           /\ product = "ACTIVE"
           /\ InstructionInForce(t)
           /\ RootLive(authz[t].root)]_vars
  <2> SUFFICES ASSUME IInv, [Next]_vars, NEW t \in Tx,
                      tx[t] = "PROOF_PENDING", tx'[t] = "ROOT_PENDING"
               PROVE  product = "ACTIVE" /\ InstructionInForce(t) /\ RootLive(authz[t].root)
    OBVIOUS
  <2>1. PICK c \in Call : AcceptCommit(c)
    BY DEF IInv, TypeOK, vars, partyVars, gateVars, finalityVars, Next, Administration, Clock,
       Broker, Accept, Operations, SetProductStatus, RetirePolicy, RestrictCredential,
       RegisterOwnerKey, RevokeOwnerKey, ExpireInstruction, ExpireRoot, Prepare, Authorize,
       AcceptRead, VerifyProof, AcceptAbandon, ProposeFinalization, CancelFinalization,
       FinalizeStale, FinalizePublish
  <2>2. call[c].tx = t
    BY <2>1 DEF AcceptCommit, IInv, TypeOK
  <2>3. call[c].root = authz[t].root
    BY <2>1, <2>2 DEF AcceptCommit, IInv, CallBound
  <2> QED BY <2>1, <2>2, <2>3 DEF AcceptCommit, AcceptRecheck
<1> QED BY Invariance, <1>1, PTL DEF Spec, ConsumedOnlyWhileEligible

-----------------------------------------------------------------------------
(* The second invariant: what publication owes acceptance.                 *)

\* The three tables that say how far a transfer is agree: the settlement row with
\* the transaction, and the live or approved proposal with both.
FinalityAgrees ==
  \A t \in Tx :
    /\ settlement[t] = IF tx[t] = "SETTLED" THEN "FINAL"
                       ELSE IF tx[t] = "ROOT_PENDING" THEN "ROOT_PENDING" ELSE "NONE"
    /\ tx[t] = "SETTLED" <=> proposal[t].status = "APPROVED"
    /\ proposal[t].status = "PENDING" => tx[t] = "ROOT_PENDING"
    /\ proposal[t].status = "APPROVED" =>
         /\ proposal[t].by # proposal[t].approver
         /\ proposal[t].output \in historical \cup {tree}

\* The roots are the prefixes the tree has had; a retired one is strictly shorter.
RootsAreEarlier ==
  /\ \A r \in historical : IsPrefixOf(r, tree) /\ Len(r) < Len(tree)
  /\ \A t \in Tx : proposal[t].status = "PENDING" => IsPrefixOf(proposal[t].base, tree)

\* A proof is about a published root, and consumed notes are leaves of the tree.
ProofsArePublished ==
  /\ \A t \in Tx : authz[t].status # "NONE" => authz[t].root \in historical \cup {tree}
  /\ \A c \in Call : call[c].phase = "VERIFIED" => ProofHolds(call[c].js, call[c].root)
  /\ SpentNotesArePublished

PInv == FinalityAgrees /\ RootsAreEarlier /\ ProofsArePublished

-----------------------------------------------------------------------------
\* What `finalize` publishes: the CURRENT tree and then the two recorded outputs.
LEMMA PublishedTree ==
  ASSUME TypeOK, NEW t \in Tx, NEW q \in Operator, FinalizePublish(t, q)
  PROVE  /\ tree' = tree \o outputs[t]
         /\ Len(tree') = Len(tree) + 2
         /\ \A i \in 1..Len(tree) : tree'[i] = tree[i]
<1>1. tree' = tree \o outputs[t] /\ Len(outputs[t]) = 2
  BY DEF FinalizePublish, FinalizeAllowed, Extendable, Extension
<1>2. tree \in Seq(Note) /\ outputs[t] \in Seq(Note)
  BY DEF TypeOK
<1>3. /\ Len(tree \o outputs[t]) = Len(tree) + Len(outputs[t])
      /\ \A i \in 1..Len(tree) : (tree \o outputs[t])[i] = tree[i]
  BY <1>2, ConcatProperties, LenProperties
<1> QED BY <1>1, <1>3

\* Being an earlier tree is reflexive and survives the growth of the later one.
LEMMA PrefixGrows ==
  ASSUME NEW r \in Seq(Note), NEW s \in Seq(Note), NEW u \in Seq(Note), IsPrefixOf(r, s),
         Len(s) <= Len(u), \A i \in 1..Len(s) : u[i] = s[i]
  PROVE  IsPrefixOf(r, u)
BY DEF IsPrefixOf

LEMMA PrefixLeaves ==
  ASSUME NEW r \in Seq(Note), NEW s \in Seq(Note), IsPrefixOf(r, s)
  PROVE  Leaves(r) \subseteq Leaves(s)
BY DEF IsPrefixOf, Leaves

LEMMA PrefixReflexive == ASSUME NEW r \in Seq(Note) PROVE IsPrefixOf(r, r)
BY DEF IsPrefixOf

LEMMA InitPInv == Init => PInv
BY NoneAssumption
DEF Init, PInv, FinalityAgrees, RootsAreEarlier, ProofsArePublished, SpentNotesArePublished,
    NoProposal, NoAuthorization, Idle

\* Only finality handlers touch the proposals, and only one of them the tree.
LEMMA FinalityStep == IInv /\ PInv /\ [Next]_vars => FinalityAgrees'
<1> SUFFICES ASSUME IInv, PInv, [Next]_vars PROVE FinalityAgrees'
  OBVIOUS
<1> USE DEF IInv, PInv, vars, partyVars, gateVars, finalityVars
<1>1. CASE UNCHANGED <<tx, settlement, proposal, tree, historical>>
  BY <1>1 DEF FinalityAgrees
<1>2. CASE \E t \in Tx, s, r \in Party, k \in Key : Prepare(t, s, r, k)
  BY <1>2 DEF Prepare, FinalityAgrees, TypeOK
<1>3. CASE \E c \in Call : AcceptCommit(c)
  <2>1. PICK c \in Call : AcceptCommit(c)
    BY <1>3
  <2>2. call[c].tx \in Tx /\ tx[call[c].tx] = "PROOF_PENDING"
    BY <2>1 DEF AcceptCommit, AcceptRecheck, CallBound
  <2> QED BY <2>1, <2>2 DEF AcceptCommit, FinalityAgrees, TypeOK
<1>4. CASE \E t \in Tx, p \in Operator : ProposeFinalization(t, p)
  <2>1. PICK t \in Tx, p \in Operator : ProposeFinalization(t, p)
    BY <1>4
  <2>2. /\ tx[t] = "ROOT_PENDING"
        /\ \A u \in Tx : u # t => proposal'[u] = proposal[u]
        /\ proposal'[t].status = "PENDING"
        /\ UNCHANGED <<tx, settlement, tree, historical>>
    BY <2>1 DEF ProposeFinalization, AwaitingFinality, TypeOK
  <2> QED BY <2>2 DEF FinalityAgrees
<1>5. ASSUME NEW t \in Tx, proposal[t].status = "PENDING", Withdraw(t),
             UNCHANGED <<tx, settlement, tree, historical>>
      PROVE  FinalityAgrees'
  <2>1. /\ \A u \in Tx : u # t => proposal'[u] = proposal[u]
        /\ proposal'[t].status = "CANCELLED"
    BY <1>5 DEF Withdraw, TypeOK, Proposal
  <2> QED BY <1>5, <2>1 DEF FinalityAgrees
<1>6. CASE \E t \in Tx : CancelFinalization(t)
  BY <1>5, <1>6 DEF CancelFinalization
<1>7. CASE \E t \in Tx, q \in Operator : FinalizeStale(t, q)
  BY <1>5, <1>7 DEF FinalizeStale, FinalizeAllowed
<1>8. CASE \E t \in Tx, q \in Operator : FinalizePublish(t, q)
  <2>1. PICK t \in Tx, q \in Operator : FinalizePublish(t, q)
    BY <1>8
  <2>2. /\ proposal'[t].status = "APPROVED"
        /\ proposal'[t].by # proposal'[t].approver
        /\ proposal'[t].output = tree'
        /\ historical' = historical \cup {tree}
    BY <2>1 DEF FinalizePublish, FinalizeAllowed, TypeOK, Proposal
  <2>3. /\ tx'[t] = "SETTLED" /\ settlement'[t] = "FINAL"
        /\ \A u \in Tx : u # t => /\ proposal'[u] = proposal[u]
                                  /\ tx'[u] = tx[u]
                                  /\ settlement'[u] = settlement[u]
    BY <2>1 DEF FinalizePublish, TypeOK
  <2> QED BY <2>2, <2>3 DEF FinalityAgrees
<1> QED
  BY <1>1, <1>2, <1>3, <1>4, <1>6, <1>7, <1>8
  DEF Next, Administration, Clock, Broker, Accept, Operations, SetProductStatus, RetirePolicy,
      RestrictCredential, RegisterOwnerKey, RevokeOwnerKey, ExpireInstruction, ExpireRoot,
      Authorize, AcceptRead, VerifyProof, AcceptAbandon

\* The tree only grows, at its end, and a proposal is pinned to the tree of its time.
LEMMA RootsStep == IInv /\ PInv /\ [Next]_vars => RootsAreEarlier'
<1> SUFFICES ASSUME IInv, PInv, [Next]_vars PROVE RootsAreEarlier'
  OBVIOUS
<1> USE DEF IInv, PInv, vars, partyVars, gateVars, finalityVars
<1>1. CASE UNCHANGED <<proposal, tree, historical>>
  BY <1>1 DEF RootsAreEarlier
<1>2. CASE \E t \in Tx, p \in Operator : ProposeFinalization(t, p)
  <2>1. PICK t \in Tx, p \in Operator : ProposeFinalization(t, p)
    BY <1>2
  <2>2. /\ proposal'[t].base = tree
        /\ \A u \in Tx : u # t => proposal'[u] = proposal[u]
        /\ UNCHANGED <<tree, historical>>
    BY <2>1 DEF ProposeFinalization, TypeOK
  <2>3. IsPrefixOf(tree, tree)
    BY PrefixReflexive DEF TypeOK
  <2> QED BY <2>2, <2>3 DEF RootsAreEarlier
<1>3. ASSUME NEW t \in Tx, Withdraw(t), UNCHANGED <<tree, historical>>
      PROVE  RootsAreEarlier'
  <2>1. /\ \A u \in Tx : u # t => proposal'[u] = proposal[u]
        /\ proposal'[t].status = "CANCELLED"
    BY <1>3 DEF Withdraw, TypeOK, Proposal
  <2> QED BY <1>3, <2>1 DEF RootsAreEarlier
<1>4. CASE \E t \in Tx : CancelFinalization(t)
  BY <1>3, <1>4 DEF CancelFinalization
<1>5. CASE \E t \in Tx, q \in Operator : FinalizeStale(t, q)
  BY <1>3, <1>5 DEF FinalizeStale
<1>6. CASE \E t \in Tx, q \in Operator : FinalizePublish(t, q)
  <2>1. PICK t \in Tx, q \in Operator : FinalizePublish(t, q)
    BY <1>6
  <2>2. /\ Len(tree') = Len(tree) + 2
        /\ \A i \in 1..Len(tree) : tree'[i] = tree[i]
    BY <2>1, PublishedTree
  <2>3. tree \in Seq(Note) /\ tree' \in Seq(Note)
    BY TypeStep DEF TypeOK
  <2>4. ASSUME NEW r \in Seq(Note), IsPrefixOf(r, tree)
        PROVE  IsPrefixOf(r, tree')
    BY <2>2, <2>3, <2>4, PrefixGrows
  <2>5. \A r \in historical' : IsPrefixOf(r, tree') /\ Len(r) < Len(tree')
    <3> TAKE r \in historical'
    <3>1. CASE r = tree
      BY <3>1, <2>2, <2>3, <2>4, PrefixReflexive
    <3>2. CASE r \in historical
      <4>1. r \in Seq(Note) /\ IsPrefixOf(r, tree) /\ Len(r) < Len(tree)
        BY <3>2 DEF RootsAreEarlier, TypeOK
      <4> QED BY <4>1, <2>2, <2>3, <2>4
    <3> QED BY <2>1, <3>1, <3>2 DEF FinalizePublish
  <2>6. \A u \in Tx : proposal'[u].status = "PENDING" => IsPrefixOf(proposal'[u].base, tree')
    <3> SUFFICES ASSUME NEW u \in Tx, proposal'[u].status = "PENDING"
                 PROVE  IsPrefixOf(proposal'[u].base, tree')
      OBVIOUS
    <3>1. proposal'[u] = proposal[u]
      BY <2>1 DEF FinalizePublish, TypeOK, Proposal
    <3>2. proposal[u].base \in Seq(Note)
      BY DEF TypeOK, Proposal
    <3> QED BY <3>1, <3>2, <2>4 DEF RootsAreEarlier
  <2> QED BY <2>5, <2>6 DEF RootsAreEarlier
<1> QED
  BY <1>1, <1>2, <1>4, <1>5, <1>6
  DEF Next, Administration, Clock, Broker, Accept, Operations, SetProductStatus, RetirePolicy,
      RestrictCredential, RegisterOwnerKey, RevokeOwnerKey, ExpireInstruction, ExpireRoot,
      Prepare, Authorize, AcceptRead, VerifyProof, AcceptAbandon, AcceptCommit

\* What a verified call is about to consume is in the tree.
LEMMA ConsumedIsPublished ==
  ASSUME IInv, PInv, NEW c \in Call, call[c].phase = "VERIFIED"
  PROVE  Inputs(call[c].js) \subseteq Leaves(tree)
<1> USE DEF IInv, PInv
<1>1. Inputs(call[c].js) \subseteq Leaves(call[c].root)
  BY DEF ProofsArePublished, ProofHolds
<1>2. call[c].root \in historical \cup {tree}
  BY DEF CallBound, ProofsArePublished
<1>3. tree \in Seq(Note) /\ historical \subseteq Seq(Note)
  BY DEF TypeOK
<1>4. IsPrefixOf(call[c].root, tree)
  BY <1>2, <1>3, PrefixReflexive DEF RootsAreEarlier
<1> QED BY <1>1, <1>2, <1>3, <1>4, PrefixLeaves

\* An accepted proof is about a root that was published, so that what it consumes
\* is in the tree, now and after every later publication.
LEMMA PublishedStep == IInv /\ PInv /\ [Next]_vars => ProofsArePublished'
<1> SUFFICES ASSUME IInv, PInv, [Next]_vars PROVE ProofsArePublished'
  OBVIOUS
<1> USE DEF IInv, PInv, vars, partyVars, gateVars, finalityVars
<1>1. CASE UNCHANGED <<authz, call, spentBy, tree, historical>>
  BY <1>1 DEF ProofsArePublished, SpentNotesArePublished
<1>2. CASE \E t \in Tx, js \in JoinSplit, r \in KnownRoots : Authorize(t, js, r)
  <2>1. PICK t \in Tx, js \in JoinSplit, r \in KnownRoots : Authorize(t, js, r)
    BY <1>2
  <2>2. /\ r \in historical \cup {tree}
        /\ authz'[t].root = r
        /\ \A u \in Tx : u # t => authz'[u] = authz[u]
    BY <2>1 DEF Authorize, RootLive, TypeOK
  <2> QED BY <2>1, <2>2 DEF Authorize, ProofsArePublished, SpentNotesArePublished
<1>3. CASE \E c \in Call, t \in Tx : AcceptRead(c, t)
  BY <1>3 DEF AcceptRead, ProofsArePublished, SpentNotesArePublished, TypeOK
<1>4. CASE \E c \in Call : VerifyProof(c)
  <2>1. PICK c \in Call : VerifyProof(c)
    BY <1>4
  <2>2. /\ ProofHolds(call'[c].js, call'[c].root)
        /\ \A d \in Call : d # c => call'[d] = call[d]
    BY <2>1 DEF VerifyProof, TypeOK, AcceptCall
  <2> QED BY <2>1, <2>2 DEF VerifyProof, ProofsArePublished, SpentNotesArePublished
<1>5. CASE \E c \in Call : AcceptAbandon(c)
  BY <1>5 DEF AcceptAbandon, Idle, ProofsArePublished, SpentNotesArePublished, TypeOK
<1>6. CASE \E c \in Call : AcceptCommit(c)
  <2>1. PICK c \in Call : AcceptCommit(c)
    BY <1>6
  <2> DEFINE t == call[c].tx
             js == call[c].js
  <2>2. Inputs(js) \subseteq Leaves(tree)
    BY <2>1, ConsumedIsPublished DEF AcceptCommit
  <2>3. SpentNotesArePublished'
    BY <2>1, <2>2 DEF AcceptCommit, ProofsArePublished, SpentNotesArePublished
  <2>4. /\ \A u \in Tx : authz'[u].root = authz[u].root
        /\ authz[t].status # "NONE"
        /\ \A u \in Tx : u # t => authz'[u] = authz[u]
        /\ UNCHANGED <<tree, historical>>
    BY <2>1 DEF AcceptCommit, CallBound, TypeOK, Authorization
  <2>5. \A d \in Call : call'[d].phase = "VERIFIED" => call'[d] = call[d]
    BY <2>1 DEF AcceptCommit, Idle, TypeOK
  <2> QED BY <2>3, <2>4, <2>5 DEF ProofsArePublished
<1>7. CASE \E t \in Tx, q \in Operator : FinalizePublish(t, q)
  <2>1. PICK t \in Tx, q \in Operator : FinalizePublish(t, q)
    BY <1>7
  <2>2. Leaves(tree) \subseteq Leaves(tree')
    <3>1. TypeOK /\ tree \in Seq(Note) /\ tree' \in Seq(Note)
      BY TypeStep DEF TypeOK
    <3>2. Len(tree') = Len(tree) + 2 /\ \A i \in 1..Len(tree) : tree'[i] = tree[i]
      BY ONLY <2>1, <3>1, PublishedTree
    <3>3. IsPrefixOf(tree, tree')
      BY <3>1, <3>2 DEF IsPrefixOf
    <3> QED BY ONLY <3>1, <3>3, PrefixLeaves
  <2>3. historical \cup {tree} \subseteq historical' \cup {tree'}
    BY <2>1 DEF FinalizePublish
  <2> QED BY <2>1, <2>2, <2>3 DEF FinalizePublish, ProofsArePublished, SpentNotesArePublished
<1> QED
  BY <1>1, <1>2, <1>3, <1>4, <1>5, <1>6, <1>7
  DEF Next, Administration, Clock, Broker, Accept, Operations, SetProductStatus, RetirePolicy,
      RestrictCredential, RegisterOwnerKey, RevokeOwnerKey, ExpireInstruction, ExpireRoot,
      Prepare, ProposeFinalization, CancelFinalization, FinalizeStale

-----------------------------------------------------------------------------
THEOREM PublicationInvariance == Spec => [](IInv /\ PInv)
<1>1. IInv /\ PInv /\ [Next]_vars => (IInv /\ PInv)'
  BY TypeStep, BoundStep, AtomicStep, FinalityStep, RootsStep, PublishedStep DEF IInv, PInv
<1> QED BY InitIInv, InitPInv, <1>1, PTL DEF Spec

\* The roots proofs and proposals may name are prefixes of one tree: publication
\* under two operators never forks it (finalize).
THEOREM OneChainOfRoots == Spec => []RootsFormOneChain
<1>1. IInv /\ PInv => RootsFormOneChain
  <2> SUFFICES ASSUME IInv, PInv, NEW r \in historical PROVE r # tree
    BY DEF PInv, RootsAreEarlier, RootsFormOneChain
  <2>1. Len(tree) \in Nat
    BY DEF IInv, TypeOK
  <2> QED BY <2>1 DEF PInv, RootsAreEarlier
<1> QED BY PublicationInvariance, <1>1, PTL

\* Only published notes are consumed (root lookup of authorize and accept).
THEOREM SpendingFollowsPublication == Spec => []SpentNotesArePublished
<1>1. IInv /\ PInv => SpentNotesArePublished
  BY DEF PInv, ProofsArePublished
<1> QED BY PublicationInvariance, <1>1, PTL

\* A settled transfer was proposed by one operator and approved by another, for the
\* very root that was published (migrations 015 and 016).
THEOREM FourEyes == Spec => []FinalityIsAttested
<1>1. IInv /\ PInv => FinalityIsAttested
  BY DEF PInv, FinalityAgrees, FinalityIsAttested
<1> QED BY PublicationInvariance, <1>1, PTL

-----------------------------------------------------------------------------
(* The third invariant: the tree counts the settled transfers.             *)

Settled == {t \in Tx : tx[t] = "SETTLED"}
TInv == IsFiniteSet(Settled) /\ TreeIsSettledOutputs

LEMMA InitTInv == Init => TInv
<1> SUFFICES ASSUME Init PROVE TInv
  OBVIOUS
<1>1. Settled = {} /\ tree = Genesis
  BY DEF Init, Settled
<1>2. IsFiniteSet(Settled) /\ Cardinality(Settled) = 0
  BY <1>1, FS_EmptySet
<1>3. Len(Genesis) \in Nat /\ SubSeq(Genesis, 1, Len(Genesis)) = Genesis
  BY TreeAssumption, LenProperties, SubSeqFull
<1>4. Len(tree) = Len(Genesis) + 2 * Cardinality(Settled)
  BY <1>1, <1>2, <1>3
<1> QED BY <1>1, <1>2, <1>3, <1>4 DEF TInv, TreeIsSettledOutputs, Settled

\* No other handler settles a transfer or touches the tree; accept records outputs for
\* a transfer that is not settled yet.
LEMMA OnlyFinalizePublishes ==
  ASSUME IInv, [Next]_vars, \A t \in Tx, q \in Operator : ~FinalizePublish(t, q)
  PROVE  tree' = tree /\ Settled' = Settled /\ \A t \in Settled : outputs'[t] = outputs[t]
<1> USE DEF vars, partyVars, gateVars, finalityVars
<1>1. CASE UNCHANGED <<tx, outputs, tree>>
  BY <1>1 DEF Settled
<1>2. ASSUME NEW t \in Tx, NEW s \in Party, NEW r \in Party, NEW k \in Key, Prepare(t, s, r, k)
      PROVE  tree' = tree /\ Settled' = Settled /\ \A u \in Settled : outputs'[u] = outputs[u]
  <2>1. /\ tx[t] = "NONE" /\ tx' = [tx EXCEPT ![t] = "PROOF_PENDING"]
        /\ UNCHANGED <<tree, outputs>>
    BY <1>2 DEF Prepare
  <2>2. tx \in [Tx -> {"NONE", "PROOF_PENDING", "ROOT_PENDING", "SETTLED"}]
    BY DEF IInv, TypeOK
  <2> QED BY <2>1, <2>2 DEF Settled
<1>3. ASSUME NEW c \in Call, AcceptCommit(c)
      PROVE  tree' = tree /\ Settled' = Settled /\ \A u \in Settled : outputs'[u] = outputs[u]
  <2> DEFINE t == call[c].tx
  <2>1. t \in Tx /\ tx[t] = "PROOF_PENDING"
    BY <1>3 DEF AcceptCommit, AcceptRecheck, IInv, CallBound
  <2>2. /\ tx' = [tx EXCEPT ![t] = "ROOT_PENDING"] /\ UNCHANGED tree
        /\ \A u \in Tx : u # t => outputs'[u] = outputs[u]
    BY <1>3 DEF AcceptCommit, IInv, TypeOK
  <2>3. tx \in [Tx -> {"NONE", "PROOF_PENDING", "ROOT_PENDING", "SETTLED"}]
    BY DEF IInv, TypeOK
  <2> HIDE DEF t
  <2> QED BY <2>1, <2>2, <2>3 DEF Settled
<1> QED
  BY <1>1, <1>2, <1>3
  DEF Next, Administration, Clock, Broker, Accept, Operations, SetProductStatus, RetirePolicy,
      RestrictCredential, RegisterOwnerKey, RevokeOwnerKey, ExpireInstruction, ExpireRoot,
      Authorize, AcceptRead, VerifyProof, AcceptAbandon, ProposeFinalization,
      CancelFinalization, FinalizeStale, Withdraw

\* The two outputs are the last two leaves.
LEMMA TreeStep ==
  ASSUME IInv, PInv, TInv, TypeOK', NEW t \in Tx, NEW q \in Operator, FinalizePublish(t, q)
  PROVE  TInv'
<1> DEFINE n == Cardinality(Settled)
           g == Len(Genesis)
<1>1. /\ g \in Nat /\ n \in Nat /\ Genesis \in Seq(Note)
      /\ tree \in Seq(Note) /\ tree' \in Seq(Note) /\ outputs[t] \in Seq(Note)
      /\ Len(tree) = g + 2 * n
  BY TreeAssumption, LenProperties, FS_CardinalityType
  DEF TInv, TreeIsSettledOutputs, Settled, IInv, TypeOK
<1>2. /\ tree' = tree \o outputs[t] /\ Len(tree') = Len(tree) + 2 /\ Len(outputs[t]) = 2
      /\ \A i \in 1..Len(tree) : tree'[i] = tree[i]
  BY PublishedTree DEF IInv, FinalizePublish, FinalizeAllowed, Extendable
<1>3. tx' = [tx EXCEPT ![t] = "SETTLED"] /\ outputs' = outputs /\ tx[t] = "ROOT_PENDING"
  BY DEF FinalizePublish, FinalizeAllowed, AwaitingFinality
<1>4. Settled' = Settled \cup {t} /\ t \notin Settled
  BY <1>3 DEF Settled, IInv, TypeOK
<1>5. IsFiniteSet(Settled') /\ Cardinality(Settled') = n + 1
  <2>1. IsFiniteSet(Settled)
    BY DEF TInv
  <2> HIDE DEF Settled
  <2> QED BY <1>4, <2>1, FS_AddElement
<1>6. tree'[g + 2 * n + 1] = outputs[t][1] /\ tree'[g + 2 * n + 2] = outputs[t][2]
  <2> DEFINE T == tree
             O == outputs[t]
  <2>1. T \in Seq(Note) /\ O \in Seq(Note) /\ Len(T) \in Nat /\ Len(O) = 2
    BY <1>1, <1>2, LenProperties
  <2>2. Len(T) + 1 \in Len(T) + 1 .. Len(T) + Len(O) /\ Len(T) + 2 \in Len(T) + 1 .. Len(T) + Len(O)
    BY <2>1
  <2>3. (Len(T) + 1) - Len(T) = 1 /\ (Len(T) + 2) - Len(T) = 2
    BY <2>1
  <2> HIDE DEF T, O, g, n
  <2>4. (T \o O)[Len(T) + 1] = O[1] /\ (T \o O)[Len(T) + 2] = O[2]
    BY <2>1, <2>2, <2>3, ConcatProperties
  <2>5. Len(T) + 1 = g + 2 * n + 1 /\ Len(T) + 2 = g + 2 * n + 2
    BY <1>1 DEF T
  <2> QED BY <1>2, <2>4, <2>5 DEF T, O
<1>7. SubSeq(tree', 1, g) = Genesis
  <2>1. \A i \in 1..g : tree'[i] = tree[i] /\ tree[i] \in Note /\ tree'[i] \in Note
    BY <1>1, <1>2, ElementOfSeq
  <2>2. /\ SubSeq(tree, 1, g) \in Seq(Note) /\ SubSeq(tree', 1, g) \in Seq(Note)
        /\ Len(SubSeq(tree, 1, g)) = Len(SubSeq(tree', 1, g))
        /\ \A i \in 1..Len(SubSeq(tree, 1, g)) : SubSeq(tree, 1, g)[i] = SubSeq(tree', 1, g)[i]
    BY <1>1, <2>1, SubSeqProperties
  <2>3. SubSeq(tree, 1, g) = SubSeq(tree', 1, g)
    BY <2>2, SeqEqual
  <2> QED BY <2>3 DEF TInv, TreeIsSettledOutputs
<1> HIDE DEF n, g
<1>8. \A u \in Settled' : \E i \in 1..(n + 1) :
        tree'[g + 2 * i - 1] = outputs[u][1] /\ tree'[g + 2 * i] = outputs[u][2]
  <2> SUFFICES ASSUME NEW u \in Settled'
               PROVE  \E i \in 1..(n + 1) : /\ tree'[g + 2 * i - 1] = outputs[u][1]
                                            /\ tree'[g + 2 * i] = outputs[u][2]
    OBVIOUS
  <2>1. CASE u = t
    <3>1. n + 1 \in 1..(n + 1) /\ g + 2 * (n + 1) - 1 = g + 2 * n + 1
          /\ g + 2 * (n + 1) = g + 2 * n + 2
      BY <1>1
    <3> QED BY <1>6, <2>1, <3>1
  <2>2. CASE u \in Settled
    <3>1. PICK i \in 1..n : tree[g + 2 * i - 1] = outputs[u][1] /\ tree[g + 2 * i] = outputs[u][2]
      BY <2>2 DEF TInv, TreeIsSettledOutputs, Settled, n, g
    <3> DEFINE j == g + 2 * i - 1
               k == g + 2 * i
    <3>2. i \in 1..(n + 1) /\ j \in 1..Len(tree) /\ k \in 1..Len(tree)
      BY <1>1
    <3>3. tree[j] = outputs[u][1] /\ tree[k] = outputs[u][2]
      BY <3>1
    <3> HIDE DEF j, k
    <3>4. tree'[j] = outputs[u][1] /\ tree'[k] = outputs[u][2]
      BY <1>2, <3>2, <3>3
    <3> USE DEF j, k
    <3> QED BY <3>2, <3>4
  <2> QED BY <1>4, <2>1, <2>2
<1>9. Len(tree') = g + 2 * (n + 1)
  BY <1>1, <1>2
<1> QED BY <1>3, <1>5, <1>7, <1>8, <1>9 DEF TInv, TreeIsSettledOutputs, Settled, g

LEMMA TInvStep == IInv /\ PInv /\ TInv /\ TypeOK' /\ [Next]_vars => TInv'
<1> SUFFICES ASSUME IInv, PInv, TInv, TypeOK', [Next]_vars PROVE TInv'
  OBVIOUS
<1>1. CASE \E t \in Tx, q \in Operator : FinalizePublish(t, q)
  BY <1>1, TreeStep
<1>2. CASE \A t \in Tx, q \in Operator : ~FinalizePublish(t, q)
  <2>1. tree' = tree /\ Settled' = Settled /\ \A t \in Settled : outputs'[t] = outputs[t]
    BY <1>2, OnlyFinalizePublishes
  <2>2. /\ Len(tree) = Len(Genesis) + 2 * Cardinality(Settled)
        /\ SubSeq(tree, 1, Len(Genesis)) = Genesis
        /\ \A t \in Settled : \E i \in 1..Cardinality(Settled) :
             /\ tree[Len(Genesis) + 2 * i - 1] = outputs[t][1]
             /\ tree[Len(Genesis) + 2 * i] = outputs[t][2]
    BY DEF TInv, TreeIsSettledOutputs, Settled
  <2>3. /\ Len(tree') = Len(Genesis) + 2 * Cardinality(Settled')
        /\ SubSeq(tree', 1, Len(Genesis)) = Genesis
        /\ \A t \in Settled' : \E i \in 1..Cardinality(Settled') :
             /\ tree'[Len(Genesis) + 2 * i - 1] = outputs'[t][1]
             /\ tree'[Len(Genesis) + 2 * i] = outputs'[t][2]
    BY <2>1, <2>2
  <2>4. IsFiniteSet(Settled')
    BY <2>1 DEF TInv
  <2> QED BY <2>3, <2>4 DEF TInv, TreeIsSettledOutputs, Settled
<1> QED BY <1>1, <1>2

\* The CURRENT tree is the genesis and then the outputs of the settled transfers, two
\* by two and each once, whatever proposals were withdrawn, stale or made twice
\* (verifiedTreeExtension, finalize).
THEOREM TreeIsExact == Spec => []TreeIsSettledOutputs
<1>1. IInv /\ PInv /\ TInv /\ [Next]_vars => TInv'
  BY TypeStep, TInvStep
<1>2. TInv => TreeIsSettledOutputs
  BY DEF TInv
<1> QED BY PublicationInvariance, InitTInv, <1>1, <1>2, PTL DEF Spec

-----------------------------------------------------------------------------
(* The rail implements the note ledger.                                    *)

AcceptedSplit == [t \in Tx |-> IF Accepted(t) THEN authz[t].js ELSE None]
SettledSet == {t \in Tx : tx[t] = "SETTLED"}

\* A commit of `accept` is one AcceptTransfer of the ledger.
LEMMA CommitAccepts ==
  ASSUME IInv, PInv, NEW c \in Call, AcceptCommit(c)
  PROVE  \E t \in Tx, js \in JoinSplit : Ledger!AcceptTransfer(t, js)
<1> USE DEF IInv, PInv
<1>0. call[c].tx \in Tx /\ call[c].js \in JoinSplit
  BY DEF AcceptCommit, CallBound, AuthorizationBound
<1> PICK t \in Tx, js \in JoinSplit : t = call[c].tx /\ js = call[c].js
  BY <1>0
<1>1. t \in Tx /\ js = authz[t].js /\ js \in JoinSplit /\ ~Accepted(t)
  BY DEF AcceptCommit, CallBound, AuthorizationBound, AcceptRecheck, Accepted
<1>2. \A u \in Tx : Accepted(u) => authz[u].js \in JoinSplit
  BY DEF AcceptanceAtomic, AuthorizationBound
<1>3. \A u \in Tx : AcceptedSplit[u] # None <=> Accepted(u)
  BY <1>2, JoinSplitAssumption, NoneAssumption DEF AcceptedSplit
<1>4. Inputs(js) \subseteq Leaves(tree)
  BY ConsumedIsPublished DEF AcceptCommit
<1>5. \A u \in Tx : Accepted(u) => Inputs(js) \cap Inputs(authz[u].js) = {}
  <2> SUFFICES ASSUME NEW u \in Tx, Accepted(u), NEW n \in Inputs(js), n \in Inputs(authz[u].js)
               PROVE  FALSE
    OBVIOUS
  <2>1. n \in Note /\ spentBy[n] = None
    BY <1>1, JoinSplitAssumption DEF AcceptCommit, NullifiersUnspent, Inputs, JoinSplits
  <2>2. spentBy[n] = u
    BY <2>1 DEF AcceptanceAtomic
  <2> QED BY <2>1, <2>2, NoneAssumption
<1>6. \A u \in Tx : Accepted(u) =>
        {js.out0, js.out1} \cap {authz[u].js.out0, authz[u].js.out1} = {}
  <2> SUFFICES ASSUME NEW u \in Tx, Accepted(u)
               PROVE  {js.out0, js.out1} \cap {authz[u].js.out0, authz[u].js.out1} = {}
    OBVIOUS
  <2>1. outputs[u] = Outputs(authz[u].js)
    BY DEF AcceptanceAtomic
  <2>2. /\ Leaves(outputs[u]) = {authz[u].js.out0, authz[u].js.out1}
        /\ Leaves(Outputs(js)) = {js.out0, js.out1}
    BY <1>1, <1>2, <2>1, JoinSplitAssumption, OutputsType
  <2> QED BY <2>2 DEF AcceptCommit, CommitmentsFresh
<1>7. AcceptedSplit' = [AcceptedSplit EXCEPT ![t] = js]
  <2>1. \A u \in Tx : /\ Accepted(u)' <=> u = t \/ Accepted(u)
                      /\ authz'[u].js = authz[u].js
    BY <1>1 DEF AcceptCommit, TypeOK, Authorization, Accepted
  <2> QED BY <1>1, <2>1 DEF AcceptedSplit
<1>8. SettledSet' = SettledSet
  BY <1>1 DEF AcceptCommit, AcceptRecheck, TypeOK, SettledSet
<1>9. js.in0 # js.in1 /\ js.out0 # js.out1 /\ UNCHANGED tree
  BY DEF AcceptCommit, NullifiersUnspent, CommitmentsFresh, finalityVars
<1>10. AcceptedSplit[t] = None
  BY <1>1 DEF AcceptedSplit
<1>11. \A u \in Tx : Accepted(u) => AcceptedSplit[u] = authz[u].js
  BY DEF AcceptedSplit
<1>12. /\ \A u \in Ledger!Accepted : /\ Ledger!In(js) \cap Ledger!In(AcceptedSplit[u]) = {}
                                     /\ Ledger!Out(js) \cap Ledger!Out(AcceptedSplit[u]) = {}
       /\ Ledger!In(js) \subseteq Ledger!NotesOf(tree)
  BY <1>3, <1>4, <1>5, <1>6, <1>11
  DEF Ledger!Accepted, Ledger!In, Ledger!Out, Ledger!NotesOf, Inputs, Leaves, AcceptedSplit
<1> QED BY <1>7, <1>8, <1>9, <1>10, <1>12
  DEF Ledger!AcceptTransfer, AcceptedSplit, SettledSet

\* A publication of `finalize` is one PublishTransfer of the ledger.
LEMMA FinalizePublishes ==
  ASSUME IInv, PInv, NEW t \in Tx, NEW q \in Operator, FinalizePublish(t, q)
  PROVE  Ledger!PublishTransfer(t)
<1> USE DEF IInv, PInv
<1>1. tx[t] = "ROOT_PENDING" /\ Accepted(t)
  BY DEF FinalizePublish, FinalizeAllowed, AwaitingFinality, Accepted
<1>2. authz[t].js \in JoinSplits /\ outputs[t] = <<authz[t].js.out0, authz[t].js.out1>>
  BY <1>1, JoinSplitAssumption DEF AcceptanceAtomic, AuthorizationBound, Outputs
<1>3. tree' = tree \o <<authz[t].js.out0, authz[t].js.out1>>
  BY <1>2, PublishedTree
<1>4. AcceptedSplit' = AcceptedSplit
  BY <1>1 DEF FinalizePublish, AcceptedSplit, Accepted, TypeOK
<1>5. SettledSet' = SettledSet \cup {t} /\ t \notin SettledSet
  BY <1>1 DEF FinalizePublish, SettledSet, TypeOK
<1>6. AcceptedSplit[t] = authz[t].js /\ AcceptedSplit[t] # None
  BY <1>1, <1>2, NoneAssumption DEF AcceptedSplit
<1> QED BY <1>3, <1>4, <1>5, <1>6
  DEF Ledger!PublishTransfer, Ledger!Accepted, AcceptedSplit, SettledSet

\* Acceptance consumes published, unspent notes in one step, an accepted transfer is
\* never dropped and every change of the tree is one publication (NoteLedger).
THEOREM Refinement == Spec => ImplementsNoteLedger
<1>1. Init => Ledger!LedgerInit
  BY DEF Init, Ledger!LedgerInit, Accepted
<1>2. IInv /\ PInv /\ [Next]_vars => [Ledger!LedgerNext]_(Ledger!ledgerVars)
  <2> SUFFICES ASSUME IInv, PInv, [Next]_vars
               PROVE  Ledger!LedgerNext \/ UNCHANGED Ledger!ledgerVars
    OBVIOUS
  <2>1. CASE \E c \in Call : AcceptCommit(c)
    BY <2>1, CommitAccepts DEF Ledger!LedgerNext
  <2>2. CASE \E t \in Tx, q \in Operator : FinalizePublish(t, q)
    BY <2>2, FinalizePublishes DEF Ledger!LedgerNext
  <2>3. CASE UNCHANGED <<tx, tree>> /\ \A t \in Tx : Accepted(t) => authz'[t] = authz[t]
    BY <2>3 DEF Ledger!ledgerVars, Accepted
  <2>4. CASE \E t \in Tx, s, r \in Party, k \in Key : Prepare(t, s, r, k)
    BY <2>4 DEF Prepare, Ledger!ledgerVars, Accepted, IInv, TypeOK, gateVars, finalityVars
  <2>5. CASE \E t \in Tx, js \in JoinSplit, r \in KnownRoots : Authorize(t, js, r)
    BY <2>3, <2>5 DEF Authorize, Accepted, IInv, TypeOK, finalityVars
  <2> QED
    BY <2>1, <2>2, <2>3, <2>4, <2>5
    DEF Next, Administration, Clock, Broker, Accept, Operations, SetProductStatus, RetirePolicy,
        RestrictCredential, RegisterOwnerKey, RevokeOwnerKey, ExpireInstruction, ExpireRoot,
        AcceptRead, VerifyProof, AcceptAbandon, ProposeFinalization, CancelFinalization,
        FinalizeStale, vars, partyVars, gateVars, finalityVars
<1> QED BY PublicationInvariance, <1>1, <1>2, PTL
  DEF Spec, ImplementsNoteLedger, Ledger!LedgerSpec
=============================================================================
