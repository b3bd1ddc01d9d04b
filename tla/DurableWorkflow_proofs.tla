----------------------- MODULE DurableWorkflow_proofs -----------------------
(***************************************************************************)
(* Safety of the registered rail, for any set of investors, transactions,  *)
(* requests, prices and limits.                                            *)
(***************************************************************************)
EXTENDS DurableWorkflow, FiniteSetLemmas

\* What a transaction keeps is a request, or a retry of one.
Kept ==
  \A t \in Tx : request[t] # None =>
    request[t] \in RequestShape /\ Directed(request[t])

\* Only a retry names a replacement.
ProposalsFit ==
  \A p \in approvals : p.role = "MAKER" =>
    p.decision \in {"RETRY", "CANCEL"} /\ (p.decision = "RETRY" <=> p.replacement # None)

\* No case has more rounds than there were proposals.
RoundsAreCounted == \A t \in Tx : round[t] <= proposals

IInv ==
  /\ TypeOK
  /\ RoundsAreCounted
  /\ Kept
  /\ register = units
  /\ WithinLimits
  /\ ExceptionSettlesOnce
  /\ ProposalsFit
  /\ ResolutionIsAttested

-----------------------------------------------------------------------------
\* The fields of a request.
LEMMA RequestType ==
  ASSUME NEW r \in RequestShape
  PROVE  /\ r.id \in Tx /\ r.key \in Key
         /\ r.type \in {"SUBSCRIBE", "TRANSFER", "REDEEM"}
         /\ r.from \in UnitOwner /\ r.to \in UnitOwner
         /\ r.units \in Nat /\ r.units > 0
         /\ r.price \in Nat /\ r.fee \in Nat /\ r.expires \in Nat
BY DEF RequestShape

\* A submitted request.
LEMMA SubmittedType ==
  ASSUME NEW r \in Request
  PROVE  r \in RequestShape /\ Directed(r) /\ r.key \in UserKey
BY RequestAssumption

\* The cash of an executable request is a natural number.
LEMMA AmountType ==
  ASSUME TypeOK, NEW r \in RequestShape, nav # None
  PROVE  Amount(r) \in Nat
<1>1. nav \in Nat /\ r.price \in Nat /\ r.units \in Nat
  BY RequestType, NumberAssumption DEF TypeOK
<1>2. (IF r.type = "REDEEM" THEN nav ELSE r.price) \in Nat
  BY <1>1
<1> QED BY <1>1, <1>2, Product DEF Amount

\* The batches keep the types and the limits, and the register mirrors the
\* units again.
LEMMA PostPreserves ==
  ASSUME IInv, NEW r \in RequestShape, Directed(r), Executable(r), Post(r)
  PROVE  /\ cash' \in [CashOwner -> Int]
         /\ units' \in [UnitOwner -> Int]
         /\ register' = units'
         /\ WithinLimits'
<1>1. Amount(r) \in Nat
  BY AmountType DEF IInv, Executable
<1>2. /\ cash \in [CashOwner -> Int] /\ units \in [UnitOwner -> Int] /\ register = units
      /\ WithinLimits
  BY DEF IInv, TypeOK
<1> DEFINE n == Amount(r)
<1> HIDE DEF n
<1>3. n \in Nat
  BY <1>1 DEF n
<1>4. /\ r.from \in UnitOwner /\ r.to \in UnitOwner /\ r.units \in Nat /\ r.fee \in Nat
      /\ r.type \in {"SUBSCRIBE", "TRANSFER", "REDEEM"}
  BY RequestType
<1>5. /\ cash' = [o \in CashOwner |-> cash[o] + CashDelta(r, n, o)]
      /\ units' = [o \in UnitOwner |-> units[o] + UnitDelta(r, o)]
      /\ register' = [o \in UnitOwner |-> register[o] + UnitDelta(r, o)]
  BY DEF Post, n
<1>6. \A o : CashDelta(r, n, o) \in Int
  BY <1>3, <1>4 DEF CashDelta
<1>7. \A o : UnitDelta(r, o) \in Int
  BY <1>4 DEF UnitDelta
<1>8. cash' \in [CashOwner -> Int] /\ units' \in [UnitOwner -> Int] /\ register' = units'
  BY <1>2, <1>5, <1>6, <1>7
<1>9. /\ Payer(r) \in CashOwner /\ cash[Payer(r)] >= n + r.fee
      /\ Payer(r) # Payee(r) /\ Payer(r) # Fee
  <2>1. cash[Payer(r)] >= n + r.fee
    BY DEF Executable, Funded, n
  <2> QED BY <2>1, <1>4, OwnerAssumption DEF Executable, Eligible, Directed, Payer, Payee, CashOwner
<1>10. ASSUME NEW o \in Investor \cup {Issuer}
       PROVE  cash'[o] >= 0
  <2>1. o \in CashOwner /\ o # Fee /\ cash[o] >= 0 /\ cash[o] \in Int
    BY <1>2, OwnerAssumption DEF CashOwner, WithinLimits
  <2>2. cash'[o] = cash[o] + CashDelta(r, n, o)
    BY <2>1, <1>5
  <2>3. CASE o = Payer(r)
    BY <2>1, <2>2, <2>3, <1>9, <1>3, <1>4 DEF CashDelta
  <2>4. CASE o # Payer(r)
    BY <2>1, <2>2, <2>4, <1>3, <1>4 DEF CashDelta
  <2> QED BY <2>3, <2>4
<1>11. ASSUME NEW i \in Investor
       PROVE  0 <= units'[i] /\ register'[i] <= MaxUnits[i]
  <2>1. /\ i \in UnitOwner /\ units[i] \in Int /\ 0 <= units[i] /\ units[i] <= MaxUnits[i]
        /\ MaxUnits[i] \in Nat /\ i # Treasury
    BY <1>2, OwnerAssumption, NumberAssumption DEF UnitOwner, WithinLimits
  <2>2. units'[i] = units[i] + UnitDelta(r, i) /\ register'[i] = units'[i]
    BY <2>1, <1>5, <1>8
  <2>3. CASE i = r.from
    <3>1. units[i] >= r.units /\ r.from # r.to
      BY <2>1, <2>3, OwnerAssumption DEF Executable, Eligible, Directed
    <3> QED BY <3>1, <2>1, <2>2, <2>3, <1>4 DEF UnitDelta
  <2>4. CASE i = r.to /\ i # r.from
    <3>1. units[i] + r.units <= MaxUnits[i]
      BY <2>1, <2>4, <1>2, <1>4 DEF Executable, Eligible, Directed, UnderLimit
    <3> QED BY <3>1, <2>1, <2>2, <2>4, <1>4 DEF UnitDelta
  <2>5. CASE i # r.to /\ i # r.from
    BY <2>1, <2>2, <2>5 DEF UnitDelta
  <2> QED BY <2>3, <2>4, <2>5
<1>12. WithinLimits'
  BY <1>8, <1>10, <1>11 DEF WithinLimits
<1> QED BY <1>8, <1>12

\* The batches move no unit towards a restricted investor and no cash away
\* from one, and touch nobody whose credential has expired.
LEMMA PostLeavesOnlyExits ==
  ASSUME IInv, NEW r \in RequestShape, Directed(r), Executable(r), Post(r), NEW i \in Investor
  PROVE  /\ credential[i] = "RESTRICTED_EXIT" => units'[i] <= units[i] /\ cash'[i] >= cash[i]
         /\ clock >= ValidUntil[i] => units'[i] = units[i] /\ cash'[i] = cash[i]
<1>1. Amount(r) \in Nat
  BY AmountType DEF IInv, Executable
<1> DEFINE n == Amount(r)
<1> HIDE DEF n
<1>2. n \in Nat
  BY <1>1 DEF n
<1>3. /\ r.units \in Nat /\ r.fee \in Nat /\ r.type \in {"SUBSCRIBE", "TRANSFER", "REDEEM"}
  BY RequestType
<1>4. /\ i \in UnitOwner /\ i \in CashOwner /\ i # Treasury /\ i # Issuer /\ i # Fee
      /\ units[i] \in Int /\ cash[i] \in Int
  BY OwnerAssumption DEF IInv, TypeOK, UnitOwner, CashOwner
<1>5. units'[i] = units[i] + UnitDelta(r, i) /\ cash'[i] = cash[i] + CashDelta(r, n, i)
  BY <1>4 DEF Post, n
<1>6. CASE i # r.from /\ i # r.to
  BY <1>2, <1>3, <1>4, <1>5, <1>6 DEF UnitDelta, CashDelta, Payer, Payee
<1>7. CASE i = r.to
  <2>1. MayTrade(i)
    BY <1>7, <1>3, <1>4 DEF Executable, Eligible, Directed
  <2> QED BY <2>1, NumberAssumption DEF MayTrade, IInv, TypeOK
<1>8. CASE i = r.from /\ i # r.to
  <2>1. MayExit(i) /\ ~(clock >= ValidUntil[i])
    BY <1>8, <1>3, <1>4, NumberAssumption DEF Executable, Eligible, Directed, MayTrade, MayExit, IInv, TypeOK
  <2>2. i # Payer(r)
    BY <1>8, <1>4 DEF Payer
  <2>3. UnitDelta(r, i) <= 0 /\ UnitDelta(r, i) \in Int /\ CashDelta(r, n, i) >= 0 /\ CashDelta(r, n, i) \in Int
    BY <1>2, <1>3, <1>8, <2>2 DEF UnitDelta, CashDelta
  <2> QED BY <2>1, <2>3, <1>4, <1>5
<1> QED BY <1>6, <1>7, <1>8

-----------------------------------------------------------------------------
\* A retry is a request of the same terms under its own id and key.
LEMMA AgainType ==
  ASSUME IInv, NEW t \in Tx, NEW x \in Tx, request[t] # None
  PROVE  /\ Again(t, x) \in RequestShape /\ Directed(Again(t, x))
         /\ Again(t, x).id = x /\ Again(t, x).key = RetryKey(t, x)
<1>1. request[t] \in RequestShape /\ Directed(request[t])
  BY DEF IInv, Kept
<1>2. RetryKey(t, x) \in Key
  BY DEF Key
<1>3. Again(t, x) = [request[t] EXCEPT !.id = x, !.key = RetryKey(t, x)]
  BY DEF Again
<1>4. /\ Again(t, x).id = x /\ Again(t, x).key = RetryKey(t, x)
      /\ Again(t, x).type = request[t].type
      /\ Again(t, x).from = request[t].from /\ Again(t, x).to = request[t].to
      /\ Again(t, x).fee = request[t].fee
  BY <1>1, <1>3 DEF RequestShape
<1>5. Again(t, x) \in RequestShape
  BY <1>1, <1>2, <1>3 DEF RequestShape
<1> QED BY <1>1, <1>4, <1>5 DEF Directed

\* What is not recorded has no case, no request, and replaces nothing.
LEMMA UnrecordedIsNew ==
  ASSUME IInv, NEW r \in RequestShape, Unrecorded(r)
  PROVE  /\ r.id \in Tx /\ state[r.id] = "NONE" /\ case[r.id] = "NONE"
         /\ replacement[r.id] = None
         /\ \A t \in Tx : replacement[t] # r.id
<1>1. r.id \in Tx /\ state[r.id] = "NONE"
  BY RequestType DEF Unrecorded
<1>2. case[r.id] = "NONE" /\ replacement[r.id] = None
  BY <1>1 DEF IInv, ExceptionSettlesOnce
<1>3. ASSUME NEW t \in Tx, replacement[t] = r.id
      PROVE  FALSE
  <2>1. replacement[t] # None
    BY <1>1, <1>3, TxAssumption
  <2> QED BY <2>1, <1>1, <1>3 DEF IInv, ExceptionSettlesOnce
<1> QED BY <1>1, <1>2, <1>3

\* A settlement by a caller.
LEMMA SettlePreserves ==
  ASSUME IInv, NEW r \in Request, Settle(r)
  PROVE  IInv'
<1>1. r \in RequestShape /\ Directed(r) /\ r.key \in UserKey
  BY SubmittedType
<1>2. /\ Executable(r) /\ Unrecorded(r) /\ Post(r) /\ Keep(r)
      /\ state' = [state EXCEPT ![r.id] = "SETTLED"]
      /\ UNCHANGED <<rules, cases, demo>>
  BY DEF Settle
<1>3. /\ r.id \in Tx /\ state[r.id] = "NONE" /\ case[r.id] = "NONE"
      /\ replacement[r.id] = None /\ \A t \in Tx : replacement[t] # r.id
  BY <1>1, <1>2, UnrecordedIsNew
<1>4. /\ cash' \in [CashOwner -> Int] /\ units' \in [UnitOwner -> Int] /\ register' = units'
      /\ WithinLimits'
  BY <1>1, <1>2, PostPreserves
<1>5. Amount(r) \in Nat
  BY <1>1, <1>2, AmountType DEF IInv, Executable
<1>6. TypeOK /\ Kept /\ ExceptionSettlesOnce /\ ProposalsFit /\ ResolutionIsAttested
      /\ RoundsAreCounted
  BY DEF IInv
<1>7. r # None
  BY <1>1, TxAssumption
<1>8. TypeOK'
  BY <1>1, <1>2, <1>3, <1>4, <1>5, <1>6, <1>7 DEF TypeOK, Keep, TxState, rules, cases
<1>9. Kept'
  BY <1>1, <1>2, <1>3, <1>6, <1>7 DEF Kept, Keep, TypeOK
<1>10. ExceptionSettlesOnce'
  <2> SUFFICES ASSUME NEW t \in Tx
               PROVE  /\ case'[t] = "NONE" <=> state'[t] \in {"NONE", "SETTLED"}
                      /\ case'[t] = "OPEN" <=> state'[t] = "REQUIRES_REVIEW"
                      /\ case'[t] = "PENDING_APPROVAL" <=> state'[t] = "PENDING_APPROVAL"
                      /\ case'[t] = "RESOLVED_RETRIED" <=> state'[t] = "REPLACED"
                      /\ case'[t] = "RESOLVED_CANCELLED" <=> state'[t] = "CANCELLED"
                      /\ case'[t] = "RESOLVED_RETRIED" <=> replacement'[t] # None
                      /\ replacement'[t] # None =>
                           /\ state'[replacement'[t]] = "SETTLED"
                           /\ request'[replacement'[t]] = Again(t, replacement[t])'
                      /\ \A u \in Tx : replacement'[t] # None /\ replacement'[t] = replacement'[u] => t = u
                      /\ state'[t] = "SETTLED" => request'[t].key \in UserKey
                                                    \/ \E u \in Tx : replacement'[u] = t
    BY <1>2 DEF ExceptionSettlesOnce, cases
  <2>1. /\ case' = case /\ replacement' = replacement
        /\ state' = [state EXCEPT ![r.id] = "SETTLED"]
        /\ request' = [request EXCEPT ![r.id] = r]
    BY <1>2 DEF cases, Keep
  <2>2. CASE t = r.id
    BY <2>1, <2>2, <1>1, <1>3, <1>6 DEF ExceptionSettlesOnce, TypeOK
  <2>3. CASE t # r.id
    <3>1. state'[t] = state[t] /\ request'[t] = request[t]
      BY <2>1, <2>3, <1>6 DEF TypeOK
    <3>2. replacement[t] # None =>
            /\ replacement[t] \in Tx /\ replacement[t] # r.id
            /\ state'[replacement[t]] = state[replacement[t]]
            /\ request'[replacement[t]] = request[replacement[t]]
      BY <2>1, <1>3, <1>6 DEF TypeOK
    <3>3. Again(t, replacement[t])' = Again(t, replacement[t])
      BY <3>1, <2>1 DEF Again, RetryKey
    <3> QED BY <3>1, <3>2, <3>3, <2>1, <1>6 DEF ExceptionSettlesOnce
  <2> QED BY <2>2, <2>3
<1>11. ProposalsFit' /\ ResolutionIsAttested' /\ RoundsAreCounted'
  BY <1>2, <1>6 DEF ProposalsFit, ResolutionIsAttested, RoundsAreCounted, cases
<1> QED BY <1>4, <1>8, <1>9, <1>10, <1>11 DEF IInv

\* A register that does not answer opens a case.
LEMMA RegisterFailurePreserves ==
  ASSUME IInv, NEW r \in Request, RegisterFailure(r)
  PROVE  IInv'
<1>1. r \in RequestShape /\ Directed(r) /\ r.key \in UserKey
  BY SubmittedType
<1>2. /\ Executable(r) /\ Unrecorded(r)
      /\ request' = [request EXCEPT ![r.id] = r]
      /\ amount' = [amount EXCEPT ![r.id] = Amount(r)]
      /\ state' = [state EXCEPT ![r.id] = "REQUIRES_REVIEW"]
      /\ case' = [case EXCEPT ![r.id] = "OPEN"]
      /\ UNCHANGED <<rules, balances, round, replacement, approvals, proposals, demo>>
  BY DEF RegisterFailure, Keep
<1>3. /\ r.id \in Tx /\ state[r.id] = "NONE" /\ case[r.id] = "NONE"
      /\ replacement[r.id] = None /\ \A t \in Tx : replacement[t] # r.id
  BY <1>1, <1>2, UnrecordedIsNew
<1>5. Amount(r) \in Nat
  BY <1>1, <1>2, AmountType DEF IInv, Executable
<1>6. TypeOK /\ Kept /\ ExceptionSettlesOnce /\ ProposalsFit /\ ResolutionIsAttested
      /\ RoundsAreCounted
  BY DEF IInv
<1>7. r # None
  BY <1>1, TxAssumption
<1>8. TypeOK'
  BY <1>1, <1>2, <1>3, <1>5, <1>6, <1>7 DEF TypeOK, TxState, rules, balances
<1>9. Kept'
  BY <1>1, <1>2, <1>3, <1>6, <1>7 DEF Kept, TypeOK
<1>10. ExceptionSettlesOnce'
  <2>1. ASSUME NEW t \in Tx, replacement[t] # None
        PROVE  /\ replacement[t] \in Tx /\ t # r.id /\ replacement[t] # r.id
               /\ state'[replacement[t]] = state[replacement[t]]
               /\ request'[replacement[t]] = request[replacement[t]]
               /\ Again(t, replacement[t])' = Again(t, replacement[t])
    BY <2>1, <1>2, <1>3, <1>6 DEF TypeOK, Again, RetryKey
  <2>2. \A t \in Tx : t # r.id =>
          state'[t] = state[t] /\ request'[t] = request[t] /\ case'[t] = case[t]
    BY <1>2, <1>6 DEF TypeOK
  <2>3. state'[r.id] = "REQUIRES_REVIEW" /\ case'[r.id] = "OPEN"
    BY <1>2, <1>3, <1>6 DEF TypeOK
  <2>4. replacement' = replacement
    BY <1>2
  <2> QED BY <2>1, <2>2, <2>3, <2>4, <1>3, <1>6 DEF ExceptionSettlesOnce
<1>11. ResolutionIsAttested'
  BY <1>2, <1>3, <1>6 DEF ResolutionIsAttested, TypeOK
<1>12. WithinLimits' /\ (register = units)' /\ ProposalsFit' /\ RoundsAreCounted'
  BY <1>2, <1>6 DEF IInv, WithinLimits, ProposalsFit, RoundsAreCounted, balances
<1> QED BY <1>8, <1>9, <1>10, <1>11, <1>12 DEF IInv

-----------------------------------------------------------------------------
\* A case that is not resolved by a retry moves together with its transaction
\* and disturbs no other.
LEMMA CaseStep ==
  ASSUME IInv, NEW t \in Tx, NEW c, NEW s,
         \/ c = "OPEN" /\ s = "REQUIRES_REVIEW"
         \/ c = "PENDING_APPROVAL" /\ s = "PENDING_APPROVAL"
         \/ c = "RESOLVED_CANCELLED" /\ s = "CANCELLED",
         case[t] \in {"OPEN", "PENDING_APPROVAL"},
         case' = [case EXCEPT ![t] = c], state' = [state EXCEPT ![t] = s],
         UNCHANGED <<rules, balances, request, amount, replacement, demo>>
  PROVE  /\ Kept' /\ (register = units)' /\ WithinLimits' /\ ExceptionSettlesOnce'
         /\ case' \in [Tx -> {"NONE", "OPEN", "PENDING_APPROVAL", "RESOLVED_RETRIED", "RESOLVED_CANCELLED"}]
         /\ state' \in [Tx -> TxState]
         /\ \A u \in Tx : state'[u] # "NONE" => request'[u] # None
         /\ replacement[t] = None
<1>1. TypeOK /\ ExceptionSettlesOnce
  BY DEF IInv
<1>2. state[t] \in {"REQUIRES_REVIEW", "PENDING_APPROVAL"} /\ replacement[t] = None
  BY <1>1 DEF ExceptionSettlesOnce
<1>3. Kept' /\ (register = units)' /\ WithinLimits'
  BY DEF IInv, Kept, WithinLimits, balances
<1>4. /\ case' \in [Tx -> {"NONE", "OPEN", "PENDING_APPROVAL", "RESOLVED_RETRIED", "RESOLVED_CANCELLED"}]
      /\ state' \in [Tx -> TxState]
      /\ \A u \in Tx : state'[u] # "NONE" => request'[u] # None
  BY <1>1, <1>2 DEF TypeOK, TxState
<1>5. ExceptionSettlesOnce'
  <2>1. ASSUME NEW u \in Tx, replacement[u] # None
        PROVE  /\ replacement[u] \in Tx /\ replacement[u] # t
               /\ state'[replacement[u]] = state[replacement[u]]
               /\ Again(u, replacement[u])' = Again(u, replacement[u])
    <3>1. replacement[u] \in Tx /\ state[replacement[u]] = "SETTLED"
      BY <2>1, <1>1 DEF ExceptionSettlesOnce, TypeOK
    <3>2. replacement[u] # t /\ state'[replacement[u]] = state[replacement[u]]
      BY <3>1, <1>1, <1>2 DEF TypeOK
    <3>3. Again(u, replacement[u])' = Again(u, replacement[u])
      BY DEF Again, RetryKey
    <3> QED BY <3>1, <3>2, <3>3
  <2>2. \A u \in Tx : u # t => state'[u] = state[u] /\ case'[u] = case[u]
    BY <1>1 DEF TypeOK
  <2>3. state'[t] = s /\ case'[t] = c
    BY <1>1 DEF TypeOK
  <2>4. replacement' = replacement /\ request' = request
    OBVIOUS
  <2> QED BY <2>1, <2>2, <2>3, <2>4, <1>1, <1>2 DEF ExceptionSettlesOnce
<1> QED BY <1>2, <1>3, <1>4, <1>5

\* A checker's row has the shape of an approval.
LEMMA CheckType ==
  ASSUME IInv, NEW t \in Tx, NEW a \in Actor, NEW p \in approvals,
         NEW decision \in {"APPROVE", "REJECT"}, Check(t, p, a, decision)
  PROVE  approvals' \subseteq Approval /\ ProposalsFit'
<1> DEFINE c == [case |-> t, round |-> round[t], role |-> "CHECKER", actor |-> a,
                 decision |-> decision, replacement |-> None]
<1>1. c \in Approval /\ c.role = "CHECKER"
  BY DEF IInv, TypeOK, Approval
<1>2. approvals' = approvals \cup {c}
  BY DEF Check
<1> HIDE DEF c
<1> QED BY <1>1, <1>2 DEF IInv, TypeOK, ProposalsFit

\* A maker's proposal.
LEMMA ProposePreserves ==
  ASSUME IInv, NEW t \in Tx, NEW a \in Actor, NEW decision \in {"RETRY", "CANCEL"},
         NEW x \in ReplacementId \cup {None}, Propose(t, a, decision, x)
  PROVE  IInv'
<1> DEFINE m == [case |-> t, round |-> round[t] + 1, role |-> "MAKER", actor |-> a,
                 decision |-> decision, replacement |-> x]
<1>1. /\ case[t] = "OPEN" /\ (decision = "RETRY" <=> x # None)
      /\ proposals < MaxProposals /\ proposals' = proposals + 1
      /\ approvals' = approvals \cup {m}
      /\ round' = [round EXCEPT ![t] = round[t] + 1]
      /\ case' = [case EXCEPT ![t] = "PENDING_APPROVAL"]
      /\ state' = [state EXCEPT ![t] = "PENDING_APPROVAL"]
      /\ UNCHANGED <<rules, balances, request, amount, replacement, demo>>
  BY DEF Propose
<1>2. TypeOK /\ ProposalsFit /\ ResolutionIsAttested /\ RoundsAreCounted
  BY DEF IInv
<1>3. /\ Kept' /\ (register = units)' /\ WithinLimits' /\ ExceptionSettlesOnce'
      /\ case' \in [Tx -> {"NONE", "OPEN", "PENDING_APPROVAL", "RESOLVED_RETRIED", "RESOLVED_CANCELLED"}]
      /\ state' \in [Tx -> TxState]
      /\ \A u \in Tx : state'[u] # "NONE" => request'[u] # None
  BY <1>1, CaseStep
<1>4. m \in Approval /\ m.role = "MAKER" /\ m.decision = decision /\ m.replacement = x
  BY <1>2, TxAssumption DEF TypeOK, Approval
<1>5. proposals' \in 0 .. MaxProposals /\ round' \in [Tx -> 0 .. MaxProposals] /\ RoundsAreCounted'
  BY <1>1, <1>2, NumberAssumption DEF TypeOK, RoundsAreCounted
<1> HIDE DEF m
<1>6. TypeOK'
  BY <1>1, <1>2, <1>3, <1>4, <1>5 DEF TypeOK, rules, balances
<1>7. ProposalsFit'
  BY <1>1, <1>2, <1>4 DEF ProposalsFit
<1>8. ResolutionIsAttested'
  BY <1>1, <1>2 DEF ResolutionIsAttested, TypeOK
<1> QED BY <1>3, <1>5, <1>6, <1>7, <1>8 DEF IInv

\* A checker who rejects, and a retry that is blocked, send the case back.
LEMMA SendBackPreserves ==
  ASSUME IInv, NEW t \in Tx, NEW a \in Actor, NEW p \in approvals,
         NEW decision \in {"APPROVE", "REJECT"}, Check(t, p, a, decision), SendBack(t),
         UNCHANGED <<rules, balances, request, amount, round, replacement, proposals, demo>>
  PROVE  IInv'
<1>1. /\ case[t] = "PENDING_APPROVAL" /\ approvals \subseteq approvals'
      /\ case' = [case EXCEPT ![t] = "OPEN"]
      /\ state' = [state EXCEPT ![t] = "REQUIRES_REVIEW"]
  BY DEF Check, SendBack
<1>2. TypeOK /\ ResolutionIsAttested /\ RoundsAreCounted
  BY DEF IInv
<1>3. /\ Kept' /\ (register = units)' /\ WithinLimits' /\ ExceptionSettlesOnce'
      /\ case' \in [Tx -> {"NONE", "OPEN", "PENDING_APPROVAL", "RESOLVED_RETRIED", "RESOLVED_CANCELLED"}]
      /\ state' \in [Tx -> TxState]
      /\ \A u \in Tx : state'[u] # "NONE" => request'[u] # None
  BY <1>1, CaseStep
<1>4. approvals' \subseteq Approval /\ ProposalsFit'
  BY CheckType
<1>5. TypeOK'
  BY <1>2, <1>3, <1>4 DEF TypeOK, rules, balances
<1>6. ResolutionIsAttested' /\ RoundsAreCounted'
  BY <1>1, <1>2 DEF ResolutionIsAttested, TypeOK, RoundsAreCounted
<1> QED BY <1>3, <1>4, <1>5, <1>6 DEF IInv

\* A cancellation by two people.
LEMMA CancelPreserves ==
  ASSUME IInv, NEW t \in Tx, NEW a \in Actor, NEW p \in approvals, Cancel(t, p, a)
  PROVE  IInv'
<1> DEFINE c == [case |-> t, round |-> round[t], role |-> "CHECKER", actor |-> a,
                 decision |-> "APPROVE", replacement |-> None]
<1>1. /\ case[t] = "PENDING_APPROVAL" /\ approvals' = approvals \cup {c}
      /\ p.case = t /\ p.round = round[t] /\ p.role = "MAKER" /\ p.actor # a
      /\ p.decision = "CANCEL" /\ Check(t, p, a, "APPROVE")
      /\ case' = [case EXCEPT ![t] = "RESOLVED_CANCELLED"]
      /\ state' = [state EXCEPT ![t] = "CANCELLED"]
      /\ UNCHANGED <<rules, balances, request, amount, round, replacement, proposals, demo>>
  BY DEF Cancel, Check, Proposal
<1>2. TypeOK /\ ResolutionIsAttested /\ ProposalsFit /\ RoundsAreCounted
  BY DEF IInv
<1>3. /\ Kept' /\ (register = units)' /\ WithinLimits' /\ ExceptionSettlesOnce'
      /\ case' \in [Tx -> {"NONE", "OPEN", "PENDING_APPROVAL", "RESOLVED_RETRIED", "RESOLVED_CANCELLED"}]
      /\ state' \in [Tx -> TxState]
      /\ \A u \in Tx : state'[u] # "NONE" => request'[u] # None
      /\ replacement[t] = None
  BY <1>1, CaseStep
<1>4. approvals' \subseteq Approval /\ ProposalsFit'
  BY <1>1, CheckType
<1>5. TypeOK'
  BY <1>1, <1>2, <1>3, <1>4 DEF TypeOK, rules, balances
<1>6. c.case = t /\ c.round = round[t] /\ c.role = "CHECKER" /\ c.decision = "APPROVE" /\ c.actor = a
  OBVIOUS
<1> HIDE DEF c
<1>7. ResolutionIsAttested'
  <2> SUFFICES ASSUME NEW u \in Tx, case'[u] \in {"RESOLVED_RETRIED", "RESOLVED_CANCELLED"}
               PROVE  \E m, k \in approvals' :
                        /\ m.case = u /\ m.round = round'[u] /\ m.role = "MAKER"
                        /\ k.case = u /\ k.round = round'[u] /\ k.role = "CHECKER"
                        /\ k.decision = "APPROVE" /\ k.actor # m.actor
                        /\ m.replacement = replacement'[u]
                        /\ m.decision = IF case'[u] = "RESOLVED_RETRIED" THEN "RETRY" ELSE "CANCEL"
    BY DEF ResolutionIsAttested
  <2>1. CASE u = t
    <3>1. p.replacement = None /\ case'[t] = "RESOLVED_CANCELLED"
      BY <1>1, <1>2 DEF ProposalsFit, TypeOK
    <3> QED BY <2>1, <3>1, <1>1, <1>3, <1>6
  <2>2. CASE u # t
    BY <2>2, <1>1, <1>2 DEF ResolutionIsAttested, TypeOK
  <2> QED BY <2>1, <2>2
<1>8. RoundsAreCounted'
  BY <1>1, <1>2 DEF RoundsAreCounted
<1> QED BY <1>3, <1>4, <1>5, <1>7, <1>8 DEF IInv

\* A retry that settles.
LEMMA RetryPreserves ==
  ASSUME IInv, NEW t \in Tx, NEW a \in Actor, NEW p \in approvals, Retry(t, p, a)
  PROVE  IInv'
<1> DEFINE x == p.replacement
           r == Again(t, x)
           c == [case |-> t, round |-> round[t], role |-> "CHECKER", actor |-> a,
                 decision |-> "APPROVE", replacement |-> None]
<1>1. /\ case[t] = "PENDING_APPROVAL" /\ approvals' = approvals \cup {c}
      /\ p.case = t /\ p.round = round[t] /\ p.role = "MAKER" /\ p.actor # a
      /\ p.decision = "RETRY" /\ Check(t, p, a, "APPROVE")
      /\ Executable(r) /\ Unrecorded(r) /\ Post(r) /\ Keep(r)
      /\ state' = [state EXCEPT ![t] = "REPLACED", ![x] = "SETTLED"]
      /\ case' = [case EXCEPT ![t] = "RESOLVED_RETRIED"]
      /\ replacement' = [replacement EXCEPT ![t] = x]
      /\ UNCHANGED <<rules, round, proposals, demo>>
  BY DEF Retry, Check, Proposal
<1>2. /\ TypeOK /\ Kept /\ ExceptionSettlesOnce /\ ProposalsFit /\ ResolutionIsAttested
      /\ RoundsAreCounted
  BY DEF IInv
<1>3. x \in Tx
  BY <1>1, <1>2 DEF ProposalsFit, TypeOK, Approval
<1>4. state[t] = "PENDING_APPROVAL" /\ request[t] # None
  BY <1>1, <1>2 DEF TypeOK, ExceptionSettlesOnce
<1>5. r \in RequestShape /\ Directed(r) /\ r.id = x /\ r.key = RetryKey(t, x)
  BY <1>3, <1>4, AgainType
<1>6. c.case = t /\ c.round = round[t] /\ c.role = "CHECKER" /\ c.decision = "APPROVE" /\ c.actor = a
  OBVIOUS
<1> HIDE DEF c
<1>7. /\ cash' \in [CashOwner -> Int] /\ units' \in [UnitOwner -> Int] /\ register' = units'
      /\ WithinLimits'
  BY <1>1, <1>5, PostPreserves
<1>8. Amount(r) \in Nat
  BY <1>1, <1>2, <1>5, AmountType DEF Executable
<1>9. /\ state[x] = "NONE" /\ case[x] = "NONE" /\ replacement[x] = None /\ x # t
      /\ \A u \in Tx : replacement[u] # x
  BY <1>1, <1>4, <1>5, UnrecordedIsNew
<1>10. /\ request' = [request EXCEPT ![x] = r]
       /\ amount' = [amount EXCEPT ![x] = Amount(r)]
       /\ r # None
  BY <1>1, <1>5, TxAssumption DEF Keep
<1> HIDE DEF x, r
<1>11. approvals' \subseteq Approval /\ ProposalsFit'
  BY <1>1, CheckType
<1>12. /\ state'[t] = "REPLACED" /\ state'[x] = "SETTLED"
       /\ case'[t] = "RESOLVED_RETRIED" /\ case'[x] = "NONE"
       /\ replacement'[t] = x /\ replacement'[x] = None
       /\ request'[x] = r /\ request'[t] = request[t]
       /\ \A u \in Tx : u # t =>
            case'[u] = case[u] /\ replacement'[u] = replacement[u]
       /\ \A u \in Tx : u # t /\ u # x => state'[u] = state[u]
       /\ \A u \in Tx : u # x => request'[u] = request[u]
  BY <1>1, <1>2, <1>3, <1>9, <1>10 DEF TypeOK
<1>13. TypeOK'
  <2>1. /\ state' \in [Tx -> TxState]
        /\ request' \in [Tx -> RequestShape \cup {None}]
        /\ amount' \in [Tx -> Nat]
        /\ replacement' \in [Tx -> Tx \cup {None}]
        /\ case' \in [Tx -> {"NONE", "OPEN", "PENDING_APPROVAL", "RESOLVED_RETRIED", "RESOLVED_CANCELLED"}]
    BY <1>1, <1>2, <1>3, <1>5, <1>8, <1>10 DEF TypeOK, TxState
  <2>2. \A u \in Tx : state'[u] # "NONE" => request'[u] # None
    BY <1>2, <1>4, <1>10, <1>12 DEF TypeOK
  <2>3. register' \in [UnitOwner -> Int]
    BY <1>7
  <2> QED BY <2>1, <2>2, <2>3, <1>1, <1>2, <1>7, <1>11 DEF TypeOK, rules
<1>14. Kept'
  BY <1>2, <1>5, <1>12 DEF Kept
<1>15. ExceptionSettlesOnce'
  <2>1. ASSUME NEW u \in Tx, u # t, replacement[u] # None
        PROVE  /\ replacement[u] \in Tx /\ replacement[u] # t /\ replacement[u] # x /\ u # x
               /\ state'[replacement'[u]] = "SETTLED"
               /\ request'[replacement'[u]] = Again(u, replacement[u])
               /\ Again(u, replacement[u])' = Again(u, replacement[u])
    <3>1. /\ replacement[u] \in Tx /\ state[replacement[u]] = "SETTLED" /\ u # x
          /\ request[replacement[u]] = Again(u, replacement[u])
      BY <2>1, <1>2, <1>9 DEF ExceptionSettlesOnce, TypeOK
    <3>2. replacement[u] # t /\ replacement[u] # x /\ replacement'[u] = replacement[u]
      BY <2>1, <3>1, <1>4, <1>9, <1>12
    <3>3. state'[replacement[u]] = "SETTLED" /\ request'[replacement[u]] = Again(u, replacement[u])
      BY <3>1, <3>2, <1>12
    <3>4. request'[u] = request[u]
      BY <3>1, <1>12
    <3>5. Again(u, replacement[u])' = Again(u, replacement[u])
      BY <3>2, <3>4 DEF Again, RetryKey
    <3> QED BY <3>1, <3>2, <3>3, <3>5
  <2>2. request'[x] = Again(t, replacement[t])'
    <3>1. Again(t, replacement[t])' = [request'[t] EXCEPT !.id = replacement'[t], !.key = RetryKey(t, replacement'[t])]
      BY DEF Again, RetryKey
    <3>2. r = [request[t] EXCEPT !.id = x, !.key = RetryKey(t, x)]
      BY DEF r, Again
    <3> QED BY <3>1, <3>2, <1>12
  <2>3. \A u \in Tx :
          /\ case'[u] = "NONE" <=> state'[u] \in {"NONE", "SETTLED"}
          /\ case'[u] = "OPEN" <=> state'[u] = "REQUIRES_REVIEW"
          /\ case'[u] = "PENDING_APPROVAL" <=> state'[u] = "PENDING_APPROVAL"
          /\ case'[u] = "RESOLVED_RETRIED" <=> state'[u] = "REPLACED"
          /\ case'[u] = "RESOLVED_CANCELLED" <=> state'[u] = "CANCELLED"
          /\ case'[u] = "RESOLVED_RETRIED" <=> replacement'[u] # None
    BY <1>2, <1>3, <1>9, <1>12, TxAssumption DEF ExceptionSettlesOnce
  <2>4. \A u \in Tx : replacement'[u] # None =>
          /\ state'[replacement'[u]] = "SETTLED"
          /\ request'[replacement'[u]] = Again(u, replacement[u])'
    BY <2>1, <2>2, <1>12
  <2>5. \A u, v \in Tx : replacement'[u] # None /\ replacement'[u] = replacement'[v] => u = v
    BY <1>2, <1>9, <1>12 DEF ExceptionSettlesOnce
  <2>6. \A y \in Tx : state'[y] = "SETTLED" =>
          request'[y].key \in UserKey \/ \E u \in Tx : replacement'[u] = y
    <3>1. \A y \in Tx, u \in Tx : replacement[u] = y => replacement'[u] = y \/ u = t
      BY <1>12
    <3>2. replacement[t] = None
      BY <1>1, <1>2 DEF ExceptionSettlesOnce
    <3> QED BY <3>1, <3>2, <1>2, <1>12, TxAssumption DEF ExceptionSettlesOnce
  <2> QED BY <2>3, <2>4, <2>5, <2>6 DEF ExceptionSettlesOnce
<1>16. ResolutionIsAttested'
  <2> SUFFICES ASSUME NEW u \in Tx, case'[u] \in {"RESOLVED_RETRIED", "RESOLVED_CANCELLED"}
               PROVE  \E m, k \in approvals' :
                        /\ m.case = u /\ m.round = round'[u] /\ m.role = "MAKER"
                        /\ k.case = u /\ k.round = round'[u] /\ k.role = "CHECKER"
                        /\ k.decision = "APPROVE" /\ k.actor # m.actor
                        /\ m.replacement = replacement'[u]
                        /\ m.decision = IF case'[u] = "RESOLVED_RETRIED" THEN "RETRY" ELSE "CANCEL"
    BY DEF ResolutionIsAttested
  <2>1. CASE u = t
    BY <2>1, <1>1, <1>6, <1>12 DEF x
  <2>2. CASE u # t
    BY <2>2, <1>1, <1>2, <1>12 DEF ResolutionIsAttested
  <2> QED BY <2>1, <2>2
<1>17. RoundsAreCounted'
  BY <1>1, <1>2 DEF RoundsAreCounted
<1> QED BY <1>7, <1>11, <1>13, <1>14, <1>15, <1>16, <1>17 DEF IInv

-----------------------------------------------------------------------------
\* Operators of the product, time and the demo reset move no balance and no row.
LEMMA RulesPreserve ==
  ASSUME IInv, UNCHANGED <<balances, rows, cases>>,
         product' \in {"ACTIVE", "PAUSED"}, nav' \in Price \cup {None},
         credential' \in [Investor -> {"ACTIVE", "RESTRICTED_EXIT"}], clock' \in 0 .. MaxTime,
         demo' \in {"NONE", "DEMO_READY", "FAILED"}
  PROVE  IInv'
<1>1. /\ UNCHANGED <<cash, units, register, state, request, amount>>
      /\ UNCHANGED <<case, round, replacement, approvals, proposals>>
  BY DEF balances, rows, cases
<1>2. TypeOK' /\ Kept' /\ (register = units)' /\ WithinLimits' /\ RoundsAreCounted'
  BY <1>1 DEF IInv, TypeOK, Kept, WithinLimits, RoundsAreCounted
<1>3. ProposalsFit' /\ ResolutionIsAttested'
  BY <1>1 DEF IInv, ProposalsFit, ResolutionIsAttested
<1>4. ExceptionSettlesOnce'
  BY <1>1 DEF IInv, ExceptionSettlesOnce, Again, RetryKey
<1> QED BY <1>2, <1>3, <1>4 DEF IInv

\* The steps that are neither a settlement nor a decision.
LEMMA OtherPreserves ==
  ASSUME IInv,
         \/ \E s \in {"ACTIVE", "PAUSED"} : SetProductStatus(s)
         \/ \E i \in Investor : RestrictCredential(i)
         \/ \E p \in Price \cup {None} : NavChanges(p)
         \/ Tick
         \/ ResetSandboxDemo
         \/ UNCHANGED vars
  PROVE  IInv' /\ UNCHANGED balances
<1> USE DEF IInv, TypeOK
<1>1. CASE \E s \in {"ACTIVE", "PAUSED"} : SetProductStatus(s)
  BY <1>1, RulesPreserve DEF SetProductStatus
<1>2. CASE \E i \in Investor : RestrictCredential(i)
  BY <1>2, RulesPreserve DEF RestrictCredential
<1>3. CASE \E p \in Price \cup {None} : NavChanges(p)
  BY <1>3, RulesPreserve DEF NavChanges
<1>4. CASE Tick
  BY <1>4, RulesPreserve, NumberAssumption DEF Tick
<1>5. CASE ResetSandboxDemo
  BY <1>5, RulesPreserve, NumberAssumption DEF ResetSandboxDemo, rules
<1>6. CASE UNCHANGED vars
  BY <1>6, RulesPreserve DEF vars, rules
<1> QED BY <1>1, <1>2, <1>3, <1>4, <1>5, <1>6

\* The initial state satisfies the inductive invariant.
LEMMA InitIInv == Init => IInv
<1> SUFFICES ASSUME Init PROVE IInv
  OBVIOUS
<1> USE DEF Init
<1>1. TypeOK
  <2>1. 0 \in 0 .. MaxTime /\ 0 \in 0 .. MaxProposals /\ Opening \in [CashOwner -> Int]
    BY NumberAssumption
  <2> QED BY <2>1, NumberAssumption DEF TypeOK, TxState
<1>2. Kept /\ register = units /\ ProposalsFit /\ ResolutionIsAttested /\ ExceptionSettlesOnce
  BY DEF Kept, ProposalsFit, ResolutionIsAttested, ExceptionSettlesOnce
<1>3. WithinLimits
  BY NumberAssumption DEF WithinLimits, CashOwner, UnitOwner
<1>4. RoundsAreCounted
  BY DEF RoundsAreCounted
<1> QED BY <1>1, <1>2, <1>3, <1>4 DEF IInv

\* Every step keeps the inductive invariant and moves only exits.
LEMMA NextIInv ==
  ASSUME IInv, [Next]_vars
  PROVE  /\ IInv'
         /\ product # "ACTIVE" => UNCHANGED <<cash, units, register>>
         /\ \A i \in Investor :
              /\ credential[i] = "RESTRICTED_EXIT" => units'[i] <= units[i] /\ cash'[i] >= cash[i]
              /\ clock >= ValidUntil[i] => units'[i] = units[i] /\ cash'[i] = cash[i]
<1> DEFINE Exits ==
      /\ product # "ACTIVE" => UNCHANGED <<cash, units, register>>
      /\ \A i \in Investor :
           /\ credential[i] = "RESTRICTED_EXIT" => units'[i] <= units[i] /\ cash'[i] >= cash[i]
           /\ clock >= ValidUntil[i] => units'[i] = units[i] /\ cash'[i] = cash[i]
<1>1. ASSUME UNCHANGED balances PROVE Exits
  BY <1>1, OwnerAssumption DEF balances, IInv, TypeOK, CashOwner, UnitOwner
<1>2. ASSUME NEW r \in RequestShape, Directed(r), Executable(r), Post(r) PROVE Exits
  BY <1>2, PostLeavesOnlyExits DEF Executable
<1> HIDE DEF Exits
<1>3. ASSUME NEW r \in Request, Settle(r) PROVE IInv' /\ Exits
  BY <1>3, <1>2, SettlePreserves, SubmittedType DEF Settle
<1>4. ASSUME NEW r \in Request, RegisterFailure(r) PROVE IInv' /\ Exits
  BY <1>4, <1>1, RegisterFailurePreserves DEF RegisterFailure
<1>5. ASSUME NEW t \in Tx, NEW a \in Actor, NEW d \in {"RETRY", "CANCEL"},
             NEW x \in ReplacementId \cup {None}, Propose(t, a, d, x)
      PROVE  IInv' /\ Exits
  BY <1>5, <1>1, ProposePreserves DEF Propose
<1>6. ASSUME NEW t \in Tx, NEW a \in Actor, NEW p \in approvals, Reject(t, p, a)
      PROVE  IInv' /\ Exits
  BY <1>6, <1>1, SendBackPreserves DEF Reject
<1>7. ASSUME NEW t \in Tx, NEW a \in Actor, NEW p \in approvals, Cancel(t, p, a)
      PROVE  IInv' /\ Exits
  BY <1>7, <1>1, CancelPreserves DEF Cancel
<1>8. ASSUME NEW t \in Tx, NEW a \in Actor, NEW p \in approvals, Retry(t, p, a)
      PROVE  IInv' /\ Exits
  <2>1. IInv'
    BY <1>8, RetryPreserves
  <2>2. case[t] = "PENDING_APPROVAL" /\ p \in Proposal(t) /\ p.decision = "RETRY"
    BY <1>8 DEF Retry, Check
  <2>3. p.replacement \in Tx /\ request[t] # None
    BY <2>2 DEF Proposal, IInv, ProposalsFit, TypeOK, Approval, ExceptionSettlesOnce
  <2>4. Again(t, p.replacement) \in RequestShape /\ Directed(Again(t, p.replacement))
    BY <2>3, AgainType
  <2>5. Executable(Again(t, p.replacement)) /\ Post(Again(t, p.replacement))
    BY <1>8 DEF Retry
  <2> QED BY <2>1, <2>4, <2>5, <1>2
<1>9. ASSUME NEW t \in Tx, NEW a \in Actor, NEW p \in approvals, RetryBlocked(t, p, a)
      PROVE  IInv' /\ Exits
  BY <1>9, <1>1, SendBackPreserves DEF RetryBlocked
<1>10. ASSUME \/ \E s \in {"ACTIVE", "PAUSED"} : SetProductStatus(s)
              \/ \E i \in Investor : RestrictCredential(i)
              \/ \E p \in Price \cup {None} : NavChanges(p)
              \/ Tick
              \/ ResetSandboxDemo
              \/ UNCHANGED vars
       PROVE  IInv' /\ Exits
  BY <1>10, <1>1, OtherPreserves
<1>11. IInv' /\ Exits
  BY <1>3, <1>4, <1>5, <1>6, <1>7, <1>8, <1>9, <1>10 DEF Next
<1> QED BY <1>11 DEF Exits

-----------------------------------------------------------------------------
(* The books: every balance is the sum of what has settled.                *)

\* Only finitely many transactions have settled, so that their effects add up.
SInv == IsFiniteSet(SettledIds) /\ BalancesAreSettledEffects

\* What has settled has a request and an amount, and integer effects.
LEMMA SettledType ==
  ASSUME IInv, NEW t \in SettledIds
  PROVE  /\ t \in Tx /\ request[t] \in RequestShape /\ amount[t] \in Nat
         /\ \A o : CashDelta(request[t], amount[t], o) \in Int /\ UnitDelta(request[t], o) \in Int
<1>1. t \in Tx /\ request[t] \in RequestShape /\ amount[t] \in Nat
  BY DEF SettledIds, IInv, TypeOK, Kept
<1>2. request[t].units \in Nat /\ request[t].fee \in Nat
  BY <1>1, RequestType
<1> QED BY <1>1, <1>2 DEF CashDelta, UnitDelta

\* A step that settles nothing and posts nothing keeps the sums.
LEMMA BooksStay ==
  ASSUME IInv, SInv, SettledIds' = SettledIds, UNCHANGED <<cash, units, register>>,
         \A t \in SettledIds : request'[t] = request[t] /\ amount'[t] = amount[t]
  PROVE  SInv'
<1>1. ASSUME NEW o
      PROVE  /\ [t \in SettledIds |-> CashDelta(request[t], amount[t], o)]'
                  = [t \in SettledIds |-> CashDelta(request[t], amount[t], o)]
             /\ [t \in SettledIds |-> UnitDelta(request[t], o)]'
                  = [t \in SettledIds |-> UnitDelta(request[t], o)]
  <2>1. \A t \in SettledIds :
          /\ CashDelta(request'[t], amount'[t], o) = CashDelta(request[t], amount[t], o)
          /\ UnitDelta(request'[t], o) = UnitDelta(request[t], o)
    OBVIOUS
  <2> QED BY <2>1
<1> QED BY <1>1 DEF SInv, BalancesAreSettledEffects

\* One transaction settles and is posted.
LEMMA BooksGrow ==
  ASSUME IInv, IInv', SInv, NEW x \in Tx, x \notin SettledIds, SettledIds' = SettledIds \cup {x},
         NEW r, NEW a, request'[x] = r, amount'[x] = a,
         \A t \in SettledIds : request'[t] = request[t] /\ amount'[t] = amount[t],
         cash' = [o \in CashOwner |-> cash[o] + CashDelta(r, a, o)],
         units' = [o \in UnitOwner |-> units[o] + UnitDelta(r, o)],
         register' = units'
  PROVE  SInv'
<1>1. IsFiniteSet(SettledIds) /\ BalancesAreSettledEffects
  BY DEF SInv
<1>2. ASSUME NEW t \in SettledIds \cup {x}
      PROVE  /\ \A o : CashDelta(request'[t], amount'[t], o) \in Int
             /\ \A o : UnitDelta(request'[t], o) \in Int
  <2>1. t \in SettledIds'
    OBVIOUS
  <2>2. request'[t] \in RequestShape /\ amount'[t] \in Nat
    BY <2>1 DEF SettledIds, IInv, TypeOK, Kept
  <2>3. request'[t].units \in Nat /\ request'[t].fee \in Nat
    BY <2>2, RequestType
  <2> QED BY <2>2, <2>3 DEF CashDelta, UnitDelta
<1>3. ASSUME NEW o \in CashOwner
      PROVE  cash'[o] = Opening[o]
               + SumFunction([t \in SettledIds |-> CashDelta(request[t], amount[t], o)]')
  <2> DEFINE f == [t \in SettledIds |-> CashDelta(request[t], amount[t], o)]
             h == [t \in SettledIds \cup {x} |-> CashDelta(request'[t], amount'[t], o)]
  <2>1. DOMAIN f = SettledIds /\ \A t \in SettledIds : f[t] \in Int
    BY SettledType
  <2>2. DOMAIN h = SettledIds \cup {x} /\ h[x] \in Int
    BY <1>2
  <2>3. (\A t \in SettledIds : h[t] = f[t]) /\ h[x] = CashDelta(r, a, o)
    OBVIOUS
  <2>4. [t \in SettledIds |-> CashDelta(request[t], amount[t], o)]' = h
    OBVIOUS
  <2>5. cash[o] = Opening[o] + SumFunction(f)
    BY <1>1 DEF BalancesAreSettledEffects
  <2> HIDE DEF f, h
  <2>6. SumFunction(f) \in Int /\ SumFunction(h) = SumFunction(f) + h[x]
    <3>1. PICK S, F, H : S = SettledIds /\ F = f /\ H = h
      OBVIOUS
    <3>2. /\ IsFiniteSet(S) /\ x \notin S /\ DOMAIN F = S /\ DOMAIN H = S \cup {x}
          /\ H[x] \in Int /\ \A y \in S : F[y] \in Int /\ H[y] = F[y]
      BY <1>1, <2>1, <2>2, <2>3, <3>1
    <3>3. SumFunction(F) \in Int /\ SumFunction(H) = SumFunction(F) + H[x]
      BY <3>2, SumFunctionAdd, Z3
    <3> QED BY <3>1, <3>3
  <2>7. cash'[o] = cash[o] + h[x] /\ Opening[o] \in Int
    BY <2>3, NumberAssumption
  <2>8. cash'[o] = Opening[o] + SumFunction(h)
    BY <2>2, <2>5, <2>6, <2>7
  <2> QED BY <2>4, <2>8
<1>4. ASSUME NEW o \in UnitOwner
      PROVE  units'[o] = SumFunction([t \in SettledIds |-> UnitDelta(request[t], o)]')
  <2> DEFINE f == [t \in SettledIds |-> UnitDelta(request[t], o)]
             h == [t \in SettledIds \cup {x} |-> UnitDelta(request'[t], o)]
  <2>1. DOMAIN f = SettledIds /\ \A t \in SettledIds : f[t] \in Int
    BY SettledType
  <2>2. DOMAIN h = SettledIds \cup {x} /\ h[x] \in Int
    BY <1>2
  <2>3. (\A t \in SettledIds : h[t] = f[t]) /\ h[x] = UnitDelta(r, o)
    OBVIOUS
  <2>4. [t \in SettledIds |-> UnitDelta(request[t], o)]' = h
    OBVIOUS
  <2>5. units[o] = SumFunction(f)
    BY <1>1 DEF BalancesAreSettledEffects
  <2> HIDE DEF f, h
  <2>6. SumFunction(h) = SumFunction(f) + h[x]
    <3>1. PICK S, F, H : S = SettledIds /\ F = f /\ H = h
      OBVIOUS
    <3>2. /\ IsFiniteSet(S) /\ x \notin S /\ DOMAIN F = S /\ DOMAIN H = S \cup {x}
          /\ H[x] \in Int /\ \A y \in S : F[y] \in Int /\ H[y] = F[y]
      BY <1>1, <2>1, <2>2, <2>3, <3>1
    <3>3. SumFunction(F) \in Int /\ SumFunction(H) = SumFunction(F) + H[x]
      BY <3>2, SumFunctionAdd, Z3
    <3> QED BY <3>1, <3>3
  <2>7. units'[o] = units[o] + h[x]
    BY <2>3
  <2> QED BY <2>4, <2>5, <2>6, <2>7
<1>5. IsFiniteSet(SettledIds')
  BY <1>1, FS_AddElement
<1> QED BY <1>3, <1>4, <1>5 DEF SInv, BalancesAreSettledEffects

\* At first nothing has settled.
LEMMA InitSInv == Init => SInv
<1> SUFFICES ASSUME Init PROVE SInv
  OBVIOUS
<1>1. SettledIds = {}
  BY DEF Init, SettledIds
<1>2. ASSUME NEW f, DOMAIN f = {} PROVE SumFunction(f) = 0
  BY <1>2, SumEmpty DEF SumFunction
<1>3. ASSUME NEW o
      PROVE  /\ SumFunction([t \in SettledIds |-> CashDelta(request[t], amount[t], o)]) = 0
             /\ SumFunction([t \in SettledIds |-> UnitDelta(request[t], o)]) = 0
  BY <1>1, <1>2
<1>4. cash = Opening /\ \A o \in CashOwner : Opening[o] \in Int
  BY NumberAssumption DEF Init
<1>5. register = units /\ \A o \in UnitOwner : units[o] = 0
  BY DEF Init
<1> QED BY <1>1, <1>3, <1>4, <1>5, FS_EmptySet DEF SInv, BalancesAreSettledEffects

\* A submission, and a retry, settle one transaction more; nothing else moves a
\* balance or unsettles anything.
LEMMA NextSInv ==
  ASSUME IInv, IInv', SInv, [Next]_vars
  PROVE  SInv'
<1>1. TypeOK /\ ExceptionSettlesOnce
  BY DEF IInv
<1>2. ASSUME NEW r \in Request, Settle(r) PROVE SInv'
  <2>1. /\ Unrecorded(r) /\ Post(r) /\ Keep(r) /\ r.id \in Tx
        /\ state' = [state EXCEPT ![r.id] = "SETTLED"]
    BY <1>2, RequestAssumption, RequestType DEF Settle
  <2>2. r.id \notin SettledIds /\ SettledIds' = SettledIds \cup {r.id}
    BY <2>1, <1>1 DEF SettledIds, Unrecorded, TypeOK
  <2>3. request'[r.id] = r /\ amount'[r.id] = Amount(r)
    BY <2>1, <1>1 DEF Keep, TypeOK
  <2>4. \A t \in SettledIds : request'[t] = request[t] /\ amount'[t] = amount[t]
    BY <2>1, <2>2, <1>1 DEF Keep, TypeOK, SettledIds
  <2>5. /\ cash' = [o \in CashOwner |-> cash[o] + CashDelta(r, Amount(r), o)]
        /\ units' = [o \in UnitOwner |-> units[o] + UnitDelta(r, o)]
        /\ register' = units'
    BY <2>1 DEF Post, IInv
  <2> QED BY <2>1, <2>2, <2>3, <2>4, <2>5, BooksGrow
<1>3. ASSUME NEW t \in Tx, NEW a \in Actor, NEW p \in approvals, Retry(t, p, a) PROVE SInv'
  <2> DEFINE x == p.replacement  r == Again(t, x)
  <2>1. /\ case[t] = "PENDING_APPROVAL" /\ p \in Proposal(t) /\ p.decision = "RETRY"
        /\ Unrecorded(r) /\ Post(r) /\ Keep(r)
        /\ state' = [state EXCEPT ![t] = "REPLACED", ![x] = "SETTLED"]
    BY <1>3 DEF Retry, Check
  <2>2. x \in Tx /\ state[t] = "PENDING_APPROVAL" /\ request[t] # None
    BY <2>1, <1>1 DEF Proposal, IInv, ProposalsFit, TypeOK, Approval, ExceptionSettlesOnce
  <2>3. r.id = x
    BY <2>2, AgainType
  <2> HIDE DEF x, r
  <2>4. x # t /\ x \notin SettledIds /\ SettledIds' = SettledIds \cup {x}
    BY <2>1, <2>2, <2>3, <1>1 DEF SettledIds, Unrecorded, TypeOK
  <2>5. request'[x] = r /\ amount'[x] = Amount(r)
    BY <2>1, <2>2, <2>3, <1>1 DEF Keep, TypeOK
  <2>6. \A u \in SettledIds : request'[u] = request[u] /\ amount'[u] = amount[u]
    BY <2>1, <2>3, <2>4, <1>1 DEF Keep, TypeOK, SettledIds
  <2>7. /\ cash' = [o \in CashOwner |-> cash[o] + CashDelta(r, Amount(r), o)]
        /\ units' = [o \in UnitOwner |-> units[o] + UnitDelta(r, o)]
        /\ register' = units'
    BY <2>1 DEF Post, IInv
  <2> QED BY <2>2, <2>4, <2>5, <2>6, <2>7, BooksGrow
<1>4. ASSUME NEW r \in Request, RegisterFailure(r) PROVE SInv'
  <2>1. /\ Unrecorded(r) /\ Keep(r) /\ r.id \in Tx
        /\ state' = [state EXCEPT ![r.id] = "REQUIRES_REVIEW"]
        /\ UNCHANGED <<cash, units, register>>
    BY <1>4, RequestAssumption, RequestType DEF RegisterFailure, balances
  <2>2. r.id \notin SettledIds /\ SettledIds' = SettledIds
    BY <2>1, <1>1 DEF SettledIds, Unrecorded, TypeOK
  <2>3. \A t \in SettledIds : request'[t] = request[t] /\ amount'[t] = amount[t]
    BY <2>1, <2>2, <1>1 DEF Keep, TypeOK, SettledIds
  <2> QED BY <2>1, <2>2, <2>3, BooksStay
<1>5. ASSUME NEW t \in Tx, NEW s \in {"REQUIRES_REVIEW", "PENDING_APPROVAL", "CANCELLED"},
             case[t] \in {"OPEN", "PENDING_APPROVAL"}, state' = [state EXCEPT ![t] = s],
             UNCHANGED <<cash, units, register, request, amount>>
      PROVE  SInv'
  <2>1. t \notin SettledIds /\ SettledIds' = SettledIds
    BY <1>5, <1>1 DEF SettledIds, TypeOK, ExceptionSettlesOnce
  <2> QED BY <2>1, <1>5, BooksStay
<1>6. ASSUME NEW t \in Tx, NEW a \in Actor, NEW d \in {"RETRY", "CANCEL"},
             NEW x \in ReplacementId \cup {None}, Propose(t, a, d, x)
      PROVE  SInv'
  BY <1>6, <1>5 DEF Propose, balances
<1>7. ASSUME NEW t \in Tx, NEW a \in Actor, NEW p \in approvals,
             Reject(t, p, a) \/ Cancel(t, p, a) \/ RetryBlocked(t, p, a)
      PROVE  SInv'
  BY <1>7, <1>5 DEF Reject, Cancel, RetryBlocked, Check, SendBack, balances
<1>8. ASSUME UNCHANGED <<balances, rows>> PROVE SInv'
  <2>1. UNCHANGED <<cash, units, register, state, request, amount>>
    BY <1>8 DEF balances, rows
  <2>2. SettledIds' = SettledIds
    BY <2>1 DEF SettledIds
  <2> QED BY <2>1, <2>2, BooksStay
<1>9. ASSUME \/ \E s \in {"ACTIVE", "PAUSED"} : SetProductStatus(s)
             \/ \E i \in Investor : RestrictCredential(i)
             \/ \E p \in Price \cup {None} : NavChanges(p)
             \/ Tick
             \/ ResetSandboxDemo
             \/ UNCHANGED vars
      PROVE  SInv'
  BY <1>9, <1>8 DEF SetProductStatus, RestrictCredential, NavChanges, Tick, ResetSandboxDemo, vars
<1> QED BY <1>2, <1>3, <1>4, <1>6, <1>7, <1>9 DEF Next

-----------------------------------------------------------------------------
\* The inductive invariant holds of every reachable state: what the balances,
\* the cases and the approvals of DurableWorkflowService always satisfy.
THEOREM WorkflowInvariance == Spec => []IInv
<1>1. Init => IInv
  BY InitIInv
<1>2. IInv /\ [Next]_vars => IInv'
  BY NextIInv
<1> QED BY <1>1, <1>2, PTL DEF Spec

\* Rows keep their shape under every operation of the service.
THEOREM WorkflowTypeCorrect == Spec => []TypeOK
<1>1. IInv => TypeOK
  BY DEF IInv
<1> QED BY <1>1, WorkflowInvariance, PTL

\* Nobody is overdrawn and no holding limit is exceeded.
THEOREM LimitsHold == Spec => []WithinLimits
<1>1. IInv => WithinLimits
  BY DEF IInv
<1> QED BY <1>1, WorkflowInvariance, PTL

\* The register is the unit ledger (assert_register_batch, migration 002).
THEOREM RegisterMirrorsLedger == Spec => [](register = units)
<1>1. IInv => register = units
  BY DEF IInv
<1> QED BY <1>1, WorkflowInvariance, PTL

\* Every balance is the opening plus what has settled, each transaction once:
\* what was cancelled, replaced, refused or rolled back to the savepoint of a
\* retry has left no entry (#settleInTransaction, approveExceptionResolution).
THEOREM BooksAreExact == Spec => []BalancesAreSettledEffects
<1>1. Init => IInv /\ SInv
  BY InitIInv, InitSInv
<1>2. (IInv /\ SInv) /\ [Next]_vars => (IInv /\ SInv)'
  BY NextIInv, NextSInv
<1>3. SInv => BalancesAreSettledEffects
  BY DEF SInv
<1> QED BY <1>1, <1>2, <1>3, PTL DEF Spec

\* An exception settles at most once, and only by its attested replacement.
THEOREM CasesSettleOnce == Spec => []ExceptionSettlesOnce
<1>1. IInv => ExceptionSettlesOnce
  BY DEF IInv
<1> QED BY <1>1, WorkflowInvariance, PTL

\* A resolved case was proposed and approved by two people in its last round.
THEOREM CasesAreAttested == Spec => []ResolutionIsAttested
<1>1. IInv => ResolutionIsAttested
  BY DEF IInv
<1> QED BY <1>1, WorkflowInvariance, PTL

\* A paused product moves nothing, a restricted investor only leaves.
THEOREM RestrictedOnlyLeave == Spec => OnlyExits
<1>1. IInv /\ [Next]_vars =>
        [/\ product # "ACTIVE" => UNCHANGED <<cash, units, register>>
         /\ \A i \in Investor :
              /\ credential[i] = "RESTRICTED_EXIT" => units'[i] <= units[i] /\ cash'[i] >= cash[i]
              /\ clock >= ValidUntil[i] => units'[i] = units[i] /\ cash'[i] = cash[i]]_vars
  BY NextIInv
<1> QED BY <1>1, WorkflowInvariance, PTL DEF Spec, OnlyExits
=============================================================================
