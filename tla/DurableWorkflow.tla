-------------------------- MODULE DurableWorkflow --------------------------
(***************************************************************************)
(* The registered rail (DurableWorkflowService over PostgresStore):        *)
(* subscriptions, transfers and redemptions that settle cash, units and    *)
(* the register of holders in one transaction, and the exception cases of  *)
(* transfers whose register confirmation timed out.                        *)
(*                                                                         *)
(* A case is proposed by a maker and decided by a checker, over any number *)
(* of rounds. An approved retry runs the whole settlement again, with the  *)
(* original request, under the rules, NAV, credentials and balances of     *)
(* that moment, inside a savepoint: whatever fails there rolls back to the *)
(* savepoint and sends the case back for review.                           *)
(*                                                                         *)
(* Every operation is one serializable transaction, hence one action; the  *)
(* states it passes through before it commits are not visible. A request   *)
(* that is refused, and the replay of one that was recorded (answered from *)
(* its stored receipt), change nothing and are no step.                    *)
(***************************************************************************)
EXTENDS Integers, FiniteSetsExt

CONSTANTS
  Investor,
  Issuer, Fee,      \* owners of the other cash accounts
  Treasury,         \* owner of the units that are not held by investors
  Tx,               \* transaction ids
  UserKey,          \* idempotency keys chosen by callers
  Request,          \* what callers submit
  Actor,            \* makers and checkers
  Price,            \* values of NAV per unit
  MaxDeviationBps,  \* rules.maxPriceDeviationBps
  Opening,          \* cash of the opening batches
  MaxUnits,         \* credential.max_units
  ValidUntil,       \* credential.valid_until
  DemoPrice,        \* NAV of the demonstration data
  MaxTime,          \* bound on the clock
  ReplacementId,    \* ids that makers propose for a retry
  MaxProposals,     \* bound on the proposals, over all cases
  None

CashOwner == Investor \cup {Issuer, Fee}
UnitOwner == Investor \cup {Treasury}

RetryKey(t, x) == <<"exception-retry", t, x>>
Key == UserKey \cup {RetryKey(t, x) : t \in Tx, x \in Tx}

\* SUBSCRIBE: price is cashAmount / units. REDEEM: price is not used.
RequestShape ==
  [id : Tx, key : Key, type : {"SUBSCRIBE", "TRANSFER", "REDEEM"},
   from : UnitOwner, to : UnitOwner,
   units : Nat \ {0}, price : Nat, fee : Nat, expires : Nat]

\* Units of a subscription come from the treasury, those of a redemption return
\* to it; only transfers carry a fee.
Directed(r) ==
  /\ r.type = "SUBSCRIBE" => r.from = Treasury /\ r.to \in Investor /\ r.fee = 0
  /\ r.type = "TRANSFER" => r.from \in Investor /\ r.to \in Investor
  /\ r.type = "REDEEM" => r.from \in Investor /\ r.to = Treasury /\ r.fee = 0

ASSUME OwnerAssumption ==
  /\ Issuer # Fee
  /\ Issuer \notin Investor /\ Fee \notin Investor /\ Treasury \notin Investor
ASSUME RequestAssumption ==
  /\ Request \subseteq RequestShape
  /\ \A r \in Request : r.key \in UserKey /\ Directed(r)
ASSUME KeyAssumption == \A t, x \in Tx : RetryKey(t, x) \notin UserKey
ASSUME NumberAssumption ==
  /\ Price \subseteq Nat \ {0} /\ DemoPrice \in Price /\ None \notin Price
  /\ MaxDeviationBps \in Nat /\ MaxTime \in Nat /\ MaxProposals \in Nat
  /\ Opening \in [CashOwner -> Nat]
  /\ MaxUnits \in [Investor -> Nat] /\ ValidUntil \in [Investor -> Nat]
ASSUME TxAssumption ==
  ReplacementId \subseteq Tx /\ None \notin Tx /\ None \notin RequestShape

VARIABLES
  product,      \* status of the product
  nav,          \* current NAV evidence, None when there is none in force
  credential,   \* status of an investor's credential
  clock,        \* time, for the expiry of transfers and credentials
  cash,         \* accountBalance of the cash accounts
  units,        \* accountBalance of the unit accounts
  register,     \* accountBalance of the register accounts
  state,        \* transaction_intents.current_state
  request,      \* the request a transaction keeps (encrypted)
  amount,       \* cash amount of its economic commitment
  case,         \* exception_cases.status, by the original transaction
  round,        \* exception_cases.approval_round
  replacement,  \* exception_cases.replacement_transaction_id
  approvals,    \* approval_records
  proposals,    \* number of proposals, for the bound
  demo          \* outcome of the last demo reset

rules == <<product, nav, credential, clock>>
balances == <<cash, units, register>>
rows == <<state, request, amount>>
cases == <<case, round, replacement, approvals, proposals>>
vars == <<rules, balances, rows, cases, demo>>

TxState == {"NONE", "SETTLED", "REQUIRES_REVIEW", "PENDING_APPROVAL", "REPLACED", "CANCELLED"}
Approval == [case : Tx, round : Nat, role : {"MAKER", "CHECKER"}, actor : Actor,
             decision : {"RETRY", "CANCEL", "APPROVE", "REJECT"}, replacement : Tx \cup {None}]

Init ==
  /\ product = "ACTIVE"
  /\ nav = DemoPrice
  /\ credential = [i \in Investor |-> "ACTIVE"]
  /\ clock = 0
  /\ cash = Opening
  /\ units = [o \in UnitOwner |-> 0]
  /\ register = [o \in UnitOwner |-> 0]
  /\ state = [t \in Tx |-> "NONE"]
  /\ request = [t \in Tx |-> None]
  /\ amount = [t \in Tx |-> 0]
  /\ case = [t \in Tx |-> "NONE"]
  /\ round = [t \in Tx |-> 0]
  /\ replacement = [t \in Tx |-> None]
  /\ approvals = {}
  /\ proposals = 0
  /\ demo = "NONE"

-----------------------------------------------------------------------------
(* The checks and entries of one settlement (#settleInTransaction).        *)

Payer(r) == IF r.type = "REDEEM" THEN Issuer ELSE r.to
Payee(r) == IF r.type = "SUBSCRIBE" THEN Issuer ELSE r.from

Amount(r) == r.units * (IF r.type = "REDEEM" THEN nav ELSE r.price)

\* Mutant: restricted credentials pass wherever credentials pass.
MayTrade_Exit(i) == credential[i] \in {"ACTIVE", "RESTRICTED_EXIT"} /\ clock < ValidUntil[i]

MayTrade(i) == credential[i] = "ACTIVE" /\ clock < ValidUntil[i]
MayExit(i) == credential[i] \in {"ACTIVE", "RESTRICTED_EXIT"} /\ clock < ValidUntil[i]
UnderLimit(i, n) == register[i] + n <= MaxUnits[i]

WithinBand(price) ==
  LET deviation == IF price > nav THEN price - nav ELSE nav - price
  IN  deviation * 10000 <= nav * MaxDeviationBps

Eligible(r) ==
  \/ /\ r.type = "SUBSCRIBE"
     /\ MayTrade(r.to) /\ UnderLimit(r.to, r.units)
     /\ r.price > 0 /\ r.price = nav
  \/ /\ r.type = "TRANSFER"
     /\ clock < r.expires
     /\ r.from # r.to
     /\ MayTrade(r.from)
     /\ MayTrade(r.to) /\ UnderLimit(r.to, r.units)
     /\ r.price > 0 /\ WithinBand(r.price)
     /\ units[r.from] >= r.units
  \/ /\ r.type = "REDEEM"
     /\ MayExit(r.from)
     /\ units[r.from] >= r.units

Funded(r) == cash[Payer(r)] >= Amount(r) + r.fee

Executable(r) == product = "ACTIVE" /\ nav # None /\ Eligible(r) /\ Funded(r)

\* Mutant: an id that exists already is taken over.
Unrecorded_KeyOnly(r) ==
  \A t \in Tx : state[t] # "NONE" => request[t].key # r.key

\* Neither the idempotency key nor the id has been used.
Unrecorded(r) ==
  /\ state[r.id] = "NONE"
  /\ \A t \in Tx : state[t] # "NONE" => request[t].key # r.key

CashDelta(r, a, o) ==
  (IF o = Payee(r) THEN a ELSE 0) + (IF o = Fee THEN r.fee ELSE 0)
    - (IF o = Payer(r) THEN a + r.fee ELSE 0)
UnitDelta(r, o) == (IF o = r.to THEN r.units ELSE 0) - (IF o = r.from THEN r.units ELSE 0)

\* The two batches; a trigger compares the second with the first.
Post(r) ==
  /\ cash' = [o \in CashOwner |-> cash[o] + CashDelta(r, Amount(r), o)]
  /\ units' = [o \in UnitOwner |-> units[o] + UnitDelta(r, o)]
  /\ register' = [o \in UnitOwner |-> register[o] + UnitDelta(r, o)]

\* The row of the transaction and its economic commitments.
Keep(r) ==
  /\ request' = [request EXCEPT ![r.id] = r]
  /\ amount' = [amount EXCEPT ![r.id] = Amount(r)]

\* assertTransition, for the states that survive a transaction.
Transition(t, to) ==
  \/ state[t] = "REQUIRES_REVIEW" /\ to \in {"PENDING_APPROVAL", "CANCELLED"}
  \/ state[t] = "PENDING_APPROVAL" /\ to \in {"REQUIRES_REVIEW", "REPLACED", "CANCELLED"}

Settle(r) ==
  /\ Executable(r) /\ Unrecorded(r)
  /\ Post(r)
  /\ Keep(r)
  /\ state' = [state EXCEPT ![r.id] = "SETTLED"]
  /\ UNCHANGED <<rules, cases, demo>>

\* The register does not confirm: the cash is released, nothing is posted.
RegisterFailure(r) ==
  /\ r.type = "TRANSFER"
  /\ Executable(r) /\ Unrecorded(r)
  /\ Keep(r)
  /\ state' = [state EXCEPT ![r.id] = "REQUIRES_REVIEW"]
  /\ case' = [case EXCEPT ![r.id] = "OPEN"]
  /\ UNCHANGED <<rules, balances, round, replacement, approvals, proposals, demo>>

-----------------------------------------------------------------------------
(* Exception cases.                                                        *)

Propose(t, a, decision, x) ==
  /\ case[t] = "OPEN"
  /\ proposals < MaxProposals
  /\ proposals' = proposals + 1
  /\ Transition(t, "PENDING_APPROVAL")
  /\ decision = "RETRY" <=> x # None
  /\ approvals' = approvals \cup
       {[case |-> t, round |-> round[t] + 1, role |-> "MAKER", actor |-> a,
         decision |-> decision, replacement |-> x]}
  /\ round' = [round EXCEPT ![t] = @ + 1]
  /\ case' = [case EXCEPT ![t] = "PENDING_APPROVAL"]
  /\ state' = [state EXCEPT ![t] = "PENDING_APPROVAL"]
  /\ UNCHANGED <<rules, balances, request, amount, replacement, demo>>

\* Mutant: the maker row of any round is taken for the pending one.
Proposal_AnyRound(t) == {p \in approvals : p.case = t /\ p.role = "MAKER"}

\* The maker row of the current round.
Proposal(t) ==
  {p \in approvals : p.case = t /\ p.round = round[t] /\ p.role = "MAKER"}

\* The checks of approveExceptionResolution, and the checker's row.
Check(t, p, a, decision) ==
  /\ case[t] = "PENDING_APPROVAL"
  /\ p \in Proposal(t)
  /\ p.actor # a
  /\ approvals' = approvals \cup
       {[case |-> t, round |-> round[t], role |-> "CHECKER", actor |-> a,
         decision |-> decision, replacement |-> None]}

\* returnExceptionForReview
SendBack(t) ==
  /\ Transition(t, "REQUIRES_REVIEW")
  /\ state' = [state EXCEPT ![t] = "REQUIRES_REVIEW"]
  /\ case' = [case EXCEPT ![t] = "OPEN"]

Reject(t, p, a) ==
  /\ Check(t, p, a, "REJECT")
  /\ SendBack(t)
  /\ UNCHANGED <<rules, balances, request, amount, round, replacement, proposals, demo>>

Cancel(t, p, a) ==
  /\ Check(t, p, a, "APPROVE")
  /\ p.decision = "CANCEL"
  /\ Transition(t, "CANCELLED")
  /\ state' = [state EXCEPT ![t] = "CANCELLED"]
  /\ case' = [case EXCEPT ![t] = "RESOLVED_CANCELLED"]
  /\ UNCHANGED <<rules, balances, request, amount, round, replacement, proposals, demo>>

\* The original request under the id of the replacement.
Again(t, x) == [request[t] EXCEPT !.id = x, !.key = RetryKey(t, x)]

Retry(t, p, a) ==
  LET x == p.replacement  r == Again(t, x) IN
  /\ Check(t, p, a, "APPROVE")
  /\ p.decision = "RETRY"
  /\ Executable(r) /\ Unrecorded(r)
  /\ Transition(t, "REPLACED")
  /\ Post(r)
  /\ Keep(r)
  /\ state' = [state EXCEPT ![t] = "REPLACED", ![x] = "SETTLED"]
  /\ case' = [case EXCEPT ![t] = "RESOLVED_RETRIED"]
  /\ replacement' = [replacement EXCEPT ![t] = x]
  /\ UNCHANGED <<rules, round, proposals, demo>>

\* Mutant: what the retry had posted when it failed is kept.
RetryBlocked_NoRollback(t, p, a) ==
  /\ Check(t, p, a, "APPROVE")
  /\ p.decision = "RETRY"
  /\ SendBack(t)
  /\ IF Executable(request[t]) THEN Post(request[t]) ELSE UNCHANGED balances
  /\ UNCHANGED <<rules, request, amount, round, replacement, proposals, demo>>

\* Any error inside the savepoint: a check that fails, an id that is taken, a
\* role that is missing after the batches are posted, an error of the database.
RetryBlocked(t, p, a) ==
  /\ Check(t, p, a, "APPROVE")
  /\ p.decision = "RETRY"
  /\ SendBack(t)
  /\ UNCHANGED <<rules, balances, request, amount, round, replacement, proposals, demo>>

-----------------------------------------------------------------------------
(* Operators of the product, and the environment.                          *)

SetProductStatus(s) ==
  /\ product # s
  /\ product' = s
  /\ UNCHANGED <<nav, credential, clock, balances, rows, cases, demo>>

RestrictCredential(i) ==
  /\ credential[i] = "ACTIVE"
  /\ credential' = [credential EXCEPT ![i] = "RESTRICTED_EXIT"]
  /\ UNCHANGED <<product, nav, clock, balances, rows, cases, demo>>

\* The latest NAV in force changes: new evidence, or the end of its validity.
NavChanges(p) ==
  /\ p # nav
  /\ nav' = p
  /\ UNCHANGED <<product, credential, clock, balances, rows, cases, demo>>

Tick ==
  /\ clock < MaxTime
  /\ clock' = clock + 1
  /\ UNCHANGED <<product, nav, credential, balances, rows, cases, demo>>

\* The reset deletes transaction_intents but not transaction_party_index, whose
\* rows (one for each party of a transaction) refer to them: the foreign key
\* fails and everything is rolled back. With no transaction it succeeds; a NAV
\* that is later than the refreshed one stays in force.
ResetSandboxDemo ==
  \/ /\ \E t \in Tx : state[t] # "NONE"
     /\ demo' = "FAILED"
     /\ UNCHANGED <<rules, balances, rows, cases>>
  \/ /\ \A t \in Tx : state[t] = "NONE"
     /\ demo' = "DEMO_READY"
     /\ product' = "ACTIVE"
     /\ credential' = [i \in Investor |-> "ACTIVE"]
     /\ nav' \in {nav, DemoPrice} \ {None}
     /\ UNCHANGED <<clock, balances, rows, cases>>

Next ==
  \/ \E r \in Request : Settle(r) \/ RegisterFailure(r)
  \/ \E t \in Tx, a \in Actor :
       \/ \E decision \in {"RETRY", "CANCEL"}, x \in ReplacementId \cup {None} : Propose(t, a, decision, x)
       \/ \E p \in approvals : Reject(t, p, a) \/ Cancel(t, p, a) \/ Retry(t, p, a) \/ RetryBlocked(t, p, a)
  \/ \E s \in {"ACTIVE", "PAUSED"} : SetProductStatus(s)
  \/ \E i \in Investor : RestrictCredential(i)
  \/ \E p \in Price \cup {None} : NavChanges(p)
  \/ Tick
  \/ ResetSandboxDemo

Spec == Init /\ [][Next]_vars

-----------------------------------------------------------------------------
(* Properties.                                                             *)

\* Rows keep their shape: a transaction has its request from its first commit
\* on, and its state agrees with the case it has.
TypeOK ==
  /\ product \in {"ACTIVE", "PAUSED"}
  /\ nav \in Price \cup {None}
  /\ credential \in [Investor -> {"ACTIVE", "RESTRICTED_EXIT"}]
  /\ clock \in 0 .. MaxTime
  /\ cash \in [CashOwner -> Int]
  /\ units \in [UnitOwner -> Int]
  /\ register \in [UnitOwner -> Int]
  /\ state \in [Tx -> TxState]
  /\ request \in [Tx -> RequestShape \cup {None}]
  /\ amount \in [Tx -> Nat]
  /\ case \in [Tx -> {"NONE", "OPEN", "PENDING_APPROVAL", "RESOLVED_RETRIED", "RESOLVED_CANCELLED"}]
  /\ round \in [Tx -> 0 .. MaxProposals]
  /\ proposals \in 0 .. MaxProposals
  /\ replacement \in [Tx -> Tx \cup {None}]
  /\ approvals \subseteq Approval
  /\ demo \in {"NONE", "DEMO_READY", "FAILED"}
  /\ \A t \in Tx : state[t] # "NONE" => request[t] # None

SettledIds == {t \in Tx : state[t] = "SETTLED"}

\* Every balance is the opening plus the effects of the settled transactions,
\* each once, and the register mirrors the unit ledger: what is under review,
\* cancelled, replaced or was refused on a retry has left no entry.
BalancesAreSettledEffects ==
  /\ \A o \in CashOwner :
       cash[o] = Opening[o]
         + SumFunction([t \in SettledIds |-> CashDelta(request[t], amount[t], o)])
  /\ \A o \in UnitOwner :
       units[o] = SumFunction([t \in SettledIds |-> UnitDelta(request[t], o)])
  /\ register = units

\* However submissions, retries and redemptions follow each other, nobody is
\* overdrawn and no holder exceeds the limit of the credential.
WithinLimits ==
  /\ \A o \in Investor \cup {Issuer} : cash[o] >= 0
  /\ \A i \in Investor : 0 <= units[i] /\ 0 <= register[i] /\ register[i] <= MaxUnits[i]

\* The original of a case never settles; the case is RESOLVED_RETRIED exactly
\* if one transaction has settled in its place, with the original's terms, and
\* two cases never share a replacement. Nothing else settles but what callers
\* submitted.
ExceptionSettlesOnce ==
  /\ \A t \in Tx :
       /\ case[t] = "NONE" <=> state[t] \in {"NONE", "SETTLED"}
       /\ case[t] = "OPEN" <=> state[t] = "REQUIRES_REVIEW"
       /\ case[t] = "PENDING_APPROVAL" <=> state[t] = "PENDING_APPROVAL"
       /\ case[t] = "RESOLVED_RETRIED" <=> state[t] = "REPLACED"
       /\ case[t] = "RESOLVED_CANCELLED" <=> state[t] = "CANCELLED"
       /\ case[t] = "RESOLVED_RETRIED" <=> replacement[t] # None
       /\ replacement[t] # None =>
            /\ state[replacement[t]] = "SETTLED"
            /\ request[replacement[t]] = Again(t, replacement[t])
  /\ \A t, u \in Tx : replacement[t] # None /\ replacement[t] = replacement[u] => t = u
  /\ \A x \in Tx :
       state[x] = "SETTLED" => request[x].key \in UserKey \/ \E t \in Tx : replacement[t] = x

\* A resolved case carries, in its last round, the proposal of exactly this
\* resolution and its approval by another person.
ResolutionIsAttested ==
  \A t \in Tx : case[t] \in {"RESOLVED_RETRIED", "RESOLVED_CANCELLED"} =>
    \E m, c \in approvals :
      /\ m.case = t /\ m.round = round[t] /\ m.role = "MAKER"
      /\ c.case = t /\ c.round = round[t] /\ c.role = "CHECKER"
      /\ c.decision = "APPROVE" /\ c.actor # m.actor
      /\ m.replacement = replacement[t]
      /\ m.decision = IF case[t] = "RESOLVED_RETRIED" THEN "RETRY" ELSE "CANCEL"

\* While the product is paused no balance moves; a restricted investor can
\* only exchange units for cash, and one whose credential has expired nothing,
\* by a retry as little as by a submission.
OnlyExits ==
  [][/\ product # "ACTIVE" => UNCHANGED <<cash, units, register>>
     /\ \A i \in Investor :
          /\ credential[i] = "RESTRICTED_EXIT" => units'[i] <= units[i] /\ cash'[i] >= cash[i]
          /\ clock >= ValidUntil[i] => units'[i] = units[i] /\ cash'[i] = cash[i]]_vars

\* The demo reset prepares the synthetic data ("isolated synthetic fixture
\* preparation must succeed", scripts/verify-container-runtime.js:64).
ResetSucceeds == demo # "FAILED"
=============================================================================
