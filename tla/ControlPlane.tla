---------------------------- MODULE ControlPlane ----------------------------
(***************************************************************************)
(* The in-memory control plane of the sandbox (class ControlPlane): the    *)
(* product, its NAV statements, the investors' credentials, their cash and *)
(* units, and the transactions that move them.  A transfer whose legal     *)
(* register does not answer becomes an exception case, which a maker and a *)
(* checker cancel or retry under a new transaction.                        *)
(*                                                                         *)
(* A call runs to its end before the next one starts, so each operation is *)
(* one action.  A call that is refused throws before it has changed        *)
(* anything but the log, and is no step, with one exception: the approval  *)
(* of a retry that the checks refuse.  A call repeated under its           *)
(* idempotency key returns the receipt kept under the key, and is no step  *)
(* either.  The log of events has no reader inside and is left out.        *)
(***************************************************************************)
EXTENDS Integers, SequencesExt, FiniteSetsExt

CONSTANTS
  Issuer, Investor,  \* accounts; each investor holds one credential
  Id,                \* transaction ids
  Key,               \* idempotency keys of the callers, which no retry uses
  Person,            \* makers and checkers
  Nav,               \* signed NAV statements: [price, from, until]
  Units, Price, Fee, \* amounts asked for
  Expiry,            \* times at which transfer intents expire
  InitialCash,       \* cash the seed credits
  MaxUnits,          \* holding limit of a credential
  ValidUntil,        \* end of a credential's validity
  DeviationBps,      \* maxPriceDeviationBps of the product's rules
  Horizon,           \* bound on the clock
  MaxRounds,         \* bound on the proposals made about one case
  None

Account == Investor \union {Issuer}

RetryKey == Id \X Id

ASSUME AccountAssumption == Issuer \notin Investor
ASSUME KeyAssumption == Key \intersect RetryKey = {}
ASSUME NavAssumption ==
  /\ Nav \subseteq [price : Nat \ {0}, from : Nat, until : Nat]
  /\ \A m, n \in Nav : m.from = n.from => m = n
ASSUME AmountAssumption ==
  /\ Units \subseteq Nat \ {0} /\ Price \subseteq Nat \ {0} /\ Fee \subseteq Nat
  /\ InitialCash \in [Account -> Nat] /\ MaxUnits \in [Investor -> Nat]
  /\ ValidUntil \in [Investor -> Nat] /\ DeviationBps \in 0..10000
  /\ Horizon \in Nat

-----------------------------------------------------------------------------
(* The rows of the journal.  None is no row, and no value of a field.      *)

CoreStates == {"REQUESTED", "POLICY_CHECKED", "CASH_RESERVED", "REGISTER_PENDING",
               "REGISTER_FAILED", "REQUIRES_REVIEW", "SETTLED"}
ReviewStates == {"REVIEW_PROPOSED", "REVIEW_APPROVED", "RETRY_BLOCKED", "CANCELLED", "REPLACED"}

History == Seq(CoreStates \union ReviewStates)

TransactionState ==
  {"SETTLED", "REQUIRES_REVIEW", "PENDING_APPROVAL", "CANCELLED", "REPLACED"}

CaseStatus == {"OPEN", "PENDING_APPROVAL", "RESOLVED_CANCELLED", "RESOLVED_RETRIED"}

SubscribeRequest == [id : Id, investor : Investor, units : Units,
                     cash : {n * s.price : n \in Units, s \in Nav}]
RedeemRequest == [id : Id, investor : Investor, units : Units]
TransferRequest == [id : Id, seller : Investor, buyer : Investor, units : Units,
                    price : Price, fee : Fee, expiresAt : Expiry]

TransactionRow ==
  [type : {"SUBSCRIBE", "REDEEM", "TRANSFER"},
   seller : Investor \union {None}, buyer : Investor \union {None},
   units : Nat, cash : Nat, fee : Nat, nav : Nav,
   mode : {"STANDARD", "RESTRICTED_EXIT", "EXCEPTION_REVIEW"},
   state : TransactionState, settledAt : Nat \union {None}, lifecycle : History]

CaseRow ==
  [status : CaseStatus, request : TransferRequest, decision : {"RETRY", "CANCEL", None},
   maker : Person \union {None}, proposed : Id \union {None},
   replacement : Id \union {None}, checker : Person \union {None}]

CashState == {"CONFIRMED", "RELEASED"}

PackageRow ==
  [state : {"SETTLED", "REQUIRES_REVIEW"}, nav : Nav,
   mode : {"STANDARD", "RESTRICTED_EXIT", "EXCEPTION_REVIEW"},
   cashControl : CashState, lifecycle : Seq(CoreStates)]

ReceiptRow == [state : TransactionState, lifecycle : History, package : PackageRow]

IdempotencyRow ==
  [request : SubscribeRequest \union RedeemRequest \union TransferRequest,
   receipt : ReceiptRow]

ASSUME NoneAssumption ==
  /\ None \notin Account \union Id \union Nat \union CashState
  /\ None \notin TransactionRow \union CaseRow \union IdempotencyRow

VARIABLES
  clock,         \* the injected now()
  status,        \* product.status
  navs,          \* evidence of type nav
  restricted,    \* credentialRestrictions
  cash,          \* cashBalances
  units,         \* assetBalances
  register,      \* legalRegister
  transactions,
  cashControl,   \* cashSettlements[id].state
  cases,         \* exceptionCases, by the id of the transaction that failed
  idempotency

environment == <<clock, status, navs, restricted>>
books == <<cash, units, register>>
journal == <<transactions, cashControl, idempotency>>
vars == <<environment, books, journal, cases>>

Init ==
  /\ clock = 0
  /\ status = "ACTIVE"
  /\ navs = {n \in Nav : n.from = 0}
  /\ restricted = {}
  /\ cash = InitialCash
  /\ units = [a \in Account |-> 0]
  /\ register = [a \in Account |-> 0]
  /\ transactions = [t \in Id |-> None]
  /\ cashControl = [t \in Id |-> None]
  /\ cases = [t \in Id |-> None]
  /\ idempotency = [k \in Key \union RetryKey |-> None]

-----------------------------------------------------------------------------
(* What the checks of a transaction read.                                  *)

Eligible(i, additional) ==
  /\ i \notin restricted
  /\ clock < ValidUntil[i]
  /\ units[i] + additional <= MaxUnits[i]

ExitAllowed(i) == i \in restricted \/ clock < ValidUntil[i]

Effective == {n \in navs : n.from <= clock}

\* The statement that took effect last counts, even when it has expired and
\* an older one has not.
LatestNav == CHOOSE n \in Effective : \A m \in Effective : m.from <= n.from

NavIsCurrent == Effective # {} /\ clock < LatestNav.until

Abs(n) == IF n < 0 THEN -n ELSE n

WithinDeviation(price) ==
  Abs(price - LatestNav.price) * 10000 <= LatestNav.price * DeviationBps

\* Mutant: the id of a transaction that failed may be used again.
NewTransaction_Settled(t) ==
  IF transactions[t] = None THEN TRUE ELSE transactions[t].state # "SETTLED"

NewTransaction(t) == transactions[t] = None

Tradable(t) == NewTransaction(t) /\ status = "ACTIVE" /\ NavIsCurrent

-----------------------------------------------------------------------------
(* Transactions and what is kept of them.                                  *)

Checked == <<"REQUESTED", "POLICY_CHECKED", "CASH_RESERVED">>

Transaction(type, seller, buyer, n, amount, fee, mode) ==
  [type |-> type, seller |-> seller, buyer |-> buyer, units |-> n, cash |-> amount,
   fee |-> fee, nav |-> LatestNav, mode |-> mode, state |-> "SETTLED", settledAt |-> clock,
   lifecycle |-> Checked \o <<"REGISTER_PENDING", "SETTLED">>]

Failed(tx) ==
  [tx EXCEPT !.state = "REQUIRES_REVIEW", !.settledAt = None, !.mode = "EXCEPTION_REVIEW",
             !.lifecycle = Checked \o <<"REGISTER_FAILED", "REQUIRES_REVIEW">>]

\* The core steps of a history, in their order.
CoreSteps(history) ==
  LET steps[n \in 0..Len(history)] ==
        IF n = 0 THEN <<>>
        ELSE IF history[n] \in CoreStates THEN Append(steps[n - 1], history[n])
        ELSE steps[n - 1]
  IN steps[Len(history)]

\* transactionEvidencePackage: the part its hash covers.
Package(tx, control) ==
  [state |-> IF tx.settledAt = None THEN "REQUIRES_REVIEW" ELSE "SETTLED",
   nav |-> tx.nav, mode |-> tx.mode, cashControl |-> control,
   lifecycle |-> CoreSteps(tx.lifecycle)]

Receipt(tx, control) ==
  [state |-> tx.state, lifecycle |-> tx.lifecycle, package |-> Package(tx, control)]

Recorded(k, request, tx, control) ==
  [idempotency EXCEPT ![k] = [request |-> request, receipt |-> Receipt(tx, control)]]

\* A new transaction, the state of its cash, and the receipt under its key.
Keep(k, request, tx, control) ==
  /\ idempotency[k] = None
  /\ transactions' = [transactions EXCEPT ![request.id] = tx]
  /\ cashControl' = [cashControl EXCEPT ![request.id] = control]
  /\ idempotency' = Recorded(k, request, tx, control)

-----------------------------------------------------------------------------
(* Subscriptions and redemptions, against the issuer and at the NAV.       *)

Subscribe(k, r) ==
  LET i == r.investor
      tx == Transaction("SUBSCRIBE", None, i, r.units, r.cash, 0, "STANDARD")
  IN /\ Tradable(r.id)
     /\ Eligible(i, r.units)
     /\ r.cash = r.units * LatestNav.price
     /\ cash[i] >= r.cash
     /\ cash' = [cash EXCEPT ![i] = @ - r.cash, ![Issuer] = @ + r.cash]
     /\ units' = [units EXCEPT ![i] = @ + r.units]
     /\ register' = [register EXCEPT ![i] = @ + r.units]
     /\ Keep(k, r, tx, "CONFIRMED")
     /\ UNCHANGED <<environment, cases>>

Redeem(k, r) ==
  LET i == r.investor
      amount == r.units * LatestNav.price
      mode == IF i \in restricted THEN "RESTRICTED_EXIT" ELSE "STANDARD"
      tx == Transaction("REDEEM", i, None, r.units, amount, 0, mode)
  IN /\ Tradable(r.id)
     /\ ExitAllowed(i)
     /\ units[i] >= r.units
     /\ cash[Issuer] >= amount
     /\ units' = [units EXCEPT ![i] = @ - r.units]
     /\ register' = [register EXCEPT ![i] = @ - r.units]
     /\ cash' = [cash EXCEPT ![Issuer] = @ - amount, ![i] = @ + amount]
     /\ Keep(k, r, tx, "CONFIRMED")
     /\ UNCHANGED <<environment, cases>>

-----------------------------------------------------------------------------
(* Transfers between investors, settled or left to the register's failure. *)

Consideration(r) == r.units * r.price

MayTransfer(r) ==
  /\ Tradable(r.id)
  /\ clock < r.expiresAt
  /\ r.seller # r.buyer
  /\ units[r.seller] >= r.units
  /\ Eligible(r.seller, 0)
  /\ Eligible(r.buyer, r.units)
  /\ WithinDeviation(r.price)
  /\ cash[r.buyer] >= Consideration(r) + r.fee

TransferOf(r) ==
  Transaction("TRANSFER", r.seller, r.buyer, r.units, Consideration(r), r.fee, "STANDARD")

Delivered(book, r) == [book EXCEPT ![r.seller] = @ - r.units, ![r.buyer] = @ + r.units]

Exchange(r) ==
  /\ cash' = [cash EXCEPT ![r.buyer] = @ - Consideration(r) - r.fee,
                          ![r.seller] = @ + Consideration(r),
                          ![Issuer] = @ + r.fee]
  /\ units' = Delivered(units, r)
  /\ register' = Delivered(register, r)

Transfer(k, r) ==
  /\ MayTransfer(r)
  /\ Exchange(r)
  /\ Keep(k, r, TransferOf(r), "CONFIRMED")
  /\ UNCHANGED <<environment, cases>>

\* Mutant: the buyer's cash is reserved by debiting it and never given back.
ReleaseReservation_Forgotten(r) ==
  /\ cash' = [cash EXCEPT ![r.buyer] = @ - Consideration(r)]
  /\ UNCHANGED <<units, register>>

\* The reservation is released: nothing moves but the journal.
ReleaseReservation(r) == UNCHANGED books

SimulateRegisterFailure(k, r) ==
  /\ MayTransfer(r)
  /\ ReleaseReservation(r)
  /\ Keep(k, r, Failed(TransferOf(r)), "RELEASED")
  /\ cases' = [cases EXCEPT ![r.id] =
       [status |-> "OPEN", request |-> r, decision |-> None, maker |-> None,
        proposed |-> None, replacement |-> None, checker |-> None]]
  /\ UNCHANGED environment

-----------------------------------------------------------------------------
(* The review of a failed transfer.                                        *)

Moved(tx, state, steps) == [tx EXCEPT !.state = state, !.lifecycle = @ \o steps]

Rounds(c) == Len(SelectSeq(transactions[c].lifecycle, LAMBDA s : s = "REVIEW_PROPOSED"))

ProposeResolution(c, maker, decision, replacement) ==
  /\ cases[c] # None /\ cases[c].status = "OPEN"
  /\ decision = "RETRY" => replacement # None
  /\ Rounds(c) < MaxRounds
  /\ cases' = [cases EXCEPT ![c] =
       [@ EXCEPT !.status = "PENDING_APPROVAL", !.decision = decision,
                 !.maker = maker, !.proposed = replacement]]
  /\ transactions' = [transactions EXCEPT ![c] =
       Moved(@, "PENDING_APPROVAL", <<"REVIEW_PROPOSED">>)]
  /\ UNCHANGED <<environment, books, cashControl, idempotency>>

\* Mutant: a proposal is approved by anyone, its maker included.
MayApprove_Anyone(c, checker) ==
  cases[c] # None /\ cases[c].status = "PENDING_APPROVAL"

MayApprove(c, checker) ==
  /\ cases[c] # None /\ cases[c].status = "PENDING_APPROVAL"
  /\ checker # cases[c].maker

ApproveCancel(c, checker) ==
  /\ MayApprove(c, checker) /\ cases[c].decision = "CANCEL"
  /\ transactions' = [transactions EXCEPT ![c] =
       Moved(@, "CANCELLED", <<"REVIEW_APPROVED", "CANCELLED">>)]
  /\ cases' = [cases EXCEPT ![c] =
       [@ EXCEPT !.status = "RESOLVED_CANCELLED", !.checker = checker]]
  /\ UNCHANGED <<environment, books, cashControl, idempotency>>

\* The transfer that is tried again: the request of the case, a new id.
Retry(c) == [cases[c].request EXCEPT !.id = cases[c].proposed]

ApproveRetry(c, checker) ==
  LET r == Retry(c)
      tx == TransferOf(r)
      k == <<c, r.id>>
  IN /\ MayApprove(c, checker) /\ cases[c].decision = "RETRY"
     /\ MayTransfer(r)
     /\ Exchange(r)
     /\ transactions' = [transactions EXCEPT ![r.id] = tx, ![c] =
          Moved(@, "REPLACED", <<"REVIEW_APPROVED", "REPLACED">>)]
     /\ cashControl' = [cashControl EXCEPT ![r.id] = "CONFIRMED"]
     /\ idempotency' = Recorded(k, r, tx, "CONFIRMED")
     /\ cases' = [cases EXCEPT ![c] =
          [@ EXCEPT !.status = "RESOLVED_RETRIED", !.checker = checker, !.replacement = r.id]]
     /\ UNCHANGED environment

\* Mutant: the history of the failed transfer returns to its last core state.
Reopened_Again(tx) == Moved(tx, "REQUIRES_REVIEW", <<"REVIEW_APPROVED", "REQUIRES_REVIEW">>)

Reopened(tx) == Moved(tx, "REQUIRES_REVIEW", <<"REVIEW_APPROVED", "RETRY_BLOCKED">>)

\* The transfer throws: the approval is answered with its error, and the case
\* waits for another proposal.
BlockRetry(c, checker) ==
  /\ MayApprove(c, checker) /\ cases[c].decision = "RETRY"
  /\ ~MayTransfer(Retry(c))
  /\ transactions' = [transactions EXCEPT ![c] = Reopened(@)]
  /\ cases' = [cases EXCEPT ![c] =
       [@ EXCEPT !.status = "OPEN", !.decision = None, !.maker = None, !.proposed = None]]
  /\ UNCHANGED <<environment, books, cashControl, idempotency>>

-----------------------------------------------------------------------------
(* Controls and evidence.                                                  *)

PauseProduct ==
  /\ status = "ACTIVE"
  /\ status' = "PAUSED"
  /\ UNCHANGED <<clock, navs, restricted, books, journal, cases>>

ActivateProduct ==
  /\ status = "PAUSED"
  /\ status' = "ACTIVE"
  /\ UNCHANGED <<clock, navs, restricted, books, journal, cases>>

RevokeCredential(i) ==
  /\ i \notin restricted
  /\ restricted' = restricted \union {i}
  /\ UNCHANGED <<clock, status, navs, books, journal, cases>>

SubmitEvidence(n) ==
  /\ n \notin navs
  /\ navs' = navs \union {n}
  /\ UNCHANGED <<clock, status, restricted, books, journal, cases>>

Tick ==
  /\ clock < Horizon
  /\ clock' = clock + 1
  /\ UNCHANGED <<status, navs, restricted, books, journal, cases>>

Known == {t \in Id : transactions[t] # None}
SettledIds == {t \in Known : transactions[t].state = "SETTLED"}

TotalOf(book) == SumFunction(book)

\* reconcile: accountingControlsMatched.
Reconciled ==
  /\ TotalOf(units) = TotalOf(register)
  /\ \A t \in SettledIds : cashControl[t] = "CONFIRMED"

-----------------------------------------------------------------------------
Trade ==
  \E k \in Key :
    \/ \E r \in SubscribeRequest : Subscribe(k, r)
    \/ \E r \in RedeemRequest : Redeem(k, r)
    \/ \E r \in TransferRequest : Transfer(k, r) \/ SimulateRegisterFailure(k, r)

Review ==
  \E c \in Id, p \in Person :
    \/ ProposeResolution(c, p, "CANCEL", None)
    \/ \E t \in Id : ProposeResolution(c, p, "RETRY", t)
    \/ ApproveCancel(c, p)
    \/ ApproveRetry(c, p)
    \/ BlockRetry(c, p)

Control ==
  \/ PauseProduct \/ ActivateProduct \/ Tick
  \/ \E i \in Investor : RevokeCredential(i)
  \/ \E n \in Nav : SubmitEvidence(n)

Next == Trade \/ Review \/ Control

Spec == Init /\ [][Next]_vars

-----------------------------------------------------------------------------
(* Properties.                                                             *)

\* The variables hold what the maps of the class hold.
TypeOK ==
  /\ clock \in 0..Horizon
  /\ status \in {"ACTIVE", "PAUSED"}
  /\ navs \subseteq Nav /\ restricted \subseteq Investor
  /\ \A book \in {cash, units, register} : book \in [Account -> Nat]
  /\ transactions \in [Id -> TransactionRow \union {None}]
  /\ cases \in [Id -> CaseRow \union {None}]
  /\ cashControl \in [Id -> CashState \union {None}]
  /\ idempotency \in [Key \union RetryKey -> IdempotencyRow \union {None}]

Received(a, t) == IF transactions[t].buyer = a THEN transactions[t].units ELSE 0
Given(a, t) == IF transactions[t].seller = a THEN transactions[t].units ELSE 0

Payer(tx) == IF tx.buyer = None THEN Issuer ELSE tx.buyer
Payee(tx) == IF tx.seller = None THEN Issuer ELSE tx.seller

Income(a, tx) == (IF Payee(tx) = a THEN tx.cash ELSE 0) + (IF a = Issuer THEN tx.fee ELSE 0)
Expense(a, tx) == IF Payer(tx) = a THEN tx.cash + tx.fee ELSE 0

\* The register, the units and the cash of every account are what the settled
\* transactions add up to, reconcile always finds its controls matched, and the
\* cash of every other transaction was released: whatever fails, is reviewed,
\* retried or cancelled leaves nothing behind in the books.
BooksAreSettledEffects ==
  /\ \A a \in Account :
       /\ units[a] = register[a]
       /\ units[a] = SumFunction([t \in SettledIds |-> Received(a, t) - Given(a, t)])
       /\ cash[a] = InitialCash[a]
            + SumFunction([t \in SettledIds |->
                             Income(a, transactions[t]) - Expense(a, transactions[t])])
  /\ Reconciled
  /\ \A t \in Known \ SettledIds : cashControl[t] = "RELEASED"

RecordedKeys == {k \in DOMAIN idempotency : idempotency[k] # None}

\* Every transaction stands under exactly one idempotency key and every key
\* under which something is kept has its transaction: a request that is
\* repeated, under its own key or another, settles once.
OneKeyPerTransaction ==
  /\ \A k \in RecordedKeys : idempotency[k].request.id \in Known
  /\ \A t \in Known :
       \E k \in RecordedKeys :
         /\ idempotency[k].request.id = t
         /\ \A l \in RecordedKeys \ {k} : idempotency[l].request.id # t

\* A receipt, once issued, stays verifiable: the hash of the evidence package
\* it carries is the hash of the package served now, and its history is the
\* beginning of the transaction's.  Reviews, retries and cancellations add to
\* the history only what the package does not cover.
ReceiptsStayTrue ==
  \A k \in RecordedKeys :
    LET receipt == idempotency[k].receipt
        t == idempotency[k].request.id
    IN /\ receipt.package = Package(transactions[t], cashControl[t])
       /\ IsPrefix(receipt.lifecycle, transactions[t].lifecycle)

SameTerms(tx, r) ==
  /\ tx.seller = r.seller /\ tx.buyer = r.buyer /\ tx.units = r.units
  /\ tx.cash = r.units * r.price /\ tx.fee = r.fee

CaseState ==
  [OPEN |-> "REQUIRES_REVIEW", PENDING_APPROVAL |-> "PENDING_APPROVAL",
   RESOLVED_CANCELLED |-> "CANCELLED", RESOLVED_RETRIED |-> "REPLACED"]

\* A case and the transaction that failed tell the same story, two people
\* resolved it, and a case that was retried has one settled replacement on the
\* terms of the failed transfer, which replaces nothing else: a failed
\* transfer is made good at most once.
ExceptionsSettleOnce ==
  \A c \in Id :
    cases[c] # None =>
      /\ transactions[c].state = CaseState[cases[c].status]
      /\ cases[c].checker # None => cases[c].checker # cases[c].maker
      /\ cases[c].status = "RESOLVED_RETRIED" =>
           LET t == cases[c].replacement
           IN /\ t \in SettledIds /\ SameTerms(transactions[t], cases[c].request)
              /\ \A d \in Id \ {c} : cases[d] # None => cases[d].replacement # t
=============================================================================
