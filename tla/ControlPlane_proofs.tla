------------------------ MODULE ControlPlane_proofs -------------------------
(***************************************************************************)
(* Safety of the in-memory control plane, for any accounts, transactions,  *)
(* keys, people, NAV statements, amounts and limits.                       *)
(***************************************************************************)
EXTENDS ControlPlane, FiniteSetLemmas

\* The key a retry is kept under names the transaction it makes.
RetryKeysFit ==
  \A k \in RecordedKeys \cap RetryKey : idempotency[k].request.id = k[2]

\* A case belongs to a transaction; only a case that was retried has a
\* replacement, only a resolved one a checker, and a retry is proposed with an id.
CasesFit ==
  \A c \in Id : cases[c] # None =>
    /\ transactions[c] # None
    /\ cases[c].replacement # None <=> cases[c].status = "RESOLVED_RETRIED"
    /\ cases[c].status \in {"OPEN", "PENDING_APPROVAL"} => cases[c].checker = None
    /\ cases[c].status = "PENDING_APPROVAL" /\ cases[c].decision = "RETRY"
         => cases[c].proposed # None

\* What a settled transaction moves on the account of a.
UnitMove(tx, a) ==
  (IF tx.buyer = a THEN tx.units ELSE 0) - (IF tx.seller = a THEN tx.units ELSE 0)

CashMove(tx, a) == Income(a, tx) - Expense(a, tx)

UnitMoves(a) == [t \in SettledIds |-> UnitMove(transactions[t], a)]
CashMoves(a) == [t \in SettledIds |-> CashMove(transactions[t], a)]

\* The books are the sums of what has settled, which is finitely much.
Booked ==
  /\ IsFiniteSet(SettledIds)
  /\ register = units
  /\ \A a \in Account : /\ units[a] = SumFunction(UnitMoves(a))
                        /\ cash[a] = InitialCash[a] + SumFunction(CashMoves(a))
  /\ \A t \in SettledIds : cashControl[t] = "CONFIRMED"
  /\ \A t \in Known \ SettledIds : cashControl[t] = "RELEASED"

IInv ==
  /\ TypeOK
  /\ Booked
  /\ OneKeyPerTransaction
  /\ RetryKeysFit
  /\ ReceiptsStayTrue
  /\ CasesFit
  /\ ExceptionsSettleOnce

-----------------------------------------------------------------------------
(* The core steps of a history.                                            *)

\* f[i] holds the core steps among the first i, up to n.
Collects(f, history, n) ==
  /\ f[0] = <<>>
  /\ \A i \in 1..n :
       f[i] = IF history[i] \in CoreStates THEN Append(f[i - 1], history[i]) ELSE f[i - 1]

Selects(f, history, n) == f \in [0..n -> Seq(CoreStates)] /\ Collects(f, history, n)

\* Two such functions agree.
LEMMA SelectsOnce ==
  ASSUME NEW n \in Nat, NEW history, NEW f, NEW g,
         Collects(f, history, n), Collects(g, history, n)
  PROVE  \A i \in 0..n : f[i] = g[i]
<1> DEFINE B == {i \in 0..n : f[i] # g[i]}
<1> SUFFICES ASSUME B # {} PROVE FALSE
  OBVIOUS
<1>1. B \in SUBSET Nat
  OBVIOUS
<1>2. PICK i \in B : \A j \in B : i <= j
  <2> HIDE DEF B
  <2> QED BY <1>1, LeastExists
<1>3. i \in 1..n /\ f[i] # g[i]
  BY DEF Collects
<1>4. i - 1 \in 0..n /\ i - 1 \notin B
  BY <1>2, <1>3
<1>5. f[i - 1] = g[i - 1]
  BY <1>4
<1> QED BY <1>3, <1>5 DEF Collects

\* The core steps can be collected.
LEMMA SelectsExists ==
  ASSUME NEW history \in History
  PROVE  \A n \in 0..Len(history) : \E f : Selects(f, history, n)
<1> USE DEF History
<1> DEFINE B == {n \in 0..Len(history) : ~ \E f : Selects(f, history, n)}
<1> SUFFICES ASSUME B # {} PROVE FALSE
  OBVIOUS
<1>1. B \in SUBSET Nat
  OBVIOUS
<1>2. PICK n \in B : \A j \in B : n <= j
  <2> HIDE DEF B
  <2> QED BY <1>1, LeastExists
<1>3. n \in 0..Len(history) /\ ~ \E f : Selects(f, history, n)
  OBVIOUS
<1>4. n # 0
  <2>1. Selects([i \in 0..0 |-> <<>>], history, 0)
    BY DEF Selects, Collects
  <2> QED BY <1>3, <2>1
<1>5. n - 1 \in 0..Len(history) /\ n - 1 \notin B /\ n \in Nat
  BY <1>2, <1>3, <1>4
<1>6. PICK f : Selects(f, history, n - 1)
  BY <1>5
<1> DEFINE step == IF history[n] \in CoreStates THEN Append(f[n - 1], history[n]) ELSE f[n - 1]
           g == [i \in 0..n |-> IF i = n THEN step ELSE f[i]]
<1>7. f[n - 1] \in Seq(CoreStates) /\ \A i \in 0..(n - 1) : f[i] \in Seq(CoreStates)
  BY <1>3, <1>4, <1>6 DEF Selects, Collects
<1>8. step \in Seq(CoreStates)
  BY <1>7
<1> HIDE DEF step
<1>9. g \in [0..n -> Seq(CoreStates)]
  BY <1>3, <1>7, <1>8
<1>10. g[0] = <<>>
  BY <1>3, <1>4, <1>6 DEF Selects, Collects
<1>11. ASSUME NEW i \in 1..n
       PROVE  g[i] = IF history[i] \in CoreStates
                     THEN Append(g[i - 1], history[i])
                     ELSE g[i - 1]
  <2>1. g[i - 1] = f[i - 1]
    BY <1>3
  <2>2. CASE i = n
    BY <2>1, <2>2 DEF step
  <2>3. CASE i # n
    <3>1. i \in 1..(n - 1) /\ g[i] = f[i]
      BY <2>3, <1>3
    <3> QED BY <2>1, <3>1, <1>6 DEF Selects, Collects
  <2> QED BY <2>2, <2>3
<1> HIDE DEF g
<1>12. Selects(g, history, n)
  BY <1>9, <1>10, <1>11 DEF Selects, Collects
<1> QED BY <1>3, <1>12

\* CoreSteps is the last value of the function that collects them.
LEMMA CoreStepsAre ==
  ASSUME NEW history \in History, NEW g, Selects(g, history, Len(history))
  PROVE  CoreSteps(history) = g[Len(history)] /\ CoreSteps(history) \in Seq(CoreStates)
<1> USE DEF History
<1> DEFINE n == Len(history)
           Step(f) == [i \in 0..n |->
             IF i = 0 THEN <<>>
             ELSE IF history[i] \in CoreStates THEN Append(f[i - 1], history[i])
             ELSE f[i - 1]]
<1>1. n \in Nat
  OBVIOUS
<1> HIDE DEF n
<1>2. g \in [0..n -> Seq(CoreStates)] /\ g[0] = <<>>
  BY DEF Selects, Collects, n
<1>3. \A i \in 1..n :
        g[i] = IF history[i] \in CoreStates THEN Append(g[i - 1], history[i]) ELSE g[i - 1]
  BY DEF Selects, Collects, n
<1>4. g = Step(g)
  <2>1. ASSUME NEW i \in 0..n PROVE g[i] = Step(g)[i]
    <3>1. CASE i = 0
      BY <3>1, <1>2
    <3>2. CASE i \in 1..n
      <4>1. i # 0
        BY <3>2, <1>1
      <4> QED BY <4>1, <3>2, <1>3
    <3> QED BY <3>1, <3>2, <1>1
  <2> HIDE DEF Step
  <2>2. Step(g) = [i \in 0..n |-> Step(g)[i]]
    BY DEF Step
  <2> QED BY <2>1, <2>2, <1>2
<1>5. ASSUME NEW f, f = Step(f) PROVE f = g
  <2>1. \A i \in 0..n : f[i] = Step(f)[i]
    BY <1>5
  <2>2. f[0] = <<>>
    BY <2>1, <1>1
  <2>3. \A i \in 1..n :
          f[i] = IF history[i] \in CoreStates THEN Append(f[i - 1], history[i]) ELSE f[i - 1]
    BY <2>1, <1>1
  <2>4. \A i \in 0..n : f[i] = g[i]
    <3>1. Collects(f, history, n) /\ Collects(g, history, n)
      BY <2>2, <2>3, <1>2, <1>3 DEF Collects
    <3> HIDE DEF Step
    <3> QED BY <3>1, <1>1, SelectsOnce
  <2>5. f = [i \in 0..n |-> f[i]] /\ g = [i \in 0..n |-> g[i]]
    BY <1>5, <1>2
  <2> QED BY <2>4, <2>5
<1>6. CoreSteps(history) = (CHOOSE f : f = Step(f))[n]
  BY DEF CoreSteps, n
<1> HIDE DEF Step
<1>7. (CHOOSE f : f = Step(f)) = g
  BY <1>4, <1>5
<1>8. CoreSteps(history) = g[n]
  BY <1>6, <1>7, Zenon
<1>9. g[n] \in Seq(CoreStates)
  BY <1>1, <1>2
<1> QED BY <1>8, <1>9 DEF n

\* The core steps of a history are core steps.
LEMMA CoreStepsType ==
  ASSUME NEW history \in History PROVE CoreSteps(history) \in Seq(CoreStates)
<1>1. Len(history) \in 0..Len(history)
  BY DEF History
<1>2. PICK g : Selects(g, history, Len(history))
  BY <1>1, SelectsExists
<1> QED BY <1>2, CoreStepsAre

\* What is appended to a history and is no core step leaves the core steps alone.
LEMMA CoreStepsStay ==
  ASSUME NEW history \in History, NEW more \in Seq(ReviewStates)
  PROVE  CoreSteps(history \o more) = CoreSteps(history)
<1> DEFINE all == history \o more  m == Len(history)  n == Len(all)
<1>1. /\ all \in History /\ history \in History /\ m \in Nat /\ n \in Nat /\ m <= n
      /\ \A i \in 1..m : all[i] = history[i]
      /\ \A i \in (m + 1)..n : all[i] \notin CoreStates
  <2>1. n = m + Len(more) /\ m \in Nat /\ Len(more) \in Nat /\ all \in History
    BY DEF History
  <2>2. \A i \in 1..m : all[i] = history[i]
    BY DEF History
  <2>3. ASSUME NEW i \in (m + 1)..n PROVE all[i] \notin CoreStates
    <3>1. i - m \in 1..Len(more) /\ all[i] = more[i - m]
      BY <2>1
    <3>2. more[i - m] \in ReviewStates
      BY <3>1
    <3> QED BY <3>1, <3>2 DEF CoreStates, ReviewStates
  <2> QED BY <2>1, <2>2, <2>3
<1> HIDE DEF all
<1>2. PICK g : Selects(g, all, n)
  <2>1. n \in 0..n
    BY <1>1
  <2> QED BY <1>1, <2>1, SelectsExists
<1>3. CoreSteps(all) = g[n]
  BY <1>1, <1>2, CoreStepsAre
<1>4. CoreSteps(history) = g[m]
  <2> DEFINE h == [i \in 0..m |-> g[i]]
  <2>1. h \in [0..m -> Seq(CoreStates)]
    <3>1. \A i \in 0..m : g[i] \in Seq(CoreStates)
      BY <1>1, <1>2 DEF Selects, Collects
    <3> QED BY <3>1
  <2>2. h[0] = <<>>
    BY <1>1, <1>2 DEF Selects, Collects
  <2>3. ASSUME NEW i \in 1..m
        PROVE  h[i] = IF history[i] \in CoreStates
                      THEN Append(h[i - 1], history[i])
                      ELSE h[i - 1]
    <3>1. i \in 1..n /\ all[i] = history[i] /\ h[i] = g[i] /\ h[i - 1] = g[i - 1]
      BY <1>1
    <3> QED BY <3>1, <1>2 DEF Selects, Collects
  <2>4. h[m] = g[m]
    BY <1>1
  <2> HIDE DEF h
  <2>5. Selects(h, history, m)
    BY <2>1, <2>2, <2>3 DEF Selects, Collects
  <2> QED BY <2>4, <2>5, CoreStepsAre
<1>5. g[n] = g[m]
  <2> DEFINE B == {i \in m..n : g[i] # g[m]}
  <2> SUFFICES ASSUME B # {} PROVE FALSE
    BY <1>1
  <2>1. B \in SUBSET Nat
    BY <1>1
  <2>2. PICK i \in B : \A j \in B : i <= j
    <3> HIDE DEF B
    <3> QED BY <2>1, LeastExists
  <2>3. i \in (m + 1)..n /\ g[i] # g[m]
    BY <1>1
  <2>4. i - 1 \in m..n /\ i - 1 \notin B /\ i \in 1..n
    BY <2>2, <2>3, <1>1
  <2>5. g[i - 1] = g[m]
    BY <2>4
  <2>6. g[i] = g[i - 1]
    BY <2>3, <2>4, <1>1, <1>2 DEF Selects, Collects
  <2> QED BY <2>3, <2>5, <2>6
<1> QED BY <1>3, <1>4, <1>5 DEF all

-----------------------------------------------------------------------------
(* Rows.                                                                   *)

\* The amounts asked for are natural numbers.
LEMMA AmountType == Units \subseteq Nat /\ Price \subseteq Nat /\ Fee \subseteq Nat
  BY AmountAssumption

\* The fields of a request.
LEMMA TransferRequestType ==
  ASSUME NEW r \in TransferRequest
  PROVE  /\ r.id \in Id /\ r.seller \in Investor /\ r.buyer \in Investor
         /\ r.units \in Nat /\ r.price \in Nat /\ r.fee \in Nat
         /\ Consideration(r) \in Nat
<1>1. /\ r.id \in Id /\ r.seller \in Investor /\ r.buyer \in Investor
      /\ r.units \in Nat /\ r.price \in Nat /\ r.fee \in Nat
  <2>1. /\ r.id \in Id /\ r.seller \in Investor /\ r.buyer \in Investor
        /\ r.units \in Units /\ r.price \in Price /\ r.fee \in Fee
    BY DEF TransferRequest
  <2> QED BY <2>1, AmountType
<1>2. Consideration(r) \in Nat
  BY <1>1, Product DEF Consideration
<1> QED BY <1>1, <1>2

\* A subscription names its investor, its units and its cash.
LEMMA SubscribeRequestType ==
  ASSUME NEW r \in SubscribeRequest
  PROVE  r.id \in Id /\ r.investor \in Investor /\ r.units \in Nat /\ r.cash \in Nat
<1>1. r.id \in Id /\ r.investor \in Investor /\ r.units \in Units
  BY DEF SubscribeRequest
<1>2. \E n \in Units, s \in Nav : r.cash = n * s.price
  <2>1. r.cash \in {n * s.price : n \in Units, s \in Nav}
    BY DEF SubscribeRequest
  <2> QED BY <2>1
<1>3. \A n \in Units, s \in Nav : n * s.price \in Nat
  <2>1. \A n \in Units, s \in Nav : n \in Nat /\ s.price \in Nat
    BY AmountType, NavAssumption
  <2> QED BY <2>1, Product
<1>4. r.cash \in Nat
  BY <1>2, <1>3, Zenon
<1> QED BY <1>1, <1>4, AmountType

\* A redemption names its investor and its units.
LEMMA RedeemRequestType ==
  ASSUME NEW r \in RedeemRequest
  PROVE  r.id \in Id /\ r.investor \in Investor /\ r.units \in Nat
<1>1. r.id \in Id /\ r.investor \in Investor /\ r.units \in Units
  BY DEF RedeemRequest
<1> QED BY <1>1, AmountType

\* A statement is in force: the latest one exists.
LEMMA LatestNavType ==
  ASSUME TypeOK, NavIsCurrent
  PROVE  LatestNav \in Nav /\ LatestNav.price \in Nat
<1>1. clock \in Nat /\ \A n \in Effective : n \in Nav /\ n.from \in Nat /\ n.from <= clock
  BY NavAssumption, AmountAssumption DEF TypeOK, Effective
<1> DEFINE S == {n.from : n \in Effective}
<1>2. S \in SUBSET Nat /\ S # {} /\ \A x \in S : x <= clock
  BY <1>1 DEF NavIsCurrent
<1>3. PICK x \in S : \A y \in S : y <= x
  <2> HIDE DEF S
  <2> QED BY <1>1, <1>2, GreatestExists
<1>4. \E n \in Effective : \A m \in Effective : m.from <= n.from
  BY <1>3
<1>5. LatestNav \in Effective
  BY <1>4 DEF LatestNav
<1> QED BY <1>1, <1>5, NavAssumption

\* What a transaction takes from the state of the product.
LEMMA BookedType ==
  ASSUME TypeOK, NavIsCurrent
  PROVE  /\ clock \in Nat /\ LatestNav \in Nav
         /\ Checked \o <<"REGISTER_PENDING", "SETTLED">> \in History
<1>1. clock \in Nat /\ LatestNav \in Nav
  BY LatestNavType, AmountAssumption DEF TypeOK
<1>2. Checked \o <<"REGISTER_PENDING", "SETTLED">> \in History
  BY DEF Checked, History, CoreStates, ReviewStates
<1> QED BY <1>1, <1>2

\* A transaction that failed is a row.
LEMMA FailedType ==
  ASSUME NEW tx \in TransactionRow
  PROVE  Failed(tx) \in TransactionRow /\ Failed(tx).state = "REQUIRES_REVIEW"
<1>1. Checked \o <<"REGISTER_FAILED", "REQUIRES_REVIEW">> \in History
  BY DEF Checked, History, CoreStates, ReviewStates
<1> QED BY <1>1 DEF Failed, TransactionRow, TransactionState

\* A transfer is booked on the terms of its request.
LEMMA TransferOfType ==
  ASSUME TypeOK, NEW r \in TransferRequest, MayTransfer(r)
  PROVE  /\ TransferOf(r) \in TransactionRow /\ TransferOf(r).state = "SETTLED"
         /\ TransferOf(r).seller = r.seller /\ TransferOf(r).buyer = r.buyer
         /\ TransferOf(r).units = r.units /\ TransferOf(r).cash = Consideration(r)
         /\ TransferOf(r).fee = r.fee
<1>1. NavIsCurrent
  BY DEF MayTransfer, Tradable
<1>2. /\ r.seller \in Investor /\ r.buyer \in Investor
      /\ r.units \in Nat /\ Consideration(r) \in Nat /\ r.fee \in Nat
  BY TransferRequestType
<1>3. /\ clock \in Nat /\ LatestNav \in Nav
      /\ Checked \o <<"REGISTER_PENDING", "SETTLED">> \in History
  BY <1>1, BookedType
<1> QED BY <1>2, <1>3 DEF TransferOf, Transaction, TransactionRow, TransactionState

\* The later row of a transaction continues the earlier one: what its receipt
\* covers is as it was, and its history has grown by steps that are no core steps.
Continues(old, new) ==
  /\ new.settledAt = old.settledAt /\ new.nav = old.nav /\ new.mode = old.mode
  /\ \E more \in Seq(ReviewStates) : new.lifecycle = old.lifecycle \o more

\* A transaction that is left alone continues itself.
LEMMA ContinuesItself ==
  ASSUME NEW tx \in TransactionRow PROVE Continues(tx, tx)
<1>1. tx.lifecycle \in Seq(CoreStates \cup ReviewStates)
  BY DEF TransactionRow, History
<1>2. <<>> \in Seq(ReviewStates) /\ tx.lifecycle \o <<>> = tx.lifecycle
  BY <1>1
<1> QED BY <1>2 DEF Continues

\* A review step of one or two entries.
LEMMA MovedContinues ==
  ASSUME NEW tx \in TransactionRow, NEW s \in TransactionState, NEW more \in Seq(ReviewStates)
  PROVE  /\ Moved(tx, s, more) \in TransactionRow /\ Moved(tx, s, more).state = s
         /\ Continues(tx, Moved(tx, s, more))
<1>1. Moved(tx, s, more) = [tx EXCEPT !.state = s, !.lifecycle = tx.lifecycle \o more]
  BY DEF Moved
<1>2. tx.lifecycle \o more \in History
  BY DEF TransactionRow, History
<1>3. /\ Moved(tx, s, more) \in TransactionRow /\ Moved(tx, s, more).state = s
      /\ Moved(tx, s, more).lifecycle = tx.lifecycle \o more
      /\ Moved(tx, s, more).settledAt = tx.settledAt
      /\ Moved(tx, s, more).nav = tx.nav /\ Moved(tx, s, more).mode = tx.mode
  BY <1>1, <1>2 DEF TransactionRow
<1> QED BY <1>3 DEF Continues

\* A package has its shape, and is served unchanged of a row that continues.
LEMMA PackageType ==
  ASSUME NEW tx \in TransactionRow, NEW control \in CashState
  PROVE  Package(tx, control) \in PackageRow
<1>1. CoreSteps(tx.lifecycle) \in Seq(CoreStates)
  BY CoreStepsType DEF TransactionRow
<1> QED BY <1>1 DEF Package, PackageRow, TransactionRow

\* The package of a transaction that goes on is the one it had.
LEMMA PackageStays ==
  ASSUME NEW old \in TransactionRow, NEW new \in TransactionRow, Continues(old, new),
         NEW control
  PROVE  Package(new, control) = Package(old, control)
<1>1. PICK more \in Seq(ReviewStates) : new.lifecycle = old.lifecycle \o more
  BY DEF Continues
<1>2. old.lifecycle \in History
  BY DEF TransactionRow
<1>3. CoreSteps(new.lifecycle) = CoreSteps(old.lifecycle)
  BY <1>1, <1>2, CoreStepsStay
<1> QED BY <1>3 DEF Package, Continues

\* What begins a history begins every continuation of it.
LEMMA PrefixStays ==
  ASSUME NEW old \in TransactionRow, NEW new \in TransactionRow, Continues(old, new),
         NEW h \in History, IsPrefix(h, old.lifecycle)
  PROVE  IsPrefix(h, new.lifecycle)
<1>1. PICK more \in Seq(ReviewStates) : new.lifecycle = old.lifecycle \o more
  BY DEF Continues
<1>2. old.lifecycle \in History
  BY DEF TransactionRow
<1> QED BY <1>1, <1>2 DEF IsPrefix

-----------------------------------------------------------------------------
(* Receipts and keys.                                                      *)

\* The id of a request is an id.
LEMMA RequestId ==
  ASSUME NEW r \in SubscribeRequest \cup RedeemRequest \cup TransferRequest
  PROVE  r.id \in Id
BY TransferRequestType, SubscribeRequestType, RedeemRequestType

\* A receipt stays true of a transaction that continues.
LEMMA ReceiptStays ==
  ASSUME IInv, NEW l \in RecordedKeys, NEW t, t = idempotency[l].request.id,
         NEW new \in TransactionRow, Continues(transactions[t], new)
  PROVE  /\ idempotency[l].receipt.package = Package(new, cashControl[t])
         /\ IsPrefix(idempotency[l].receipt.lifecycle, new.lifecycle)
<1>1. t \in Known /\ transactions[t] \in TransactionRow
  BY DEF IInv, OneKeyPerTransaction, Known, TypeOK
<1>2. /\ idempotency[l].receipt.package = Package(transactions[t], cashControl[t])
      /\ IsPrefix(idempotency[l].receipt.lifecycle, transactions[t].lifecycle)
  BY DEF IInv, ReceiptsStayTrue
<1>3. idempotency[l] \in IdempotencyRow
  BY DEF IInv, TypeOK, RecordedKeys
<1>4. idempotency[l].receipt.lifecycle \in History
  BY <1>3 DEF IdempotencyRow, ReceiptRow
<1> QED BY <1>1, <1>2, <1>4, PackageStays, PrefixStays

\* A step that records nothing and only continues transactions.
LEMMA JournalStays ==
  ASSUME IInv, UNCHANGED <<cashControl, idempotency>>,
         \A t \in Id : transactions'[t] # None <=> transactions[t] # None,
         \A t \in Known : transactions'[t] \in TransactionRow
                          /\ Continues(transactions[t], transactions'[t])
  PROVE  OneKeyPerTransaction' /\ RetryKeysFit' /\ ReceiptsStayTrue'
<1>1. Known' = Known /\ RecordedKeys' = RecordedKeys /\ idempotency' = idempotency
  BY DEF Known, RecordedKeys
<1>2. OneKeyPerTransaction'
  BY <1>1 DEF IInv, OneKeyPerTransaction
<1>3. RetryKeysFit'
  BY <1>1 DEF IInv, RetryKeysFit
<1>4. ASSUME NEW l \in RecordedKeys
      PROVE  LET t == idempotency[l].request.id
             IN /\ idempotency[l].receipt.package = Package(transactions'[t], cashControl'[t])
                /\ IsPrefix(idempotency[l].receipt.lifecycle, transactions'[t].lifecycle)
  <2> DEFINE t == idempotency[l].request.id
  <2>1. t \in Known
    BY DEF IInv, OneKeyPerTransaction
  <2>2. transactions'[t] \in TransactionRow /\ Continues(transactions[t], transactions'[t])
    BY <2>1
  <2> QED BY <2>2, ReceiptStays
<1>5. ReceiptsStayTrue'
  BY <1>1, <1>4 DEF ReceiptsStayTrue
<1> QED BY <1>2, <1>3, <1>5

\* A step that enters one new transaction and keeps its receipt under a new key.
LEMMA JournalGrows ==
  ASSUME IInv, NEW k \in Key \cup RetryKey, idempotency[k] = None,
         NEW r \in SubscribeRequest \cup RedeemRequest \cup TransferRequest,
         NEW tx \in TransactionRow, NEW control \in CashState,
         transactions[r.id] = None, k \in RetryKey => r.id = k[2],
         idempotency' = Recorded(k, r, tx, control),
         transactions'[r.id] = tx, cashControl'[r.id] = control,
         \A t \in Id \ {r.id} : transactions'[t] # None <=> transactions[t] # None,
         \A t \in Known : /\ transactions'[t] \in TransactionRow
                          /\ Continues(transactions[t], transactions'[t])
                          /\ cashControl'[t] = cashControl[t]
  PROVE  /\ idempotency' \in [Key \cup RetryKey -> IdempotencyRow \cup {None}]
         /\ OneKeyPerTransaction' /\ RetryKeysFit' /\ ReceiptsStayTrue'
<1> DEFINE row == [request |-> r, receipt |-> Receipt(tx, control)]
<1>1. /\ row.request = r /\ row.receipt.package = Package(tx, control)
      /\ row.receipt.lifecycle = tx.lifecycle
  BY DEF Receipt
<1>2. Receipt(tx, control) \in ReceiptRow
  <2>1. Package(tx, control) \in PackageRow
    BY PackageType
  <2> QED BY <2>1 DEF Receipt, ReceiptRow, TransactionRow
<1>3. row \in IdempotencyRow /\ row # None
  BY <1>2, NoneAssumption DEF IdempotencyRow
<1>4. /\ idempotency \in [Key \cup RetryKey -> IdempotencyRow \cup {None}]
      /\ idempotency' = [idempotency EXCEPT ![k] = row]
  BY DEF IInv, TypeOK, Recorded
<1> HIDE DEF row
<1>5. /\ idempotency' \in [Key \cup RetryKey -> IdempotencyRow \cup {None}]
      /\ idempotency'[k] = row
      /\ \A l \in Key \cup RetryKey : l # k => idempotency'[l] = idempotency[l]
  BY <1>3, <1>4
<1>6. RecordedKeys' = RecordedKeys \cup {k} /\ k \notin RecordedKeys
  BY <1>3, <1>4, <1>5 DEF RecordedKeys
<1>7. r.id \in Id /\ r.id \notin Known /\ Known' = Known \cup {r.id}
  <2>1. tx # None
    BY NoneAssumption
  <2> QED BY <2>1, RequestId DEF Known
<1>8. ASSUME NEW l \in RecordedKeys
      PROVE  /\ l # k /\ idempotency'[l] = idempotency[l]
             /\ idempotency[l].request.id \in Known /\ idempotency[l].request.id # r.id
  <2>1. l # k /\ l \in Key \cup RetryKey
    BY <1>4, <1>6 DEF RecordedKeys
  <2>2. idempotency[l].request.id \in Known
    BY DEF IInv, OneKeyPerTransaction
  <2> QED BY <2>1, <2>2, <1>5, <1>7
<1>9. OneKeyPerTransaction'
  <2>1. \A l \in RecordedKeys' : idempotency'[l].request.id \in Known'
    BY <1>1, <1>5, <1>6, <1>7, <1>8
  <2>2. ASSUME NEW t \in Known'
        PROVE  \E l \in RecordedKeys' :
                 /\ idempotency'[l].request.id = t
                 /\ \A m \in RecordedKeys' \ {l} : idempotency'[m].request.id # t
    <3>1. CASE t = r.id
      BY <3>1, <1>1, <1>5, <1>6, <1>8
    <3>2. CASE t \in Known
      <4>1. PICK l \in RecordedKeys :
              /\ idempotency[l].request.id = t
              /\ \A m \in RecordedKeys \ {l} : idempotency[m].request.id # t
        BY <3>2 DEF IInv, OneKeyPerTransaction
      <4>2. idempotency'[k].request.id # t
        BY <3>2, <1>1, <1>5, <1>7
      <4> QED BY <4>1, <4>2, <1>6, <1>8
    <3> QED BY <3>1, <3>2, <1>7
  <2> QED BY <2>1, <2>2 DEF OneKeyPerTransaction
<1>10. RetryKeysFit'
  BY <1>1, <1>5, <1>6, <1>8 DEF IInv, RetryKeysFit
<1>11. ASSUME NEW l \in RecordedKeys'
       PROVE  LET t == idempotency'[l].request.id
              IN /\ idempotency'[l].receipt.package =
                      Package(transactions'[t], cashControl'[t])
                 /\ IsPrefix(idempotency'[l].receipt.lifecycle, transactions'[t].lifecycle)
  <2>1. CASE l = k
    <3>1. tx.lifecycle \in Seq(CoreStates \cup ReviewStates)
      BY DEF TransactionRow, History
    <3>2. IsPrefix(tx.lifecycle, tx.lifecycle)
      BY <3>1 DEF IsPrefix
    <3> QED BY <2>1, <3>2, <1>1, <1>5
  <2>2. CASE l \in RecordedKeys
    <3> DEFINE t == idempotency[l].request.id
    <3>1. t \in Known /\ idempotency'[l] = idempotency[l]
      BY <2>2, <1>8
    <3>2. /\ transactions'[t] \in TransactionRow
          /\ Continues(transactions[t], transactions'[t])
          /\ cashControl'[t] = cashControl[t]
      BY <3>1
    <3>3. /\ idempotency[l].receipt.package = Package(transactions'[t], cashControl[t])
          /\ IsPrefix(idempotency[l].receipt.lifecycle, transactions'[t].lifecycle)
      BY <2>2, <3>2, ReceiptStays
    <3> QED BY <3>1, <3>2, <3>3
  <2> QED BY <2>1, <2>2, <1>6
<1>12. ReceiptsStayTrue'
  BY <1>11 DEF ReceiptsStayTrue
<1> QED BY <1>5, <1>9, <1>10, <1>12

-----------------------------------------------------------------------------
(* The books: every balance is the sum of what has settled.                *)

\* What one transaction moves is a whole number.
LEMMA MoveType ==
  ASSUME NEW tx \in TransactionRow, NEW a
  PROVE  UnitMove(tx, a) \in Int /\ CashMove(tx, a) \in Int
<1>1. tx.units \in Nat /\ tx.cash \in Nat /\ tx.fee \in Nat
  BY DEF TransactionRow
<1>2. Income(a, tx) \in Int /\ Expense(a, tx) \in Int
  BY <1>1 DEF Income, Expense
<1> QED BY <1>1, <1>2 DEF UnitMove, CashMove

\* They are the sums that the invariant of the books speaks of.
LEMMA MovesAre ==
  ASSUME NEW a
  PROVE  /\ UnitMoves(a) = [t \in SettledIds |-> Received(a, t) - Given(a, t)]
         /\ CashMoves(a) = [t \in SettledIds |->
                              Income(a, transactions[t]) - Expense(a, transactions[t])]
BY DEF UnitMoves, CashMoves, UnitMove, CashMove, Received, Given

\* The books of the property are those of the invariant.
LEMMA BooksAreBooked ==
  ASSUME TypeOK
  PROVE  IsFiniteSet(SettledIds) /\ BooksAreSettledEffects <=> Booked
<1>1. units \in [Account -> Nat] /\ register \in [Account -> Nat]
  BY DEF TypeOK
<1>2. (\A a \in Account : units[a] = register[a]) <=> register = units
  BY <1>1
<1>3. \A a \in Account :
        /\ SumFunction(UnitMoves(a))
             = SumFunction([t \in SettledIds |-> Received(a, t) - Given(a, t)])
        /\ SumFunction(CashMoves(a))
             = SumFunction([t \in SettledIds |->
                              Income(a, transactions[t]) - Expense(a, transactions[t])])
  BY MovesAre
<1> QED BY <1>2, <1>3 DEF Booked, BooksAreSettledEffects, Reconciled

\* A step that settles nothing and moves nothing.
LEMMA BooksStay ==
  ASSUME Booked, UNCHANGED <<books, cashControl>>,
         SettledIds' = SettledIds, Known' = Known,
         \A t \in SettledIds : transactions'[t] = transactions[t]
  PROVE  Booked'
<1>1. ASSUME NEW a PROVE UnitMoves(a)' = UnitMoves(a) /\ CashMoves(a)' = CashMoves(a)
  <2>1. \A t \in SettledIds :
          /\ UnitMove(transactions'[t], a) = UnitMove(transactions[t], a)
          /\ CashMove(transactions'[t], a) = CashMove(transactions[t], a)
    OBVIOUS
  <2> QED BY <2>1 DEF UnitMoves, CashMoves, UnitMove, CashMove, Income, Expense, Payer, Payee
<1> QED BY <1>1 DEF Booked, books

\* A failed transaction moves nothing either, and its cash is released.
LEMMA BooksStayWithFailure ==
  ASSUME Booked, UNCHANGED books, NEW x \in Id, x \notin Known,
         SettledIds' = SettledIds, Known' = Known \cup {x},
         \A t \in SettledIds : transactions'[t] = transactions[t],
         cashControl'[x] = "RELEASED", \A t \in Known : cashControl'[t] = cashControl[t]
  PROVE  Booked'
<1>1. ASSUME NEW a PROVE UnitMoves(a)' = UnitMoves(a) /\ CashMoves(a)' = CashMoves(a)
  <2>1. \A t \in SettledIds :
          /\ UnitMove(transactions'[t], a) = UnitMove(transactions[t], a)
          /\ CashMove(transactions'[t], a) = CashMove(transactions[t], a)
    OBVIOUS
  <2> QED BY <2>1 DEF UnitMoves, CashMoves, UnitMove, CashMove, Income, Expense, Payer, Payee
<1>2. SettledIds \subseteq Known
  BY DEF SettledIds
<1> QED BY <1>1, <1>2 DEF Booked, books

\* One transaction settles and is booked.
LEMMA BooksGrow ==
  ASSUME TypeOK, Booked, NEW x \in Id, x \notin Known, NEW tx \in TransactionRow,
         transactions'[x] = tx, SettledIds' = SettledIds \cup {x}, Known' = Known \cup {x},
         \A t \in SettledIds : transactions'[t] = transactions[t],
         cashControl'[x] = "CONFIRMED", \A t \in Known : cashControl'[t] = cashControl[t],
         register' = units',
         \A a \in Account : /\ units'[a] = units[a] + UnitMove(tx, a)
                            /\ cash'[a] = cash[a] + CashMove(tx, a)
  PROVE  Booked'
<1>1. IsFiniteSet(SettledIds) /\ SettledIds \subseteq Known /\ x \notin SettledIds
  BY DEF Booked, SettledIds
<1>2. IsFiniteSet(SettledIds')
  BY <1>1, FS_AddElement
<1>3. \A t \in SettledIds : transactions[t] \in TransactionRow
  BY DEF SettledIds, Known, TypeOK
<1>4. ASSUME NEW a \in Account
      PROVE  /\ units'[a] = SumFunction(UnitMoves(a)')
             /\ cash'[a] = InitialCash[a] + SumFunction(CashMoves(a)')
  <2> DEFINE f == UnitMoves(a)
             h == [t \in SettledIds \cup {x} |-> UnitMove(transactions'[t], a)]
             p == CashMoves(a)
             q == [t \in SettledIds \cup {x} |-> CashMove(transactions'[t], a)]
  <2>1. UnitMoves(a)' = h /\ CashMoves(a)' = q
    BY DEF UnitMoves, CashMoves, UnitMove, CashMove, Income, Expense, Payer, Payee
  <2>2. /\ DOMAIN f = SettledIds /\ DOMAIN p = SettledIds
        /\ \A t \in SettledIds : f[t] \in Int /\ p[t] \in Int
    BY <1>3, MoveType DEF UnitMoves, CashMoves
  <2>3. /\ DOMAIN h = SettledIds \cup {x} /\ DOMAIN q = SettledIds \cup {x}
        /\ \A t \in SettledIds : h[t] = f[t] /\ q[t] = p[t]
    BY DEF UnitMoves, CashMoves
  <2>4. /\ h[x] = UnitMove(tx, a) /\ h[x] \in Int
        /\ q[x] = CashMove(tx, a) /\ q[x] \in Int
    BY MoveType
  <2>5. units[a] = SumFunction(f) /\ cash[a] = InitialCash[a] + SumFunction(p)
    BY DEF Booked
  <2> HIDE DEF f, h, p, q
  <2>6. PICK S, F, H, P, Q : S = SettledIds /\ F = f /\ H = h /\ P = p /\ Q = q
    OBVIOUS
  <2>7. /\ IsFiniteSet(S) /\ x \notin S /\ DOMAIN F = S /\ DOMAIN H = S \cup {x}
        /\ H[x] \in Int /\ \A y \in S : F[y] \in Int /\ H[y] = F[y]
    BY <1>1, <2>2, <2>3, <2>4, <2>6
  <2>8. /\ IsFiniteSet(S) /\ x \notin S /\ DOMAIN P = S /\ DOMAIN Q = S \cup {x}
        /\ Q[x] \in Int /\ \A y \in S : P[y] \in Int /\ Q[y] = P[y]
    BY <1>1, <2>2, <2>3, <2>4, <2>6
  <2>9. SumFunction(F) \in Int /\ SumFunction(H) = SumFunction(F) + H[x]
    BY <2>7, SumFunctionAdd, Z3
  <2>10. SumFunction(P) \in Int /\ SumFunction(Q) = SumFunction(P) + Q[x]
    BY <2>8, SumFunctionAdd, Z3
  <2>11. InitialCash[a] \in Int
    BY AmountAssumption
  <2>12. units'[a] = SumFunction(h) /\ cash'[a] = InitialCash[a] + SumFunction(q)
    BY <2>4, <2>5, <2>6, <2>9, <2>10, <2>11
  <2> QED BY <2>1, <2>12
<1>5. /\ \A t \in SettledIds' : cashControl'[t] = "CONFIRMED"
      /\ \A t \in Known' \ SettledIds' : cashControl'[t] = "RELEASED"
  BY <1>1 DEF Booked
<1> QED BY <1>2, <1>4, <1>5 DEF Booked

\* At first nothing has settled.
LEMMA InitBooked ==
  ASSUME Init PROVE Booked
<1>1. SettledIds = {} /\ Known = {}
  BY DEF Init, SettledIds, Known
<1>2. ASSUME NEW f, DOMAIN f = {} PROVE SumFunction(f) = 0
  BY <1>2, SumEmpty DEF SumFunction
<1>3. ASSUME NEW a PROVE SumFunction(UnitMoves(a)) = 0 /\ SumFunction(CashMoves(a)) = 0
  BY <1>1, <1>2 DEF UnitMoves, CashMoves
<1>4. cash = InitialCash /\ \A a \in Account : InitialCash[a] \in Int
  BY AmountAssumption DEF Init
<1>5. register = units /\ \A a \in Account : units[a] = 0
  BY DEF Init
<1> QED BY <1>1, <1>3, <1>4, <1>5, FS_EmptySet DEF Booked

-----------------------------------------------------------------------------
(* Transactions that settle.                                               *)

\* The books move by one transaction.
Enters(tx) ==
  /\ cash' \in [Account -> Nat] /\ units' \in [Account -> Nat] /\ register' = units'
  /\ \A a \in Account : /\ units'[a] = units[a] + UnitMove(tx, a)
                        /\ cash'[a] = cash[a] + CashMove(tx, a)

\* A subscription moves cash to the issuer and units to the investor.
LEMMA SubscribeEnters ==
  ASSUME TypeOK, register = units, NEW r \in SubscribeRequest, NEW k, Subscribe(k, r)
  PROVE  LET tx == Transaction("SUBSCRIBE", None, r.investor, r.units, r.cash, 0, "STANDARD")
         IN tx \in TransactionRow /\ tx.state = "SETTLED" /\ Enters(tx)
<1> DEFINE i == r.investor
           tx == Transaction("SUBSCRIBE", None, i, r.units, r.cash, 0, "STANDARD")
<1>1. i \in Investor /\ r.units \in Nat /\ r.cash \in Nat
  BY SubscribeRequestType
<1>2. /\ NavIsCurrent /\ cash[i] >= r.cash
      /\ cash' = [cash EXCEPT ![i] = @ - r.cash, ![Issuer] = @ + r.cash]
      /\ units' = [units EXCEPT ![i] = @ + r.units]
      /\ register' = [register EXCEPT ![i] = @ + r.units]
  BY DEF Subscribe, Tradable
<1>3. /\ cash \in [Account -> Nat] /\ units \in [Account -> Nat]
      /\ i \in Account /\ Issuer \in Account /\ i # Issuer
      /\ \A a \in Account : a # None
  BY <1>1, AccountAssumption, NoneAssumption DEF TypeOK, Account
<1>4. /\ clock \in Nat /\ LatestNav \in Nav
      /\ Checked \o <<"REGISTER_PENDING", "SETTLED">> \in History
  BY <1>2, BookedType
<1>5. tx \in TransactionRow
  BY <1>1, <1>4 DEF Transaction, TransactionRow, TransactionState
<1>6. /\ tx.state = "SETTLED" /\ tx.seller = None /\ tx.buyer = i
      /\ tx.units = r.units /\ tx.cash = r.cash /\ tx.fee = 0
  BY DEF Transaction
<1> HIDE DEF tx, i
<1>7. cash' \in [Account -> Nat] /\ units' \in [Account -> Nat] /\ register' = units'
  BY <1>1, <1>2, <1>3
<1>8. ASSUME NEW a \in Account
      PROVE  /\ units'[a] = units[a] + UnitMove(tx, a)
             /\ cash'[a] = cash[a] + CashMove(tx, a)
  <2>1. UnitMove(tx, a) = (IF i = a THEN r.units ELSE 0)
    BY <1>1, <1>3, <1>6 DEF UnitMove
  <2>2. CashMove(tx, a) = (IF a = Issuer THEN r.cash ELSE 0) - (IF i = a THEN r.cash ELSE 0)
    BY <1>1, <1>3, <1>6, NoneAssumption DEF CashMove, Income, Expense, Payer, Payee
  <2> QED BY <2>1, <2>2, <1>1, <1>2, <1>3
<1> QED BY <1>5, <1>6, <1>7, <1>8 DEF Enters, tx, i

\* A redemption moves units from the investor and cash from the issuer.
LEMMA RedeemEnters ==
  ASSUME TypeOK, register = units, NEW r \in RedeemRequest, NEW k, Redeem(k, r),
         NEW amount, amount = r.units * LatestNav.price,
         NEW mode \in {"STANDARD", "RESTRICTED_EXIT"}
  PROVE  LET tx == Transaction("REDEEM", r.investor, None, r.units, amount, 0, mode)
         IN tx \in TransactionRow /\ tx.state = "SETTLED" /\ Enters(tx)
<1> DEFINE i == r.investor
           tx == Transaction("REDEEM", i, None, r.units, amount, 0, mode)
<1>1. NavIsCurrent
  BY DEF Redeem, Tradable
<1>2. i \in Investor /\ r.units \in Nat /\ amount \in Nat
  BY <1>1, RedeemRequestType, LatestNavType, Product
<1>3. /\ units[i] >= r.units /\ cash[Issuer] >= amount
      /\ units' = [units EXCEPT ![i] = @ - r.units]
      /\ register' = [register EXCEPT ![i] = @ - r.units]
      /\ cash' = [cash EXCEPT ![Issuer] = @ - amount, ![i] = @ + amount]
  BY DEF Redeem
<1>4. /\ cash \in [Account -> Nat] /\ units \in [Account -> Nat]
      /\ i \in Account /\ Issuer \in Account /\ i # Issuer
      /\ \A a \in Account : a # None
  BY <1>2, AccountAssumption, NoneAssumption DEF TypeOK, Account
<1>5. /\ clock \in Nat /\ LatestNav \in Nav
      /\ Checked \o <<"REGISTER_PENDING", "SETTLED">> \in History
  BY <1>1, BookedType
<1>6. tx \in TransactionRow
  BY <1>2, <1>5 DEF Transaction, TransactionRow, TransactionState
<1>7. /\ tx.state = "SETTLED" /\ tx.seller = i /\ tx.buyer = None
      /\ tx.units = r.units /\ tx.cash = amount /\ tx.fee = 0
  BY DEF Transaction
<1> HIDE DEF tx, i
<1>8. cash' \in [Account -> Nat] /\ units' \in [Account -> Nat] /\ register' = units'
  BY <1>2, <1>3, <1>4
<1>9. ASSUME NEW a \in Account
      PROVE  /\ units'[a] = units[a] + UnitMove(tx, a)
             /\ cash'[a] = cash[a] + CashMove(tx, a)
  <2>1. UnitMove(tx, a) = 0 - (IF i = a THEN r.units ELSE 0)
    BY <1>2, <1>4, <1>7 DEF UnitMove
  <2>2. CashMove(tx, a) = (IF i = a THEN amount ELSE 0) - (IF a = Issuer THEN amount ELSE 0)
    BY <1>2, <1>4, <1>7 DEF CashMove, Income, Expense, Payer, Payee
  <2> QED BY <2>1, <2>2, <1>2, <1>3, <1>4
<1> QED BY <1>6, <1>7, <1>8, <1>9 DEF Enters, tx, i

\* A transfer moves units one way, cash the other, and the fee to the issuer.
LEMMA ExchangeEnters ==
  ASSUME TypeOK, register = units, NEW r \in TransferRequest, MayTransfer(r), Exchange(r)
  PROVE  Enters(TransferOf(r))
<1> DEFINE s == r.seller  b == r.buyer  n == r.units  m == Consideration(r)  f == r.fee
           tx == TransferOf(r)
<1>1. s \in Investor /\ b \in Investor /\ n \in Nat /\ m \in Nat /\ f \in Nat
  BY TransferRequestType
<1>2. /\ s # b /\ units[s] >= n /\ cash[b] >= m + f
      /\ cash' = [cash EXCEPT ![b] = @ - m - f, ![s] = @ + m, ![Issuer] = @ + f]
      /\ units' = [units EXCEPT ![s] = @ - n, ![b] = @ + n]
      /\ register' = [register EXCEPT ![s] = @ - n, ![b] = @ + n]
  BY DEF MayTransfer, Exchange, Delivered
<1>3. /\ cash \in [Account -> Nat] /\ units \in [Account -> Nat]
      /\ s \in Account /\ b \in Account /\ Issuer \in Account /\ s # Issuer /\ b # Issuer
      /\ s # None /\ b # None
  BY <1>1, AccountAssumption, NoneAssumption DEF TypeOK, Account
<1>4. tx.seller = s /\ tx.buyer = b /\ tx.units = n /\ tx.cash = m /\ tx.fee = f
  BY TransferOfType
<1> HIDE DEF tx, s, b, n, m, f
<1>5. cash' \in [Account -> Nat] /\ units' \in [Account -> Nat] /\ register' = units'
  BY <1>1, <1>2, <1>3
<1>6. ASSUME NEW a \in Account
      PROVE  /\ units'[a] = units[a] + UnitMove(tx, a)
             /\ cash'[a] = cash[a] + CashMove(tx, a)
  <2>1. UnitMove(tx, a) = (IF b = a THEN n ELSE 0) - (IF s = a THEN n ELSE 0)
    BY <1>4 DEF UnitMove
  <2>2. CashMove(tx, a) = (IF s = a THEN m ELSE 0) + (IF a = Issuer THEN f ELSE 0)
                            - (IF b = a THEN m + f ELSE 0)
    BY <1>1, <1>3, <1>4 DEF CashMove, Income, Expense, Payer, Payee
  <2> QED BY <2>1, <2>2, <1>1, <1>2, <1>3
<1> QED BY <1>5, <1>6 DEF Enters, tx

-----------------------------------------------------------------------------
(* Cases.                                                                  *)

\* A step that touches no case and neither their transactions nor what settled.
LEMMA CasesStay ==
  ASSUME IInv, cases' = cases, SettledIds \subseteq SettledIds',
         \A t \in Known : transactions'[t] = transactions[t]
  PROVE  CasesFit' /\ ExceptionsSettleOnce'
<1>1. SettledIds \subseteq Known
  BY DEF SettledIds
<1>2. ASSUME NEW c \in Id, cases[c] # None
      PROVE  c \in Known /\ transactions'[c] = transactions[c]
  BY <1>2 DEF IInv, CasesFit, Known
<1>3. \A c \in Id : transactions[c] # None => transactions'[c] # None
  BY DEF Known
<1>4. CasesFit'
  BY <1>3 DEF IInv, CasesFit
<1>5. ASSUME NEW c \in Id, cases[c] # None
      PROVE  /\ transactions'[c].state = CaseState[cases[c].status]
             /\ cases[c].checker # None => cases[c].checker # cases[c].maker
             /\ cases[c].status = "RESOLVED_RETRIED" =>
                  LET t == cases[c].replacement
                  IN /\ t \in SettledIds' /\ SameTerms(transactions'[t], cases[c].request)
                     /\ \A d \in Id \ {c} : cases[d] # None => cases[d].replacement # t
  BY <1>1, <1>2, <1>5 DEF IInv, ExceptionsSettleOnce
<1>6. ExceptionsSettleOnce'
  BY <1>5 DEF ExceptionsSettleOnce, SameTerms
<1> QED BY <1>4, <1>6

\* One transaction more, that settled.
LEMMA EnterPreserves ==
  ASSUME IInv, NEW k \in Key,
         NEW r \in SubscribeRequest \cup RedeemRequest \cup TransferRequest,
         NEW tx \in TransactionRow, tx.state = "SETTLED", NewTransaction(r.id),
         Keep(k, r, tx, "CONFIRMED"), Enters(tx), UNCHANGED <<environment, cases>>
  PROVE  IInv'
<1>1. TypeOK /\ Booked /\ r.id \in Id /\ tx # None
  BY RequestId, NoneAssumption DEF IInv
<1>2. /\ idempotency[k] = None /\ idempotency' = Recorded(k, r, tx, "CONFIRMED")
      /\ transactions' = [transactions EXCEPT ![r.id] = tx]
      /\ cashControl' = [cashControl EXCEPT ![r.id] = "CONFIRMED"]
      /\ transactions[r.id] = None /\ r.id \notin Known
  BY DEF Keep, NewTransaction, Known
<1>3. /\ transactions' \in [Id -> TransactionRow \cup {None}]
      /\ transactions'[r.id] = tx /\ cashControl'[r.id] = "CONFIRMED"
      /\ \A t \in Id \ {r.id} : transactions'[t] = transactions[t]
      /\ \A t \in Known : /\ transactions[t] \in TransactionRow
                          /\ transactions'[t] = transactions[t]
                          /\ cashControl'[t] = cashControl[t]
  BY <1>1, <1>2 DEF TypeOK, Known
<1>4. Known' = Known \cup {r.id} /\ SettledIds' = SettledIds \cup {r.id}
  BY <1>1, <1>2, <1>3 DEF Known, SettledIds
<1>5. k \notin RetryKey /\ "CONFIRMED" \in CashState
  BY KeyAssumption DEF CashState
<1>6. \A t \in Known : transactions'[t] \in TransactionRow
                       /\ Continues(transactions[t], transactions'[t])
  BY <1>3, ContinuesItself
<1>7. /\ idempotency' \in [Key \cup RetryKey -> IdempotencyRow \cup {None}]
      /\ OneKeyPerTransaction' /\ RetryKeysFit' /\ ReceiptsStayTrue'
  BY <1>2, <1>3, <1>5, <1>6, JournalGrows
<1>8. Booked'
  <2>1. SettledIds \subseteq Known
    BY DEF SettledIds
  <2> QED BY <2>1, <1>1, <1>2, <1>3, <1>4, BooksGrow DEF Enters
<1>9. CasesFit' /\ ExceptionsSettleOnce'
  BY <1>3, <1>4, CasesStay
<1>10. TypeOK'
  <2>1. cashControl' \in [Id -> CashState \cup {None}]
    BY <1>1, <1>2, <1>5 DEF TypeOK
  <2>2. \A book \in {cash', units', register'} : book \in [Account -> Nat]
    BY DEF Enters
  <2> QED BY <2>1, <2>2, <1>1, <1>3, <1>7 DEF TypeOK, environment
<1> QED BY <1>7, <1>8, <1>9, <1>10 DEF IInv

\* A subscription enters the books.
LEMMA SubscribePreserves ==
  ASSUME IInv, NEW k \in Key, NEW r \in SubscribeRequest, Subscribe(k, r)
  PROVE  IInv'
<1> DEFINE tx == Transaction("SUBSCRIBE", None, r.investor, r.units, r.cash, 0, "STANDARD")
<1>1. tx \in TransactionRow /\ tx.state = "SETTLED" /\ Enters(tx)
  BY SubscribeEnters DEF IInv, Booked
<1>2. NewTransaction(r.id) /\ Keep(k, r, tx, "CONFIRMED") /\ UNCHANGED <<environment, cases>>
  BY DEF Subscribe, Tradable
<1> HIDE DEF tx
<1> QED BY <1>1, <1>2, EnterPreserves

\* A redemption enters the books.
LEMMA RedeemPreserves ==
  ASSUME IInv, NEW k \in Key, NEW r \in RedeemRequest, Redeem(k, r)
  PROVE  IInv'
<1>1. PICK amount : amount = r.units * LatestNav.price
  OBVIOUS
<1>2. PICK mode \in {"STANDARD", "RESTRICTED_EXIT"} :
        mode = IF r.investor \in restricted THEN "RESTRICTED_EXIT" ELSE "STANDARD"
  OBVIOUS
<1> DEFINE tx == Transaction("REDEEM", r.investor, None, r.units, amount, 0, mode)
<1>3. tx \in TransactionRow /\ tx.state = "SETTLED" /\ Enters(tx)
  BY <1>1, RedeemEnters DEF IInv, Booked
<1>4. NewTransaction(r.id) /\ Keep(k, r, tx, "CONFIRMED") /\ UNCHANGED <<environment, cases>>
  BY <1>1, <1>2 DEF Redeem, Tradable
<1> HIDE DEF tx
<1> QED BY <1>3, <1>4, EnterPreserves

\* A settled transfer enters the books.
LEMMA TransferPreserves ==
  ASSUME IInv, NEW k \in Key, NEW r \in TransferRequest, Transfer(k, r)
  PROVE  IInv'
<1>1. /\ MayTransfer(r) /\ Exchange(r) /\ NewTransaction(r.id)
      /\ Keep(k, r, TransferOf(r), "CONFIRMED") /\ UNCHANGED <<environment, cases>>
  BY DEF Transfer, MayTransfer, Tradable
<1>2. TypeOK /\ register = units
  BY DEF IInv, Booked
<1>3. TransferOf(r) \in TransactionRow /\ TransferOf(r).state = "SETTLED"
      /\ Enters(TransferOf(r))
  BY <1>1, <1>2, TransferOfType, ExchangeEnters
<1> QED BY <1>1, <1>3, EnterPreserves

\* One transaction more, that failed, and its case.
LEMMA RegisterFailurePreserves ==
  ASSUME IInv, NEW k \in Key, NEW r \in TransferRequest, SimulateRegisterFailure(k, r)
  PROVE  IInv'
<1> DEFINE tx == Failed(TransferOf(r))
           e == [status |-> "OPEN", request |-> r, decision |-> None, maker |-> None,
                 proposed |-> None, replacement |-> None, checker |-> None]
<1>1. /\ MayTransfer(r) /\ UNCHANGED books /\ UNCHANGED environment
      /\ Keep(k, r, tx, "RELEASED") /\ cases' = [cases EXCEPT ![r.id] = e]
  BY DEF SimulateRegisterFailure, ReleaseReservation
<1>2. TypeOK /\ Booked /\ r.id \in Id /\ transactions[r.id] = None
  BY <1>1, TransferRequestType DEF IInv, MayTransfer, Tradable, NewTransaction
<1>3. tx \in TransactionRow /\ tx.state = "REQUIRES_REVIEW" /\ tx # None
  BY <1>1, <1>2, TransferOfType, FailedType, NoneAssumption
<1>4. /\ e \in CaseRow /\ e # None /\ e.status = "OPEN" /\ e.checker = None
      /\ e.replacement = None
  BY NoneAssumption DEF CaseRow, CaseStatus
<1> HIDE DEF tx, e
<1>5. /\ idempotency[k] = None /\ idempotency' = Recorded(k, r, tx, "RELEASED")
      /\ transactions' = [transactions EXCEPT ![r.id] = tx]
      /\ cashControl' = [cashControl EXCEPT ![r.id] = "RELEASED"]
      /\ r.id \notin Known
  BY <1>1, <1>2 DEF Keep, Known
<1>6. /\ transactions' \in [Id -> TransactionRow \cup {None}]
      /\ transactions'[r.id] = tx /\ cashControl'[r.id] = "RELEASED"
      /\ \A t \in Id \ {r.id} : transactions'[t] = transactions[t]
      /\ \A t \in Known : /\ transactions[t] \in TransactionRow
                          /\ transactions'[t] = transactions[t]
                          /\ cashControl'[t] = cashControl[t]
  BY <1>2, <1>3, <1>5 DEF TypeOK, Known
<1>7. Known' = Known \cup {r.id} /\ SettledIds' = SettledIds /\ SettledIds \subseteq Known
  BY <1>2, <1>3, <1>5, <1>6 DEF Known, SettledIds
<1>8. k \notin RetryKey /\ "RELEASED" \in CashState
  BY KeyAssumption DEF CashState
<1>9. \A t \in Known : transactions'[t] \in TransactionRow
                       /\ Continues(transactions[t], transactions'[t])
  BY <1>6, ContinuesItself
<1>10. /\ idempotency' \in [Key \cup RetryKey -> IdempotencyRow \cup {None}]
       /\ OneKeyPerTransaction' /\ RetryKeysFit' /\ ReceiptsStayTrue'
  BY <1>2, <1>3, <1>5, <1>6, <1>8, <1>9, JournalGrows
<1>11. Booked'
  BY <1>1, <1>2, <1>5, <1>6, <1>7, BooksStayWithFailure
<1>12. /\ cases' \in [Id -> CaseRow \cup {None}] /\ cases'[r.id] = e
       /\ \A c \in Id \ {r.id} : cases'[c] = cases[c]
       /\ cases[r.id] = None
  BY <1>1, <1>2, <1>4 DEF TypeOK, IInv, CasesFit
<1>13. CasesFit'
  BY <1>3, <1>4, <1>6, <1>12 DEF IInv, CasesFit
<1>14. ASSUME NEW c \in Id, cases'[c] # None
       PROVE  /\ transactions'[c].state = CaseState[cases'[c].status]
              /\ cases'[c].checker # None => cases'[c].checker # cases'[c].maker
              /\ cases'[c].status = "RESOLVED_RETRIED" =>
                   LET t == cases'[c].replacement
                   IN /\ t \in SettledIds' /\ SameTerms(transactions'[t], cases'[c].request)
                      /\ \A d \in Id \ {c} : cases'[d] # None => cases'[d].replacement # t
  <2>1. CASE c = r.id
    BY <2>1, <1>3, <1>4, <1>6, <1>12 DEF CaseState
  <2>2. CASE c # r.id
    <3>1. c \in Known /\ transactions'[c] = transactions[c] /\ cases'[c] = cases[c]
      BY <2>2, <1>6, <1>12, <1>14 DEF IInv, CasesFit, Known
    <3>2. cases[c].status = "RESOLVED_RETRIED" => cases[c].replacement # None
      BY <2>2, <1>12, <1>14 DEF IInv, CasesFit
    <3> QED BY <3>1, <3>2, <2>2, <1>4, <1>6, <1>7, <1>12, <1>14 DEF IInv, ExceptionsSettleOnce
  <2> QED BY <2>1, <2>2
<1>15. ExceptionsSettleOnce'
  BY <1>14 DEF ExceptionsSettleOnce, SameTerms
<1>16. TypeOK'
  <2>1. cashControl' \in [Id -> CashState \cup {None}]
    BY <1>2, <1>5, <1>8 DEF TypeOK
  <2> QED BY <2>1, <1>1, <1>2, <1>6, <1>10, <1>12 DEF TypeOK, environment, books
<1> QED BY <1>10, <1>11, <1>13, <1>15, <1>16 DEF IInv

-----------------------------------------------------------------------------
(* The review of a failed transfer.                                        *)

\* A case that is not resolved by a retry moves together with its transaction.
LEMMA ReviewPreserves ==
  ASSUME IInv, NEW c \in Id, cases[c] # None, cases[c].status \in {"OPEN", "PENDING_APPROVAL"},
         NEW new \in TransactionRow, Continues(transactions[c], new),
         NEW e \in CaseRow, e.status # "RESOLVED_RETRIED", e.replacement = None,
         new.state = CaseState[e.status],
         e.status = "PENDING_APPROVAL" /\ e.decision = "RETRY" => e.proposed # None,
         e.status \in {"OPEN", "PENDING_APPROVAL"} => e.checker = None,
         e.checker # None => e.checker # e.maker,
         transactions' = [transactions EXCEPT ![c] = new],
         cases' = [cases EXCEPT ![c] = e],
         UNCHANGED <<environment, books, cashControl, idempotency>>
  PROVE  IInv'
<1>1. TypeOK /\ Booked /\ new # None /\ e # None
  BY NoneAssumption DEF IInv
<1>2. /\ transactions[c] # None
      /\ transactions[c].state \in {"REQUIRES_REVIEW", "PENDING_APPROVAL"}
      /\ cases[c].replacement = None
  BY DEF IInv, CasesFit, ExceptionsSettleOnce, CaseState
<1>3. new.state # "SETTLED"
  BY DEF CaseRow, CaseStatus, CaseState
<1>4. /\ transactions' \in [Id -> TransactionRow \cup {None}] /\ transactions'[c] = new
      /\ \A t \in Id \ {c} : transactions'[t] = transactions[t]
      /\ cases' \in [Id -> CaseRow \cup {None}] /\ cases'[c] = e
      /\ \A d \in Id \ {c} : cases'[d] = cases[d]
  BY <1>1 DEF TypeOK
<1>5. /\ Known' = Known /\ SettledIds' = SettledIds /\ c \notin SettledIds
      /\ \A t \in Id : transactions'[t] # None <=> transactions[t] # None
      /\ \A t \in SettledIds : transactions'[t] = transactions[t]
  BY <1>1, <1>2, <1>3, <1>4 DEF Known, SettledIds
<1>6. \A t \in Known : transactions'[t] \in TransactionRow
                       /\ Continues(transactions[t], transactions'[t])
  <2>1. \A t \in Known : t \in Id /\ transactions[t] \in TransactionRow
    BY <1>1 DEF Known, TypeOK
  <2> QED BY <2>1, <1>4, ContinuesItself
<1>7. OneKeyPerTransaction' /\ RetryKeysFit' /\ ReceiptsStayTrue'
  BY <1>5, <1>6, JournalStays
<1>8. Booked'
  BY <1>1, <1>5, BooksStay
<1>9. CasesFit'
  BY <1>1, <1>4 DEF IInv, CasesFit
<1>10. ASSUME NEW d \in Id, cases'[d] # None
       PROVE  /\ transactions'[d].state = CaseState[cases'[d].status]
              /\ cases'[d].checker # None => cases'[d].checker # cases'[d].maker
              /\ cases'[d].status = "RESOLVED_RETRIED" =>
                   LET t == cases'[d].replacement
                   IN /\ t \in SettledIds' /\ SameTerms(transactions'[t], cases'[d].request)
                      /\ \A b \in Id \ {d} : cases'[b] # None => cases'[b].replacement # t
  <2>1. CASE d = c
    BY <2>1, <1>4
  <2>2. CASE d # c
    <3>1. transactions'[d] = transactions[d] /\ cases'[d] = cases[d] /\ cases[d] # None
      BY <2>2, <1>4, <1>10
    <3>2. cases[d].status = "RESOLVED_RETRIED" => cases[d].replacement # None
      BY <3>1 DEF IInv, CasesFit
    <3> QED BY <3>1, <3>2, <1>4, <1>5 DEF IInv, ExceptionsSettleOnce
  <2> QED BY <2>1, <2>2
<1>11. ExceptionsSettleOnce'
  BY <1>10 DEF ExceptionsSettleOnce, SameTerms
<1>12. TypeOK'
  BY <1>1, <1>4 DEF TypeOK, environment, books
<1> QED BY <1>7, <1>8, <1>9, <1>11, <1>12 DEF IInv

\* The transaction and the case that a review step starts from.
LEMMA UnderReview ==
  ASSUME IInv, NEW c \in Id, cases[c] # None
  PROVE  transactions[c] \in TransactionRow /\ cases[c] \in CaseRow
BY DEF IInv, TypeOK, CasesFit

\* A proposal moves the case and its transaction to PENDING_APPROVAL.
LEMMA ProposePreserves ==
  ASSUME IInv, NEW c \in Id, NEW maker \in Person, NEW decision \in {"RETRY", "CANCEL"},
         NEW replacement \in Id \cup {None}, ProposeResolution(c, maker, decision, replacement)
  PROVE  IInv'
<1> DEFINE e == [cases[c] EXCEPT !.status = "PENDING_APPROVAL", !.decision = decision,
                                 !.maker = maker, !.proposed = replacement]
           new == Moved(transactions[c], "PENDING_APPROVAL", <<"REVIEW_PROPOSED">>)
<1>1. /\ cases[c] # None /\ cases[c].status = "OPEN"
      /\ decision = "RETRY" => replacement # None
      /\ cases' = [cases EXCEPT ![c] = e] /\ transactions' = [transactions EXCEPT ![c] = new]
      /\ UNCHANGED <<environment, books, cashControl, idempotency>>
  BY DEF ProposeResolution
<1>2. transactions[c] \in TransactionRow /\ cases[c] \in CaseRow
  BY <1>1, UnderReview
<1>3. cases[c].replacement = None /\ cases[c].checker = None
  BY <1>1 DEF IInv, CasesFit
<1>4. new \in TransactionRow /\ new.state = "PENDING_APPROVAL"
      /\ Continues(transactions[c], new)
  <2>1. <<"REVIEW_PROPOSED">> \in Seq(ReviewStates) /\ "PENDING_APPROVAL" \in TransactionState
    BY DEF ReviewStates, TransactionState
  <2> QED BY <2>1, <1>2, MovedContinues
<1>5. /\ e \in CaseRow /\ e.status = "PENDING_APPROVAL" /\ e.decision = decision
      /\ e.proposed = replacement /\ e.replacement = None /\ e.checker = None
  BY <1>2, <1>3 DEF CaseRow, CaseStatus
<1>6. CaseState[e.status] = "PENDING_APPROVAL"
  BY <1>5 DEF CaseState
<1> HIDE DEF e, new
<1> QED BY <1>1, <1>4, <1>5, <1>6, ReviewPreserves

\* An approved cancellation ends the case.
LEMMA CancelPreserves ==
  ASSUME IInv, NEW c \in Id, NEW checker \in Person, ApproveCancel(c, checker)
  PROVE  IInv'
<1> DEFINE e == [cases[c] EXCEPT !.status = "RESOLVED_CANCELLED", !.checker = checker]
           new == Moved(transactions[c], "CANCELLED", <<"REVIEW_APPROVED", "CANCELLED">>)
<1>1. /\ cases[c] # None /\ cases[c].status = "PENDING_APPROVAL" /\ checker # cases[c].maker
      /\ cases' = [cases EXCEPT ![c] = e] /\ transactions' = [transactions EXCEPT ![c] = new]
      /\ UNCHANGED <<environment, books, cashControl, idempotency>>
  BY DEF ApproveCancel, MayApprove
<1>2. transactions[c] \in TransactionRow /\ cases[c] \in CaseRow
  BY <1>1, UnderReview
<1>3. cases[c].replacement = None
  BY <1>1 DEF IInv, CasesFit
<1>4. new \in TransactionRow /\ new.state = "CANCELLED" /\ Continues(transactions[c], new)
  <2>1. <<"REVIEW_APPROVED", "CANCELLED">> \in Seq(ReviewStates)
        /\ "CANCELLED" \in TransactionState
    BY DEF ReviewStates, TransactionState
  <2> QED BY <2>1, <1>2, MovedContinues
<1>5. /\ e \in CaseRow /\ e.status = "RESOLVED_CANCELLED" /\ e.checker = checker
      /\ e.maker = cases[c].maker /\ e.replacement = None
  BY <1>2, <1>3 DEF CaseRow, CaseStatus
<1>6. CaseState[e.status] = "CANCELLED"
  BY <1>5 DEF CaseState
<1> HIDE DEF e, new
<1> QED BY <1>1, <1>4, <1>5, <1>6, ReviewPreserves

\* A retry that the checks refuse opens the case again.
LEMMA BlockRetryPreserves ==
  ASSUME IInv, NEW c \in Id, NEW checker \in Person, BlockRetry(c, checker)
  PROVE  IInv'
<1> DEFINE e == [cases[c] EXCEPT !.status = "OPEN", !.decision = None, !.maker = None,
                                 !.proposed = None]
           new == Reopened(transactions[c])
<1>1. /\ cases[c] # None /\ cases[c].status = "PENDING_APPROVAL"
      /\ cases' = [cases EXCEPT ![c] = e] /\ transactions' = [transactions EXCEPT ![c] = new]
      /\ UNCHANGED <<environment, books, cashControl, idempotency>>
  BY DEF BlockRetry, MayApprove
<1>2. transactions[c] \in TransactionRow /\ cases[c] \in CaseRow
  BY <1>1, UnderReview
<1>3. cases[c].replacement = None /\ cases[c].checker = None
  BY <1>1 DEF IInv, CasesFit
<1>4. new \in TransactionRow /\ new.state = "REQUIRES_REVIEW"
      /\ Continues(transactions[c], new)
  <2>1. <<"REVIEW_APPROVED", "RETRY_BLOCKED">> \in Seq(ReviewStates)
        /\ "REQUIRES_REVIEW" \in TransactionState
    BY DEF ReviewStates, TransactionState
  <2> QED BY <2>1, <1>2, MovedContinues DEF Reopened
<1>5. e \in CaseRow /\ e.status = "OPEN" /\ e.checker = None /\ e.replacement = None
  BY <1>2, <1>3 DEF CaseRow, CaseStatus
<1>6. CaseState[e.status] = "REQUIRES_REVIEW"
  BY <1>5 DEF CaseState
<1> HIDE DEF e, new
<1> QED BY <1>1, <1>4, <1>5, <1>6, ReviewPreserves

\* The transfer that is tried again is the one that failed, under the proposed id.
LEMMA RetryType ==
  ASSUME IInv, NEW c \in Id, cases[c] # None, cases[c].status = "PENDING_APPROVAL",
         cases[c].decision = "RETRY"
  PROVE  /\ Retry(c) \in TransferRequest
         /\ LET q == cases[c].request
            IN /\ Retry(c).seller = q.seller /\ Retry(c).buyer = q.buyer
               /\ Retry(c).units = q.units /\ Retry(c).price = q.price /\ Retry(c).fee = q.fee
<1>1. cases[c].request \in TransferRequest /\ cases[c].proposed \in Id
  BY UnderReview DEF CaseRow, IInv, CasesFit
<1> QED BY <1>1 DEF Retry, TransferRequest

\* A retry that settles.
LEMMA RetryPreserves ==
  ASSUME IInv, NEW c \in Id, NEW checker \in Person, ApproveRetry(c, checker)
  PROVE  IInv'
<1> DEFINE r == Retry(c)
           tx == TransferOf(r)
           k == <<c, r.id>>
           old == Moved(transactions[c], "REPLACED", <<"REVIEW_APPROVED", "REPLACED">>)
           e == [cases[c] EXCEPT !.status = "RESOLVED_RETRIED", !.checker = checker,
                                 !.replacement = r.id]
<1>1. /\ cases[c] # None /\ cases[c].status = "PENDING_APPROVAL" /\ checker # cases[c].maker
      /\ cases[c].decision = "RETRY" /\ MayTransfer(r) /\ Exchange(r)
      /\ transactions' = [transactions EXCEPT ![r.id] = tx, ![c] =
           Moved(@, "REPLACED", <<"REVIEW_APPROVED", "REPLACED">>)]
      /\ cashControl' = [cashControl EXCEPT ![r.id] = "CONFIRMED"]
      /\ idempotency' = Recorded(k, r, tx, "CONFIRMED")
      /\ cases' = [cases EXCEPT ![c] = e]
      /\ UNCHANGED environment
  BY DEF ApproveRetry, MayApprove
<1>2. /\ r \in TransferRequest /\ r.id \in Id
      /\ r.seller = cases[c].request.seller /\ r.buyer = cases[c].request.buyer
      /\ r.units = cases[c].request.units /\ r.price = cases[c].request.price
      /\ r.fee = cases[c].request.fee
  BY <1>1, RetryType, TransferRequestType
<1>3. TypeOK /\ Booked /\ register = units
  BY DEF IInv, Booked
<1>4. /\ transactions[r.id] = None /\ transactions[c] \in TransactionRow
      /\ cases[c] \in CaseRow
      /\ transactions[c].state = "PENDING_APPROVAL"
      /\ cases[c].replacement = None
  <2>1. transactions[c].state = CaseState["PENDING_APPROVAL"]
    BY <1>1 DEF IInv, ExceptionsSettleOnce
  <2> QED BY <2>1, <1>1, UnderReview
             DEF MayTransfer, Tradable, NewTransaction, IInv, CasesFit, CaseState
<1>5. c # r.id /\ r.id \notin Known /\ c \in Known /\ r.id # None
  BY <1>2, <1>4, NoneAssumption DEF Known
<1>6. /\ tx \in TransactionRow /\ tx.state = "SETTLED" /\ Enters(tx) /\ tx # None
      /\ tx.seller = r.seller /\ tx.buyer = r.buyer /\ tx.units = r.units
      /\ tx.cash = Consideration(r) /\ tx.fee = r.fee
  BY <1>1, <1>2, <1>3, TransferOfType, ExchangeEnters, NoneAssumption
<1>7. /\ old \in TransactionRow /\ old.state = "REPLACED" /\ old # None
      /\ Continues(transactions[c], old)
  <2>1. <<"REVIEW_APPROVED", "REPLACED">> \in Seq(ReviewStates)
        /\ "REPLACED" \in TransactionState
    BY DEF ReviewStates, TransactionState
  <2>2. old \in TransactionRow /\ old.state = "REPLACED" /\ Continues(transactions[c], old)
    BY <2>1, <1>4, MovedContinues
  <2> HIDE DEF old
  <2>3. old # None
    BY <2>2, NoneAssumption
  <2> QED BY <2>2, <2>3
<1>8. /\ e \in CaseRow /\ e # None /\ e.status = "RESOLVED_RETRIED" /\ e.checker = checker
      /\ e.maker = cases[c].maker /\ e.replacement = r.id /\ e.request = cases[c].request
  <2>1. PICK x : x = r.id
    OBVIOUS
  <2> DEFINE f == [cases[c] EXCEPT !.status = "RESOLVED_RETRIED", !.checker = checker,
                                   !.replacement = x]
  <2>2. x \in Id /\ cases[c] \in CaseRow
    BY <2>1, <1>2, <1>4
  <2>3. /\ f \in CaseRow /\ f.status = "RESOLVED_RETRIED" /\ f.checker = checker
        /\ f.maker = cases[c].maker /\ f.replacement = x /\ f.request = cases[c].request
    BY <2>2 DEF CaseRow, CaseStatus
  <2>4. e = f
    BY <2>1
  <2> HIDE DEF e, f, r
  <2>5. e # None
    BY <2>3, <2>4, NoneAssumption
  <2> QED BY <2>1, <2>3, <2>4, <2>5
<1>9. transactions' = [transactions EXCEPT ![r.id] = tx, ![c] = old]
  BY <1>1, <1>3, <1>5 DEF TypeOK
<1>10. Consideration(r) = cases[c].request.units * cases[c].request.price
  BY <1>2 DEF Consideration
<1>11. k \in RetryKey /\ k[2] = r.id
  BY <1>2 DEF RetryKey
<1> HIDE DEF tx, r, k, old, e
<1>12. idempotency[k] = None
  <2>1. k \in RecordedKeys => idempotency[k].request.id = r.id
        /\ idempotency[k].request.id \in Known
    BY <1>11 DEF IInv, RetryKeysFit, OneKeyPerTransaction
  <2> QED BY <2>1, <1>3, <1>5, <1>11 DEF RecordedKeys, TypeOK
<1>13. /\ transactions' \in [Id -> TransactionRow \cup {None}]
       /\ transactions'[r.id] = tx /\ transactions'[c] = old
       /\ cashControl'[r.id] = "CONFIRMED"
       /\ \A t \in Id \ {c, r.id} : transactions'[t] = transactions[t]
       /\ \A t \in Known : t # r.id /\ t \in Id /\ transactions[t] \in TransactionRow
                           /\ cashControl'[t] = cashControl[t]
  BY <1>1, <1>2, <1>3, <1>5, <1>6, <1>7, <1>9 DEF TypeOK, Known
<1>14. \A t \in Known : transactions'[t] \in TransactionRow
                        /\ Continues(transactions[t], transactions'[t])
  BY <1>7, <1>13, ContinuesItself
<1>15. \A t \in Id \ {r.id} : transactions'[t] # None <=> transactions[t] # None
  BY <1>4, <1>5, <1>7, <1>13 DEF Known
<1>16. /\ Known' = Known \cup {r.id} /\ SettledIds' = SettledIds \cup {r.id}
       /\ c \notin SettledIds /\ SettledIds \subseteq Known
       /\ \A t \in SettledIds : transactions'[t] = transactions[t]
  BY <1>2, <1>4, <1>5, <1>6, <1>7, <1>13, <1>15 DEF Known, SettledIds
<1>17. "CONFIRMED" \in CashState
  BY DEF CashState
<1>18. /\ idempotency' \in [Key \cup RetryKey -> IdempotencyRow \cup {None}]
       /\ OneKeyPerTransaction' /\ RetryKeysFit' /\ ReceiptsStayTrue'
  BY <1>1, <1>2, <1>4, <1>6, <1>11, <1>12, <1>13, <1>14, <1>15, <1>17, JournalGrows
<1>19. Booked'
  BY <1>2, <1>3, <1>5, <1>6, <1>13, <1>16, BooksGrow DEF Enters
<1>20. /\ cases' \in [Id -> CaseRow \cup {None}] /\ cases'[c] = e
       /\ \A d \in Id \ {c} : cases'[d] = cases[d]
       /\ cases[r.id] = None
  BY <1>1, <1>2, <1>3, <1>4, <1>8 DEF TypeOK, IInv, CasesFit
<1>21. CasesFit'
  BY <1>5, <1>7, <1>8, <1>13, <1>15, <1>20 DEF IInv, CasesFit
<1>22. ASSUME NEW d \in Id, d # c, cases[d] # None
       PROVE  /\ d \in Known /\ transactions'[d] = transactions[d] /\ cases'[d] = cases[d]
              /\ cases[d].replacement # r.id
              /\ cases[d].status = "RESOLVED_RETRIED" =>
                   cases[d].replacement \in SettledIds /\ cases[d].replacement # None
  <2>1. d \in Known
    BY <1>22 DEF IInv, CasesFit, Known
  <2>2. cases[d].replacement # None <=> cases[d].status = "RESOLVED_RETRIED"
    BY <1>22 DEF IInv, CasesFit
  <2>3. cases[d].status = "RESOLVED_RETRIED" => cases[d].replacement \in SettledIds
    BY <1>22 DEF IInv, ExceptionsSettleOnce
  <2>4. cases[d].replacement # r.id
    BY <2>2, <2>3, <1>5, <1>16
  <2> QED BY <2>1, <2>2, <2>3, <2>4, <1>13, <1>20, <1>22
<1>23. ASSUME NEW d \in Id, cases'[d] # None
       PROVE  /\ transactions'[d].state = CaseState[cases'[d].status]
              /\ cases'[d].checker # None => cases'[d].checker # cases'[d].maker
              /\ cases'[d].status = "RESOLVED_RETRIED" =>
                   LET t == cases'[d].replacement
                   IN /\ t \in SettledIds' /\ SameTerms(transactions'[t], cases'[d].request)
                      /\ \A b \in Id \ {d} : cases'[b] # None => cases'[b].replacement # t
  <2>1. CASE d = c
    <3>1. transactions'[d].state = CaseState[cases'[d].status]
      BY <2>1, <1>7, <1>8, <1>13, <1>20 DEF CaseState
    <3>2. SameTerms(tx, cases[c].request)
      BY <1>2, <1>6, <1>10 DEF SameTerms
    <3>3. \A b \in Id \ {c} : cases'[b] # None => cases'[b].replacement # r.id
      BY <1>20, <1>22
    <3>4. cases'[c].checker # cases'[c].maker
      BY <1>1, <1>8, <1>20
    <3>5. cases'[c].replacement = r.id /\ cases'[c].request = cases[c].request
      BY <1>8, <1>20
    <3>6. r.id \in SettledIds'
      BY <1>16
    <3>7. SameTerms(transactions'[r.id], cases'[c].request)
      BY <3>2, <3>5, <1>13 DEF SameTerms
    <3> QED BY <2>1, <3>1, <3>3, <3>4, <3>5, <3>6, <3>7
  <2>2. CASE d # c
    <3>1. /\ cases'[d] = cases[d] /\ cases[d] # None /\ transactions'[d] = transactions[d]
          /\ cases[d].status = "RESOLVED_RETRIED" =>
               cases[d].replacement \in SettledIds /\ cases[d].replacement # r.id
      BY <2>2, <1>20, <1>22, <1>23
    <3>2. \A b \in Id \ {d} : cases'[b] # None /\ cases[d].status = "RESOLVED_RETRIED"
            => cases'[b].replacement # cases[d].replacement
      <4>1. ASSUME NEW b \in Id \ {d}, cases'[b] # None, cases[d].status = "RESOLVED_RETRIED"
            PROVE  cases'[b].replacement # cases[d].replacement
        <5>1. CASE b = c
          BY <5>1, <3>1, <4>1, <1>8, <1>20
        <5>2. CASE b # c
          BY <5>2, <3>1, <4>1, <1>20 DEF IInv, ExceptionsSettleOnce
        <5> QED BY <5>1, <5>2
      <4> QED BY <4>1
    <3>3. /\ transactions[d].state = CaseState[cases[d].status]
          /\ cases[d].checker # None => cases[d].checker # cases[d].maker
          /\ cases[d].status = "RESOLVED_RETRIED" =>
               SameTerms(transactions[cases[d].replacement], cases[d].request)
      BY <3>1 DEF IInv, ExceptionsSettleOnce
    <3> QED BY <3>1, <3>2, <3>3, <1>16
  <2> QED BY <2>1, <2>2
<1>24. ExceptionsSettleOnce'
  BY <1>23 DEF ExceptionsSettleOnce, SameTerms
<1>25. TypeOK'
  <2>1. cashControl' \in [Id -> CashState \cup {None}]
    BY <1>1, <1>3, <1>17 DEF TypeOK
  <2>2. \A book \in {cash', units', register'} : book \in [Account -> Nat]
    BY <1>6 DEF Enters
  <2> QED BY <2>1, <2>2, <1>1, <1>3, <1>13, <1>18, <1>20 DEF TypeOK, environment
<1> QED BY <1>18, <1>19, <1>21, <1>24, <1>25 DEF IInv

-----------------------------------------------------------------------------
(* The product, time and evidence, and the whole next-state relation.      *)

\* A step that touches neither the books nor the journal nor a case.
LEMMA ControlPreserves ==
  ASSUME IInv, UNCHANGED <<books, journal, cases>>,
         clock' \in 0..Horizon, status' \in {"ACTIVE", "PAUSED"},
         navs' \subseteq Nav, restricted' \subseteq Investor
  PROVE  IInv'
<1>1. /\ UNCHANGED <<transactions, cashControl, idempotency, cases, cash, units, register>>
      /\ Known' = Known /\ SettledIds' = SettledIds
  BY DEF books, journal, Known, SettledIds
<1>2. \A t \in Known : transactions'[t] \in TransactionRow
                       /\ Continues(transactions[t], transactions'[t])
  <2>1. \A t \in Known : transactions[t] \in TransactionRow
    BY DEF Known, IInv, TypeOK
  <2> QED BY <2>1, <1>1, ContinuesItself
<1>3. OneKeyPerTransaction' /\ RetryKeysFit' /\ ReceiptsStayTrue'
  BY <1>1, <1>2, JournalStays
<1>4. Booked'
  BY <1>1, BooksStay DEF IInv
<1>5. CasesFit' /\ ExceptionsSettleOnce'
  BY <1>1, CasesStay
<1>6. TypeOK'
  BY <1>1 DEF IInv, TypeOK
<1> QED BY <1>3, <1>4, <1>5, <1>6 DEF IInv

\* The seed of the sandbox satisfies the inductive invariant.
LEMMA InitIInv == Init => IInv
<1> SUFFICES ASSUME Init PROVE IInv
  OBVIOUS
<1>1. TypeOK
  BY AmountAssumption DEF Init, TypeOK, Account
<1>2. Known = {} /\ RecordedKeys = {} /\ \A c \in Id : cases[c] = None
  BY DEF Init, Known, RecordedKeys
<1>3. Booked
  BY InitBooked
<1> QED BY <1>1, <1>2, <1>3
        DEF IInv, OneKeyPerTransaction, RetryKeysFit, ReceiptsStayTrue, CasesFit,
            ExceptionsSettleOnce

\* Every call preserves the inductive invariant.
LEMMA NextIInv ==
  ASSUME IInv, [Next]_vars
  PROVE  IInv'
<1>1. CASE Trade
  BY <1>1, SubscribePreserves, RedeemPreserves, TransferPreserves, RegisterFailurePreserves
     DEF Trade
<1>2. CASE Review
  <2>1. ASSUME NEW c \in Id, NEW p \in Person, ProposeResolution(c, p, "CANCEL", None)
        PROVE IInv'
    BY <2>1, ProposePreserves
  <2>2. ASSUME NEW c \in Id, NEW p \in Person, NEW t \in Id, ProposeResolution(c, p, "RETRY", t)
        PROVE IInv'
    BY <2>2, ProposePreserves
  <2> QED BY <1>2, <2>1, <2>2, CancelPreserves, RetryPreserves, BlockRetryPreserves DEF Review
<1>3. CASE Control
  <2>1. /\ clock \in 0..Horizon /\ status \in {"ACTIVE", "PAUSED"}
        /\ navs \subseteq Nav /\ restricted \subseteq Investor
    BY DEF IInv, TypeOK
  <2>2. CASE PauseProduct
    BY <2>1, <2>2, ControlPreserves DEF PauseProduct
  <2>3. CASE ActivateProduct
    BY <2>1, <2>3, ControlPreserves DEF ActivateProduct
  <2>4. CASE Tick
    <3>1. clock' \in 0..Horizon
      BY <2>1, <2>4, AmountAssumption DEF Tick
    <3> QED BY <2>1, <2>4, <3>1, ControlPreserves DEF Tick
  <2>5. ASSUME NEW i \in Investor, RevokeCredential(i) PROVE IInv'
    BY <2>1, <2>5, ControlPreserves DEF RevokeCredential
  <2>6. ASSUME NEW n \in Nav, SubmitEvidence(n) PROVE IInv'
    BY <2>1, <2>6, ControlPreserves DEF SubmitEvidence
  <2> QED BY <1>3, <2>2, <2>3, <2>4, <2>5, <2>6 DEF Control
<1>4. CASE UNCHANGED vars
  <2>1. /\ clock \in 0..Horizon /\ status \in {"ACTIVE", "PAUSED"}
        /\ navs \subseteq Nav /\ restricted \subseteq Investor
    BY DEF IInv, TypeOK
  <2> QED BY <1>4, <2>1, ControlPreserves DEF vars, environment
<1> QED BY <1>1, <1>2, <1>3, <1>4 DEF Next

\* The inductive invariant holds in every state of the control plane.
THEOREM ControlPlaneInvariance == Spec => []IInv
<1>1. Init => IInv
  BY InitIInv
<1>2. IInv /\ [Next]_vars => IInv'
  BY NextIInv
<1> QED BY <1>1, <1>2, PTL DEF Spec

\* The maps of the class hold what TypeOK says: no balance is ever negative, and
\* every journal row has its shape.
THEOREM ControlPlaneTypeCorrect == Spec => []TypeOK
<1>1. IInv => TypeOK
  BY DEF IInv
<1> QED BY <1>1, ControlPlaneInvariance, PTL

\* The register, the units and the cash of every account are what the settled
\* transactions add up to, whatever failed, was reviewed, retried or cancelled.
THEOREM BooksAreExact == Spec => []BooksAreSettledEffects
<1>1. IInv => BooksAreSettledEffects
  BY BooksAreBooked DEF IInv
<1> QED BY <1>1, ControlPlaneInvariance, PTL

\* Every transaction stands under exactly one idempotency key: a retry of a
\* call, and of a failed transfer, settles once.
THEOREM KeysHold == Spec => []OneKeyPerTransaction
<1>1. IInv => OneKeyPerTransaction
  BY DEF IInv
<1> QED BY <1>1, ControlPlaneInvariance, PTL

\* The package that a receipt carries is the package served now, and the history
\* on the receipt is the beginning of the transaction's.
THEOREM ReceiptsHold == Spec => []ReceiptsStayTrue
<1>1. IInv => ReceiptsStayTrue
  BY DEF IInv
<1> QED BY <1>1, ControlPlaneInvariance, PTL

\* A case agrees with its transaction, two people resolved it, and a failed
\* transfer is made good by at most one settled transfer on its terms.
THEOREM CasesSettleOnce == Spec => []ExceptionsSettleOnce
<1>1. IInv => ExceptionsSettleOnce
  BY DEF IInv
<1> QED BY <1>1, ControlPlaneInvariance, PTL
=============================================================================
