--------------------------- MODULE OrderLedger_proofs ---------------------------
(***************************************************************************)
(* Proofs about VatSplit and OrderLedger, for every price, deposit and     *)
(* series of payments: what the split loses to rounding, that every entry  *)
(* balances, and what the journal of an order says once it is closed.      *)
(***************************************************************************)
EXTENDS OrderLedger, TLAPS

-----------------------------------------------------------------------------
(* The split.                                                              *)

\* The quotient of the split, without the division.
LEMMA NetBounds ==
    ASSUME NEW g \in Nat
    PROVE  /\ NetOf(g) \in Nat
           /\ 46 * NetOf(g) <= 40 * g + 23
           /\ 40 * g + 23 < 46 * NetOf(g) + 46
BY DEF NetOf

\* Net and VAT are parts of the price, and the VAT is 15/115 of it to half a halala.
LEMMA VatBounds ==
    ASSUME NEW g \in Nat
    PROVE  /\ NetOf(g) \in Nat /\ VatOf(g) \in Nat
           /\ NetOf(g) + VatOf(g) = g
           /\ 6 * g - 23 <= 46 * VatOf(g)
           /\ 46 * VatOf(g) <= 6 * g + 23
<1>1. PICK n \in Nat : n = NetOf(g) /\ 46 * n <= 40 * g + 23 /\ 40 * g + 23 < 46 * n + 46
    BY NetBounds
<1>2. g - n \in Nat /\ n + (g - n) = g
    BY <1>1
<1>3. 6 * g - 23 <= 46 * (g - n) /\ 46 * (g - n) <= 6 * g + 23
    BY <1>1
<1> QED BY <1>1, <1>2, <1>3 DEF VatOf

\* A dearer order never owes less VAT.
LEMMA VatMonotone ==
    ASSUME NEW g \in Nat, NEW h \in Nat, g <= h
    PROVE  VatOf(g) <= VatOf(h)
BY DEF NetOf, VatOf

-----------------------------------------------------------------------------
(* The settlement's entry.                                                 *)

\* Whatever is settled and applied, the entry is balanced: the rounding of the
\* two splits is absorbed, not lost.
LEMMA SettlementBalances ==
    ASSUME NEW amount \in Nat, NEW applied \in Nat, NEW orderTotal \in Nat
    PROVE  LET e == SettlementEntry(amount, applied, orderTotal)
           IN /\ e.cash = amount /\ e.unearned = 0
              /\ e.release = NetOf(applied)
              /\ e.vat = EntryVat(amount, applied, orderTotal)
              /\ e.vat \in Int /\ e.revenue \in Int
              /\ e.cash + e.release = e.unearned + e.revenue + e.vat
<1>1. /\ NetOf(amount) \in Nat /\ VatOf(amount) \in Nat
      /\ NetOf(applied) \in Nat /\ VatOf(applied) \in Nat
      /\ NetOf(orderTotal) \in Nat /\ VatOf(orderTotal) \in Nat
    BY VatBounds
<1>2. EntryVat(amount, applied, orderTotal) \in Int
    BY <1>1 DEF EntryVat
<1>3. EntryRevenue(amount, applied, orderTotal) \in Int
    BY <1>1 DEF EntryRevenue
<1> QED BY <1>1, <1>2, <1>3 DEF SettlementEntry

\* Without a deposit to release the entry is the split of what is paid.
LEMMA PlainEntry ==
    ASSUME NEW amount \in Nat, NEW orderTotal \in Nat
    PROVE  SettlementEntry(amount, 0, orderTotal) =
              [cash |-> amount, release |-> 0, unearned |-> 0,
               revenue |-> NetOf(amount), vat |-> VatOf(amount)]
<1>1. NetOf(0) = 0
    BY DEF NetOf
<1>2. NetOf(amount) \in Nat /\ VatOf(amount) \in Nat /\ NetOf(amount) + VatOf(amount) = amount
    BY VatBounds
<1> QED BY <1>1, <1>2 DEF SettlementEntry, EntryVat, EntryRevenue

\* The closing entry of a deposit order posts the rest of the order's VAT.
LEMMA ClosingEntry ==
    ASSUME NEW amount \in Nat, NEW applied \in Nat \ {0}, NEW orderTotal \in Nat
    PROVE  SettlementEntry(amount, applied, orderTotal) =
              [cash |-> amount, release |-> NetOf(applied), unearned |-> 0,
               revenue |-> amount + applied - VatOf(orderTotal),
               vat |-> VatOf(orderTotal) - VatOf(applied)]
<1>1. /\ NetOf(applied) \in Nat /\ VatOf(applied) \in Nat
      /\ NetOf(applied) + VatOf(applied) = applied
      /\ NetOf(orderTotal) \in Nat /\ VatOf(orderTotal) \in Nat
    BY VatBounds
<1> QED BY <1>1 DEF SettlementEntry, EntryVat, EntryRevenue

-----------------------------------------------------------------------------
(* The inductive invariant.                                                *)

\* Before the checkout there is nothing.
Untouched ==
    orderStatus = "absent" =>
        /\ payments.count = 0 /\ payments.settled = 0 /\ payments.added = 0
        /\ accounts = [cash |-> 0, unearned |-> 0, vat |-> 0, revenue |-> 0]
        /\ closings = 0 /\ instalments = 0 /\ ~stale
        /\ \A w \in Cashiers : paying[w] = NoPayment

\* A payment in flight fits into the total it was compared with.
RequestsFit ==
    \A w \in Cashiers :
        paying[w] # NoPayment =>
            /\ paying[w].deposits = payments.deposits
            /\ paying[w].deposits <= paying[w].paid
            /\ paying[w].paid + paying[w].amount <= total

\* The deposit is never given back.
DepositCovered == payments.deposits <= paidAmount

\* An order that was closed has been paid, and it was not closed without a payment.
ClosedIsPaid ==
    ~stale => /\ closings >= 1 => paidAmount = total
              /\ payments.count = 0 => closings = 0

\* Until the first payment the journal holds the deposit's entry and nothing else.
OnlyDeposit ==
    payments.count = 0 /\ orderStatus # "absent" =>
        /\ payments.settled = 0 /\ payments.added = 0
        /\ closings = 0 /\ instalments = 0
        /\ accounts = [cash |-> payments.deposits, unearned |-> NetOf(payments.deposits),
                       vat |-> VatOf(payments.deposits), revenue |-> 0]

\* Every settlement that releases no deposit adds at most half a halala of VAT or
\* takes it; every other entry is exact.
VatOfInstalments ==
    accounts.vat - VatOf(payments.deposits) - closings * RestOfVat

VatError ==
    /\ 6 * instalments - 23 * payments.count <= 46 * VatOfInstalments
    /\ 46 * VatOfInstalments <= 6 * instalments + 23 * payments.count

LedgerInv ==
    /\ LedgerTypeOK
    /\ Untouched
    /\ RequestsFit
    /\ DepositCovered
    /\ PaidIsSumOfPayments
    /\ ClosedIsPaid
    /\ DepositReleasedOnce
    /\ OnlyDeposit
    /\ OneSettlementReconciles
    /\ VatError

\* Two facts of arithmetic about the sources of VAT.
LEMMA ZeroTimes == ASSUME NEW x \in Int PROVE 0 * x = 0
OBVIOUS

LEMMA RestIsInt ==
    ASSUME LedgerTypeOK
    PROVE  /\ RestOfVat \in Int /\ VatOfInstalments \in Int
           /\ closings * RestOfVat \in Int /\ VatOf(payments.deposits) \in Nat
<1>1. /\ payments.deposits \in Nat /\ total \in Nat /\ closings \in Nat
      /\ accounts.vat \in Int
    BY LedgerAssumption DEF LedgerTypeOK
<1>2. VatOf(payments.deposits) \in Nat /\ VatOf(total) \in Nat
    BY <1>1, VatBounds
<1>3. RestOfVat \in Int
    BY <1>2 DEF RestOfVat
<1>4. closings * RestOfVat \in Int
    BY <1>1, <1>3
<1> QED BY <1>1, <1>2, <1>3, <1>4 DEF VatOfInstalments

LEMMA InitInv == LedgerInit => LedgerInv
<1> SUFFICES ASSUME LedgerInit PROVE LedgerInv
    OBVIOUS
<1> USE LedgerAssumption DEF LedgerInit
<1>1. LedgerTypeOK
  <2>1. total \in Totals /\ paying \in [Cashiers -> PaymentRequest \cup {NoPayment}]
      OBVIOUS
  <2>2. /\ payments \in [deposits : Nat, settled : Nat, added : Nat, count : Nat]
        /\ accounts \in [cash : Int, unearned : Int, vat : Int, revenue : Int]
      OBVIOUS
  <2> QED BY <2>1, <2>2 DEF LedgerTypeOK
<1>2. Untouched /\ RequestsFit
    BY DEF Untouched, RequestsFit
<1>3. DepositCovered /\ ClosedIsPaid /\ PaidIsSumOfPayments
    BY DEF DepositCovered, ClosedIsPaid, PaidIsSumOfPayments
<1>4. NetOf(0) = 0
    BY DEF NetOf
<1>5. DepositReleasedOnce /\ OnlyDeposit
    BY <1>4 DEF DepositReleasedOnce, OnlyDeposit
<1>7. VatError
  <2>1. VatOf(payments.deposits) = 0 /\ RestOfVat = 0
      BY <1>4 DEF VatOf, RestOfVat
  <2>2. VatOfInstalments = 0
      BY <2>1 DEF VatOfInstalments
  <2> QED BY <2>2 DEF VatError
<1>6. OneSettlementReconciles
    BY DEF OneSettlementReconciles, PaidByOneSettlement
<1> QED BY <1>1, <1>2, <1>3, <1>5, <1>6, <1>7 DEF LedgerInv

\* A step that moves no money.
LEMMA QuietInv ==
    ASSUME LedgerInv,
           UNCHANGED <<total, paidAmount, payments, accounts, closings, instalments,
                       stale>>,
           orderStatus' \in {"making", "ready", "delivered"} /\ orderStatus # "absent",
           paying' \in [Cashiers -> PaymentRequest \cup {NoPayment}],
           \A w \in Cashiers : paying'[w] # NoPayment =>
               \/ paying'[w] = paying[w]
               \/ /\ paying'[w].deposits = payments.deposits
                  /\ paying'[w].paid = paidAmount
                  /\ paying'[w].paid + paying'[w].amount <= total
    PROVE  LedgerInv'
<1>1. LedgerTypeOK'
    BY DEF LedgerInv, LedgerTypeOK
<1>2. RequestsFit'
    BY DEF LedgerInv, RequestsFit, DepositCovered
<1>3. Untouched' /\ DepositCovered' /\ ClosedIsPaid'
    BY DEF LedgerInv, Untouched, DepositCovered, ClosedIsPaid
<1>5. OnlyDeposit' /\ VatError'
    BY DEF LedgerInv, OnlyDeposit, VatError, VatOfInstalments, RestOfVat
<1>4. PaidIsSumOfPayments' /\ DepositReleasedOnce' /\ OneSettlementReconciles'
    BY DEF LedgerInv, PaidIsSumOfPayments, DepositReleasedOnce, OneSettlementReconciles,
           PaidByOneSettlement
<1> QED BY <1>1, <1>2, <1>3, <1>4, <1>5 DEF LedgerInv

LEMMA CheckoutInv ==
    ASSUME NEW d \in Amounts \cup {0}, LedgerInv, CheckoutDeposit(d)
    PROVE  LedgerInv'
<1> USE LedgerAssumption
<1>1. d \in Nat /\ NetOf(d) \in Nat /\ VatOf(d) \in Nat
    BY VatBounds
<1>2. /\ payments = [deposits |-> payments.deposits, settled |-> 0, added |-> 0, count |-> 0]
      /\ accounts = [cash |-> 0, unearned |-> 0, vat |-> 0, revenue |-> 0]
      /\ closings = 0 /\ instalments = 0 /\ ~stale
      /\ \A w \in Cashiers : paying[w] = NoPayment
    BY DEF LedgerInv, LedgerTypeOK, Untouched, CheckoutDeposit
<1>3. /\ orderStatus' = "making" /\ paidAmount' = d
      /\ payments' = [deposits |-> d, settled |-> 0, added |-> 0, count |-> 0]
      /\ UNCHANGED <<total, paying, closings, instalments, stale>>
    BY <1>2 DEF CheckoutDeposit
<1>4. accounts' = [cash |-> d, unearned |-> NetOf(d), vat |-> VatOf(d), revenue |-> 0]
  <2>1. CASE d > 0
    <3>1. Post(DepositEntry(d))
        BY <2>1 DEF CheckoutDeposit
    <3> QED BY <1>1, <1>2, <3>1 DEF Post, DepositEntry
  <2>2. CASE d = 0
    <3>1. accounts' = accounts
        BY <2>2 DEF CheckoutDeposit
    <3>2. NetOf(0) = 0 /\ VatOf(0) = 0
        BY DEF NetOf, VatOf
    <3> QED BY <1>2, <2>2, <3>1, <3>2
  <2> QED BY <1>1, <2>1, <2>2
<1>5. LedgerTypeOK'
    BY <1>1, <1>3, <1>4 DEF LedgerInv, LedgerTypeOK
<1>6. Untouched' /\ RequestsFit' /\ DepositCovered' /\ ClosedIsPaid' /\ OnlyDeposit'
    BY <1>1, <1>2, <1>3, <1>4
       DEF Untouched, RequestsFit, DepositCovered, ClosedIsPaid, OnlyDeposit
<1>7. PaidIsSumOfPayments' /\ DepositReleasedOnce'
    BY <1>1, <1>2, <1>3, <1>4 DEF PaidIsSumOfPayments, DepositReleasedOnce
<1>8. OneSettlementReconciles'
    BY <1>3 DEF OneSettlementReconciles, PaidByOneSettlement
<1>9. VatError'
  <2>1. accounts'.vat = VatOf(d) /\ payments'.deposits = d /\ payments'.count = 0
        /\ closings' = 0 /\ instalments' = 0
      BY <1>2, <1>3, <1>4
  <2>2. RestOfVat' \in Int
    <3>1. total' \in Nat
        BY <1>3 DEF LedgerInv, LedgerTypeOK
    <3>2. VatOf(total') \in Nat
        BY <3>1, VatBounds
    <3> QED BY <1>1, <2>1, <3>2 DEF RestOfVat
  <2>3. VatOfInstalments' = 0
    <3>1. PICK rest \in Int : rest = RestOfVat'
        BY <2>2
    <3>2. 0 * rest = 0
        BY ZeroTimes
    <3> QED BY <1>1, <2>1, <3>1, <3>2 DEF VatOfInstalments
  <2> QED BY <2>1, <2>3 DEF VatError
<1> QED BY <1>5, <1>6, <1>7, <1>8, <1>9 DEF LedgerInv

\* What a payment in flight is worth to both commits.
LEMMA PaymentFacts ==
    ASSUME NEW w \in Cashiers, LedgerInv, paying[w] # NoPayment
    PROVE  /\ paying[w] \in PaymentRequest
           /\ paying[w].amount \in Nat \ {0} /\ paying[w].amount \in Amounts
           /\ paying[w].paid \in Nat /\ paying[w].deposits \in Nat
           /\ paying[w].deposits = payments.deposits
           /\ paying[w].deposits <= paying[w].paid
           /\ paying[w].paid + paying[w].amount <= total
           /\ orderStatus # "absent" /\ total \in Nat \ {0}
<1>1. paying[w] \in PaymentRequest
    BY DEF LedgerInv, LedgerTypeOK
<1>2. orderStatus # "absent"
    BY DEF LedgerInv, Untouched
<1> QED BY <1>1, <1>2, LedgerAssumption DEF LedgerInv, LedgerTypeOK, RequestsFit, PaymentRequest

\* What both commits do to the requests, the payments and paid_amount.
LEMMA RecordInv ==
    ASSUME NEW w \in Cashiers, NEW kind \in {"settled", "added"}, LedgerInv,
           paying[w] # NoPayment, RecordPayment(w, kind),
           total' = total, orderStatus' \in {orderStatus, "delivered"}
    PROVE  /\ Untouched' /\ RequestsFit' /\ DepositCovered' /\ PaidIsSumOfPayments'
           /\ total' \in Totals /\ orderStatus' \in {"making", "ready", "delivered"}
           /\ paidAmount' \in Nat /\ paidAmount' <= total
           /\ payments' \in [deposits : Nat, settled : Nat, added : Nat, count : Nat]
           /\ paying' \in [Cashiers -> PaymentRequest \cup {NoPayment}] /\ stale' \in BOOLEAN
           /\ payments'.deposits = payments.deposits
           /\ payments'.count = payments.count + 1
           /\ kind = "settled" => payments'.settled = payments.settled + paying[w].amount
           /\ kind = "added" => payments'.settled = payments.settled
           /\ stale' = (stale \/ paying[w].paid # paidAmount)
           /\ paidAmount' = paying[w].paid + paying[w].amount
<1> DEFINE a == paying[w].amount
           p == paying[w].paid
<1>1. /\ a \in Nat /\ a # 0 /\ p \in Nat /\ payments.deposits <= p
      /\ p + a <= total /\ orderStatus # "absent" /\ total \in Nat
    BY PaymentFacts
<1>2. paidAmount' = p + a
    BY DEF RecordPayment, PaidAfter
<1>3. stale' = (stale \/ p # paidAmount)
    BY DEF RecordPayment
<1>4. paying' = [paying EXCEPT ![w] = NoPayment]
    BY DEF RecordPayment
<1>5. payments' = [payments EXCEPT ![kind] = @ + a, !.count = @ + 1]
    BY DEF RecordPayment
<1>6. LedgerTypeOK /\ payments \in [deposits : Nat, settled : Nat, added : Nat, count : Nat]
    BY DEF LedgerInv, LedgerTypeOK
<1> HIDE DEF a, p
<1>7. /\ payments'.deposits = payments.deposits
      /\ payments'.count = payments.count + 1
      /\ kind = "settled" => /\ payments'.settled = payments.settled + a
                             /\ payments'.added = payments.added
      /\ kind = "added" => /\ payments'.settled = payments.settled
                           /\ payments'.added = payments.added + a
      /\ payments' \in [deposits : Nat, settled : Nat, added : Nat, count : Nat]
  <2>1. CASE kind = "settled"
    <3>1. payments' = [deposits |-> payments.deposits, settled |-> payments.settled + a,
                       added |-> payments.added, count |-> payments.count + 1]
        BY <1>5, <1>6, <2>1
    <3> QED BY <1>1, <1>6, <2>1, <3>1
  <2>2. CASE kind = "added"
    <3>1. payments' = [deposits |-> payments.deposits, settled |-> payments.settled,
                       added |-> payments.added + a, count |-> payments.count + 1]
        BY <1>5, <1>6, <2>2
    <3> QED BY <1>1, <1>6, <2>2, <3>1
  <2> QED BY <2>1, <2>2
<1>8. Untouched'
    BY <1>1 DEF Untouched
<1>9. RequestsFit'
    BY <1>4, <1>6, <1>7 DEF LedgerInv, RequestsFit, LedgerTypeOK
<1>10. DepositCovered'
    BY <1>1, <1>2, <1>6, <1>7 DEF DepositCovered
<1>11. PaidIsSumOfPayments'
  <2> SUFFICES ASSUME ~stale'
               PROVE  /\ paidAmount' = payments'.deposits + payments'.settled + payments'.added
                      /\ paidAmount' <= total
      BY DEF PaidIsSumOfPayments
  <2>1. paidAmount = payments.deposits + payments.settled + payments.added /\ p = paidAmount
      BY <1>3 DEF LedgerInv, PaidIsSumOfPayments
  <2> QED BY <1>1, <1>2, <1>6, <1>7, <2>1
<1>12. paying' \in [Cashiers -> PaymentRequest \cup {NoPayment}] /\ stale' \in BOOLEAN
    BY <1>3, <1>4, <1>6 DEF LedgerTypeOK
<1>13. total' \in Totals /\ orderStatus' \in {"making", "ready", "delivered"}
    BY <1>1, <1>6 DEF LedgerTypeOK
<1>14. paidAmount' \in Nat /\ paidAmount' <= total
    BY <1>1, <1>2
<1> QED BY <1>2, <1>3, <1>7, <1>8, <1>9, <1>10, <1>11, <1>12, <1>13, <1>14 DEF a, p

\* addPayment does not touch the journal.  That the order was closed before is
\* impossible without a race: a closed order admits no payment.
LEMMA AddInv ==
    ASSUME NEW w \in Cashiers, LedgerInv, AddPaymentCommit(w)
    PROVE  LedgerInv'
<1>1. /\ paying[w] # NoPayment /\ RecordPayment(w, "added")
      /\ UNCHANGED <<total, orderStatus, accounts, closings, instalments>>
    BY DEF AddPaymentCommit
<1>2. /\ Untouched' /\ RequestsFit' /\ DepositCovered' /\ PaidIsSumOfPayments'
      /\ total' \in Totals /\ orderStatus' \in {"making", "ready", "delivered"}
      /\ paidAmount' \in Nat
      /\ payments' \in [deposits : Nat, settled : Nat, added : Nat, count : Nat]
      /\ paying' \in [Cashiers -> PaymentRequest \cup {NoPayment}] /\ stale' \in BOOLEAN
      /\ payments'.deposits = payments.deposits
      /\ payments'.count = payments.count + 1
      /\ payments'.settled = payments.settled
      /\ stale' = (stale \/ paying[w].paid # paidAmount)
    BY <1>1, RecordInv
<1>3. /\ LedgerTypeOK /\ DepositReleasedOnce /\ ClosedIsPaid /\ VatError
      /\ closings \in Nat /\ payments.count \in Nat /\ payments.settled \in Nat
      /\ accounts.vat \in Int
    BY DEF LedgerInv, LedgerTypeOK
<1>4. LedgerTypeOK'
    BY <1>1, <1>2, <1>3 DEF LedgerTypeOK
<1>5. ~stale' => closings = 0 /\ ~stale
  <2> SUFFICES ASSUME ~stale' PROVE closings = 0 /\ ~stale
      OBVIOUS
  <2>0. ~stale /\ paying[w].paid = paidAmount
      BY <1>2
  <2>1. CASE closings >= 1
    <3>1. paidAmount = total
        BY <1>3, <2>0, <2>1 DEF ClosedIsPaid
    <3> QED BY <1>1, <2>0, <3>1, PaymentFacts
  <2>2. CASE ~(closings >= 1)
      BY <1>3, <2>0, <2>2
  <2> QED BY <2>1, <2>2
<1>6. ClosedIsPaid' /\ DepositReleasedOnce'
    BY <1>1, <1>2, <1>3, <1>5 DEF ClosedIsPaid, DepositReleasedOnce
<1>7. OneSettlementReconciles'
    BY <1>1, <1>5 DEF OneSettlementReconciles, PaidByOneSettlement
<1>8. OnlyDeposit'
    BY <1>2, <1>3 DEF OnlyDeposit
<1>9. VatError'
  <2>1. VatOfInstalments' = VatOfInstalments
      BY <1>1, <1>2 DEF VatOfInstalments, RestOfVat
  <2>2. VatOfInstalments \in Int /\ instalments \in Nat
      BY RestIsInt DEF LedgerInv, LedgerTypeOK
  <2>3. PICK v \in Int, i \in Nat, n \in Nat :
            v = VatOfInstalments /\ i = instalments /\ n = payments.count
      BY <1>3, <2>2
  <2>4. 6 * i - 23 * n <= 46 * v /\ 46 * v <= 6 * i + 23 * n
      BY <1>3, <2>3 DEF VatError
  <2>5. 6 * i - 23 * (n + 1) <= 46 * v /\ 46 * v <= 6 * i + 23 * (n + 1)
      BY <2>3, <2>4
  <2> QED BY <1>1, <1>2, <2>1, <2>3, <2>5 DEF VatError
<1> QED BY <1>2, <1>4, <1>6, <1>7, <1>8, <1>9 DEF LedgerInv

\* The settlement's entry reaches the accounts.
LEMMA SettleAccounts ==
    ASSUME NEW w \in Cashiers, NEW a \in Nat, NEW dep \in Nat, NEW tot \in Nat,
           LedgerInv, SettleCommit(w),
           a = paying[w].amount, tot = total,
           dep = DepositApplied(paying[w])
    PROVE  /\ accounts'.unearned = accounts.unearned - NetOf(dep)
           /\ accounts'.cash = accounts.cash + a
           /\ dep = 0 => /\ accounts'.vat = accounts.vat + VatOf(a)
                         /\ accounts'.revenue = accounts.revenue + NetOf(a)
           /\ dep # 0 => /\ accounts'.vat = accounts.vat + (VatOf(tot) - VatOf(dep))
                         /\ accounts'.revenue = accounts.revenue + (a + dep - VatOf(tot))
           /\ accounts' \in [cash : Int, unearned : Int, vat : Int, revenue : Int]
<1> DEFINE e == SettlementEntry(a, dep, tot)
<1>1. Post(e)
    BY DEF SettleCommit, EntryOf
<1>2. accounts' = [cash |-> accounts.cash + e.cash,
                   unearned |-> accounts.unearned + e.unearned - e.release,
                   vat |-> accounts.vat + e.vat,
                   revenue |-> accounts.revenue + e.revenue]
    BY <1>1 DEF Post
<1>3. accounts \in [cash : Int, unearned : Int, vat : Int, revenue : Int]
    BY DEF LedgerInv, LedgerTypeOK
<1>4. /\ NetOf(a) \in Nat /\ VatOf(a) \in Nat /\ NetOf(dep) \in Nat /\ VatOf(dep) \in Nat
      /\ VatOf(tot) \in Nat
    BY VatBounds
<1>5. NetOf(0) = 0
    BY DEF NetOf
<1>6. CASE dep = 0
  <2>1. e = [cash |-> a, release |-> 0, unearned |-> 0,
             revenue |-> NetOf(a), vat |-> VatOf(a)]
      BY <1>6, PlainEntry
  <2> HIDE DEF e
  <2> QED BY <1>2, <1>3, <1>4, <1>5, <1>6, <2>1
<1>7. CASE dep # 0
  <2>1. e = [cash |-> a, release |-> NetOf(dep), unearned |-> 0,
             revenue |-> a + dep - VatOf(tot), vat |-> VatOf(tot) - VatOf(dep)]
      BY <1>7, ClosingEntry
  <2> HIDE DEF e
  <2> QED BY <1>2, <1>3, <1>4, <1>7, <2>1
<1> QED BY <1>6, <1>7

LEMMA SettleInv ==
    ASSUME NEW w \in Cashiers, LedgerInv, SettleCommit(w)
    PROVE  LedgerInv'
<1> DEFINE r == paying[w]
<1>1. /\ r # NoPayment /\ RecordPayment(w, "settled") /\ total' = total
      /\ orderStatus' \in {orderStatus, "delivered"}
      /\ closings' = IF Closes(r) THEN closings + 1 ELSE closings
    BY DEF SettleCommit
<1>2. PICK a \in Nat \ {0}, p \in Nat, dep \in Nat, tot \in Nat :
            /\ a = r.amount /\ p = r.paid /\ dep = DepositApplied(r) /\ tot = total
            /\ p + a <= tot
            /\ Closes(r) => p + a = tot /\ dep = payments.deposits
            /\ ~Closes(r) => p + a # tot /\ dep = 0
            /\ payments.deposits = 0 => dep = 0
    BY <1>1, PaymentFacts DEF DepositApplied, Closes
<1>3. /\ Untouched' /\ RequestsFit' /\ DepositCovered' /\ PaidIsSumOfPayments'
      /\ total' \in Totals /\ orderStatus' \in {"making", "ready", "delivered"}
      /\ paidAmount' \in Nat
      /\ payments' \in [deposits : Nat, settled : Nat, added : Nat, count : Nat]
      /\ paying' \in [Cashiers -> PaymentRequest \cup {NoPayment}] /\ stale' \in BOOLEAN
      /\ payments'.deposits = payments.deposits
      /\ payments'.count = payments.count + 1
      /\ payments'.settled = payments.settled + a
      /\ stale' = (stale \/ p # paidAmount)
      /\ paidAmount' = p + a
    BY <1>1, <1>2, RecordInv
<1>4. /\ LedgerTypeOK /\ DepositReleasedOnce /\ ClosedIsPaid /\ VatError /\ PaidIsSumOfPayments
      /\ closings \in Nat /\ payments.count \in Nat /\ payments.settled \in Nat
      /\ payments.deposits \in Nat /\ payments.added \in Nat
      /\ accounts \in [cash : Int, unearned : Int, vat : Int, revenue : Int]
      /\ OnlyDeposit
    BY DEF LedgerInv, LedgerTypeOK
<1>5. /\ accounts'.unearned = accounts.unearned - NetOf(dep)
      /\ accounts'.cash = accounts.cash + a
      /\ dep = 0 => /\ accounts'.vat = accounts.vat + VatOf(a)
                    /\ accounts'.revenue = accounts.revenue + NetOf(a)
      /\ dep # 0 => /\ accounts'.vat = accounts.vat + (VatOf(tot) - VatOf(dep))
                    /\ accounts'.revenue = accounts.revenue + (a + dep - VatOf(tot))
      /\ accounts' \in [cash : Int, unearned : Int, vat : Int, revenue : Int]
    BY <1>2, SettleAccounts
<1>6. orderStatus # "absent"
    BY <1>1, PaymentFacts
<1>7. PICK closes \in BOOLEAN : closes = Closes(r)
    BY DEF Closes
<1>8. /\ closings' = IF closes THEN closings + 1 ELSE closings
      /\ closes => p + a = tot /\ dep = payments.deposits
      /\ ~closes => p + a # tot /\ dep = 0
    BY <1>1, <1>2, <1>7
<1> HIDE DEF r
<1>9. LedgerTypeOK'
  <2>1. instalments' \in Nat
      BY <1>2, <1>4 DEF SettleCommit, LedgerTypeOK, r
  <2> QED BY <1>3, <1>4, <1>5, <1>8, <2>1 DEF LedgerTypeOK
<1>10. ~stale' => closings = 0 /\ ~stale /\ p = paidAmount
  <2> SUFFICES ASSUME ~stale' PROVE closings = 0 /\ ~stale /\ p = paidAmount
      OBVIOUS
  <2>1. ~stale /\ p = paidAmount
      BY <1>3
  <2>2. CASE closings >= 1
      BY <1>2, <1>4, <2>1, <2>2 DEF ClosedIsPaid
  <2>3. CASE ~(closings >= 1)
      BY <1>4, <2>1, <2>3
  <2> QED BY <2>2, <2>3
<1>11. ClosedIsPaid'
    BY <1>1, <1>2, <1>3, <1>4, <1>8, <1>10 DEF ClosedIsPaid
<1>12. NetOf(0) = 0 /\ NetOf(payments.deposits) \in Nat /\ VatOf(payments.deposits) \in Nat
  <2>1. NetOf(0) = 0
      BY DEF NetOf
  <2> QED BY <1>4, <2>1, VatBounds
<1>13. DepositReleasedOnce'
  <2> SUFFICES ASSUME ~stale'
               PROVE  /\ closings' <= 1
                      /\ accounts'.unearned =
                            IF closings' = 0 THEN NetOf(payments'.deposits) ELSE 0
      BY DEF DepositReleasedOnce
  <2>1. closings = 0 /\ accounts.unearned = NetOf(payments.deposits)
      BY <1>4, <1>10 DEF DepositReleasedOnce
  <2> QED BY <1>3, <1>5, <1>8, <1>12, <2>1
<1>14. OneSettlementReconciles'
  <2> SUFFICES ASSUME ~stale', closings' = 1, payments'.count = 1
               PROVE  accounts' = [cash |-> tot, unearned |-> 0,
                                   vat |-> VatOf(tot), revenue |-> NetOf(tot)]
      BY <1>1, <1>2 DEF OneSettlementReconciles, PaidByOneSettlement
  <2>1. closings = 0 /\ payments.count = 0 /\ ~stale /\ p = paidAmount /\ closes
      BY <1>3, <1>4, <1>8, <1>10
  <2>2. /\ payments.settled = 0 /\ payments.added = 0
        /\ accounts = [cash |-> payments.deposits, unearned |-> NetOf(payments.deposits),
                       vat |-> VatOf(payments.deposits), revenue |-> 0]
      BY <1>4, <1>6, <2>1 DEF OnlyDeposit
  <2>3. paidAmount = payments.deposits
      BY <1>4, <2>1, <2>2 DEF PaidIsSumOfPayments
  <2>4. dep = payments.deposits /\ tot = dep + a
      BY <1>2, <1>8, <2>1, <2>3
  <2>5. /\ VatOf(tot) \in Nat /\ NetOf(tot) \in Nat /\ NetOf(tot) + VatOf(tot) = tot
        /\ VatOf(a) \in Nat /\ NetOf(a) \in Nat /\ VatOf(0) = 0
      BY VatBounds DEF VatOf, NetOf
  <2>6. /\ accounts'.cash = tot /\ accounts'.unearned = 0
        /\ accounts'.vat = VatOf(tot) /\ accounts'.revenue = NetOf(tot)
    <3>1. CASE dep = 0
        BY <1>5, <1>12, <2>2, <2>4, <2>5, <3>1
    <3>2. CASE dep # 0
        BY <1>5, <1>12, <2>2, <2>4, <2>5, <3>2
    <3> QED BY <3>1, <3>2
  <2> QED BY <1>5, <2>6
<1>15. OnlyDeposit'
    BY <1>3, <1>4 DEF OnlyDeposit
<1>16. VatError'
  <2>1. PICK rest \in Int, own \in Nat, v \in Int, c \in Nat, i \in Nat, n \in Nat :
            /\ rest = RestOfVat /\ own = VatOf(payments.deposits)
            /\ v = accounts.vat /\ c = closings /\ i = instalments
            /\ n = payments.count
      BY <1>4, RestIsInt DEF LedgerTypeOK
  <2>2. RestOfVat' = rest /\ VatOf(payments'.deposits) = own
      BY <1>1, <1>3, <2>1 DEF RestOfVat
  <2>3. PICK k \in Int : k = c * rest
      BY <2>1
  <2>4. /\ 6 * i - 23 * n <= 46 * (v - own - k)
        /\ 46 * (v - own - k) <= 6 * i + 23 * n
      BY <1>4, <2>1, <2>3 DEF VatError, VatOfInstalments
  <2>5. instalments' = IF dep = 0 THEN i + a ELSE i
      BY <1>2, <2>1 DEF SettleCommit, r
  <2>6. PICK k2 \in Int, v2 \in Int :
            /\ k2 = closings' * RestOfVat' /\ v2 = accounts'.vat
            /\ dep = 0 => k2 = k
            /\ dep # 0 => k2 = k + rest
    <3>1. CASE dep # 0
      <4>1. closings' = c + 1
          BY <1>8, <2>1, <3>1
      <4>2. (c + 1) * rest = c * rest + rest
          BY <2>1
      <4> QED BY <1>5, <2>1, <2>2, <2>3, <3>1, <4>1, <4>2
    <3>2. CASE dep = 0
      <4>1. CASE closings' = c
          BY <1>5, <2>1, <2>2, <2>3, <3>2, <4>1
      <4>2. CASE closings' = c + 1
        <5>1. payments.deposits = 0
            BY <1>8, <2>1, <3>2, <4>2
        <5>2. rest = 0
            BY <2>1, <5>1 DEF RestOfVat
        <5> QED BY <1>5, <2>1, <2>2, <2>3, <3>2, <4>2, <5>2
      <4> QED BY <1>8, <2>1, <4>1, <4>2
    <3> QED BY <3>1, <3>2
  <2>7. CASE dep = 0
    <3>1. v2 = v + VatOf(a) /\ k2 = k /\ instalments' = i + a
        BY <1>5, <2>1, <2>5, <2>6, <2>7
    <3>2. VatOf(a) \in Nat /\ 6 * a - 23 <= 46 * VatOf(a) /\ 46 * VatOf(a) <= 6 * a + 23
        BY VatBounds
    <3>3. PICK x \in Nat : x = VatOf(a)
        BY <3>2
    <3>4. /\ 6 * (i + a) - 23 * (n + 1) <= 46 * (v2 - own - k2)
          /\ 46 * (v2 - own - k2) <= 6 * (i + a) + 23 * (n + 1)
        BY <1>2, <2>1, <2>3, <2>4, <3>1, <3>2, <3>3
    <3> QED BY <1>3, <2>1, <2>2, <2>6, <3>1, <3>4 DEF VatError, VatOfInstalments
  <2>8. CASE dep # 0
    <3>1. dep = payments.deposits
        BY <1>8, <2>8
    <3>2. VatOf(tot) - VatOf(dep) = rest
        BY <1>2, <2>1, <2>8, <3>1 DEF RestOfVat
    <3>3. v2 = v + rest /\ k2 = k + rest /\ instalments' = i
        BY <1>5, <2>1, <2>5, <2>6, <2>8, <3>2
    <3>4. /\ 6 * i - 23 * (n + 1) <= 46 * (v2 - own - k2)
          /\ 46 * (v2 - own - k2) <= 6 * i + 23 * (n + 1)
        BY <2>1, <2>3, <2>4, <3>3
    <3> QED BY <1>3, <2>1, <2>2, <2>6, <3>3, <3>4 DEF VatError, VatOfInstalments
  <2> QED BY <1>2, <2>7, <2>8
<1> QED BY <1>3, <1>9, <1>11, <1>13, <1>14, <1>15, <1>16 DEF LedgerInv

LEMMA NextInv == LedgerInv /\ [LedgerNext]_ledgerVars => LedgerInv'
<1> SUFFICES ASSUME LedgerInv, [LedgerNext]_ledgerVars PROVE LedgerInv'
    OBVIOUS
<1>1. LedgerTypeOK
    BY DEF LedgerInv
<1>2. ASSUME NEW d \in Amounts \cup {0}, CheckoutDeposit(d)
      PROVE  LedgerInv'
    BY <1>2, CheckoutInv
<1>3. CASE Finish \/ HandOver
    BY <1>1, <1>3, QuietInv DEF Finish, HandOver, LedgerTypeOK
<1>4. ASSUME NEW w \in Cashiers, NEW op \in {"settle", "add"}, NEW a \in Amounts,
             PaymentRead(w, op, a)
      PROVE  LedgerInv'
  <2> DEFINE n == [op |-> op, amount |-> a, paid |-> paidAmount,
                   deposits |-> payments.deposits, ready |-> orderStatus = "ready"]
  <2>1. n \in PaymentRequest
      BY <1>1 DEF LedgerTypeOK, PaymentRequest
  <2>2. /\ paying' = [paying EXCEPT ![w] = n] /\ orderStatus # "absent"
        /\ n.paid + n.amount <= total
        /\ UNCHANGED <<total, orderStatus, paidAmount, payments, accounts, closings,
                       instalments, stale>>
      BY <1>4 DEF PaymentRead, WithinBalance
  <2>3. n.deposits = payments.deposits /\ n.paid = paidAmount
      OBVIOUS
  <2> HIDE DEF n
  <2>4. paying' \in [Cashiers -> PaymentRequest \cup {NoPayment}]
      BY <1>1, <2>1, <2>2 DEF LedgerTypeOK
  <2>5. ASSUME NEW x \in Cashiers, paying'[x] # NoPayment
        PROVE  paying'[x] = paying[x] \/ paying'[x] = n
      BY <1>1, <2>2 DEF LedgerTypeOK
  <2>6. orderStatus' \in {"making", "ready", "delivered"}
      BY <1>1, <2>2 DEF LedgerTypeOK
  <2> QED BY <2>2, <2>3, <2>4, <2>5, <2>6, QuietInv
<1>5. ASSUME NEW w \in Cashiers, SettleCommit(w)
      PROVE  LedgerInv'
    BY <1>5, SettleInv
<1>6. ASSUME NEW w \in Cashiers, SettleAborts(w)
      PROVE  LedgerInv'
  <2>1. /\ paying' = [paying EXCEPT ![w] = NoPayment]
        /\ UNCHANGED <<total, orderStatus, paidAmount, payments, accounts, closings,
                       instalments, stale>>
      BY <1>6 DEF SettleAborts
  <2>2. orderStatus # "absent"
      BY <1>6, PaymentFacts DEF SettleAborts
  <2>3. /\ paying' \in [Cashiers -> PaymentRequest \cup {NoPayment}]
        /\ orderStatus' \in {"making", "ready", "delivered"}
        /\ \A x \in Cashiers : paying'[x] # NoPayment => paying'[x] = paying[x]
      BY <1>1, <2>1, <2>2 DEF LedgerTypeOK
  <2> QED BY <2>1, <2>2, <2>3, QuietInv
<1>7. ASSUME NEW w \in Cashiers, AddPaymentCommit(w)
      PROVE  LedgerInv'
    BY <1>7, AddInv
<1>8. CASE UNCHANGED ledgerVars
  <2>1. LedgerTypeOK' /\ Untouched' /\ RequestsFit' /\ DepositCovered' /\ ClosedIsPaid'
      BY <1>8 DEF LedgerInv, ledgerVars, LedgerTypeOK, Untouched, RequestsFit, DepositCovered,
                  ClosedIsPaid
  <2>2. PaidIsSumOfPayments' /\ DepositReleasedOnce' /\ OnlyDeposit'
      BY <1>8 DEF LedgerInv, ledgerVars, PaidIsSumOfPayments, DepositReleasedOnce, OnlyDeposit
  <2>3. OneSettlementReconciles' /\ VatError'
      BY <1>8 DEF LedgerInv, ledgerVars, OneSettlementReconciles, PaidByOneSettlement,
                  VatError, VatOfInstalments, RestOfVat
  <2> QED BY <2>1, <2>2, <2>3 DEF LedgerInv
<1> QED BY <1>2, <1>3, <1>4, <1>5, <1>6, <1>7, <1>8 DEF LedgerNext

-----------------------------------------------------------------------------
(* What the invariant means.                                               *)

LEMMA RefusedInv == LedgerInv => RefusedOnlyForVat
<1> SUFFICES ASSUME LedgerInv, NEW w \in Cashiers, paying[w] # NoPayment,
                    paying[w].op = "settle"
             PROVE  Postable(EntryOf(paying[w]))
                       <=> \/ DepositApplied(paying[w]) = 0
                           \/ paying[w].amount + paying[w].deposits >= VatOf(total)
    BY PaymentFacts DEF RefusedOnlyForVat, LedgerInv, LedgerTypeOK, PaymentRequest
<1>1. PICK a \in Nat \ {0}, dep \in Nat, tot \in Nat :
            /\ a = paying[w].amount /\ dep = DepositApplied(paying[w]) /\ tot = total
            /\ dep # 0 => dep = paying[w].deposits
            /\ dep <= tot
    BY PaymentFacts DEF DepositApplied
<1>2. EntryOf(paying[w]) = SettlementEntry(a, dep, tot)
    BY <1>1 DEF EntryOf
<1>3. CASE dep = 0
  <2>1. SettlementEntry(a, dep, tot) =
            [cash |-> a, release |-> 0, unearned |-> 0,
             revenue |-> NetOf(a), vat |-> VatOf(a)]
      BY <1>1, <1>3, PlainEntry
  <2>2. NetOf(a) \in Nat /\ VatOf(a) \in Nat /\ NetOf(a) + VatOf(a) = a
      BY VatBounds
  <2>3. Postable(SettlementEntry(a, dep, tot))
      BY <1>1, <2>1, <2>2 DEF Postable
  <2> QED BY <1>1, <1>2, <1>3, <2>3
<1>4. CASE dep # 0
  <2>1. SettlementEntry(a, dep, tot) =
            [cash |-> a, release |-> NetOf(dep), unearned |-> 0,
             revenue |-> a + dep - VatOf(tot), vat |-> VatOf(tot) - VatOf(dep)]
      BY <1>1, <1>4, ClosingEntry
  <2>2. /\ NetOf(dep) \in Nat /\ VatOf(dep) \in Nat /\ NetOf(dep) + VatOf(dep) = dep
        /\ VatOf(tot) \in Nat /\ VatOf(dep) <= VatOf(tot)
      BY <1>1, VatBounds, VatMonotone
  <2>3. Postable(SettlementEntry(a, dep, tot)) <=> a + dep >= VatOf(tot)
    <3>1. PICK n \in Nat, v \in Nat, vt \in Nat :
                /\ n = NetOf(dep) /\ v = VatOf(dep) /\ vt = VatOf(tot)
                /\ n + v = dep /\ v <= vt
        BY <2>2
    <3>2. a + n = 0 + (a + dep - vt) + (vt - v) /\ a + n > 0
        BY <1>1, <3>1
    <3>3. (a + dep - vt >= 0) <=> (a + dep >= vt)
        BY <1>1, <3>1
    <3>4. SettlementEntry(a, dep, tot) =
              [cash |-> a, release |-> n, unearned |-> 0,
               revenue |-> a + dep - vt, vat |-> vt - v]
        BY <2>1, <3>1
    <3>5. Postable(SettlementEntry(a, dep, tot)) <=> a + dep - vt >= 0
        BY <1>1, <3>1, <3>2, <3>4 DEF Postable
    <3> QED BY <3>1, <3>3, <3>5
  <2> QED BY <1>1, <1>2, <1>4, <2>3
<1> QED BY <1>3, <1>4

LEMMA BookedInv == LedgerInv => VatBookedWithin
<1> SUFFICES ASSUME LedgerInv PROVE VatBookedWithin
    OBVIOUS
<1>1. PICK n \in Nat, s \in Nat, v \in Int :
            n = payments.count /\ s = instalments /\ v = VatOfInstalments
  <2>1. LedgerTypeOK
      BY DEF LedgerInv
  <2> QED BY <2>1, RestIsInt DEF LedgerTypeOK
<1>2. 6 * s - 23 * n <= 46 * v /\ 46 * v <= 6 * s + 23 * n
    BY <1>1 DEF LedgerInv, VatError
<1>3. VatOf(s) \in Nat /\ 6 * s - 23 <= 46 * VatOf(s) /\ 46 * VatOf(s) <= 6 * s + 23
    BY VatBounds
<1>4. n = 0 => -n <= v - VatOf(s) /\ v - VatOf(s) <= n
  <2> HAVE n = 0
  <2>1. VatOf(0) = 0
      BY DEF VatOf, NetOf
  <2>2. s = 0
      BY <1>1 DEF LedgerInv, Untouched, OnlyDeposit
  <2>3. v = 0
      BY <1>2, <2>2
  <2> QED BY <2>1, <2>2, <2>3
<1>5. n > 0 => -n <= v - VatOf(s) /\ v - VatOf(s) <= n
    BY <1>1, <1>2, <1>3
<1>6. /\ accounts.vat \in Int /\ VatOf(payments.deposits) \in Nat
      /\ closings * RestOfVat \in Int
  <2>1. LedgerTypeOK
      BY DEF LedgerInv
  <2> QED BY <2>1, RestIsInt DEF LedgerTypeOK
<1>7. -n <= v - VatOf(s) /\ v - VatOf(s) <= n
    BY <1>1, <1>4, <1>5
<1> QED BY <1>1, <1>3, <1>6, <1>7 DEF VatBookedWithin, VatOfInstalments

\* The inductive invariant holds in every behaviour.
THEOREM LedgerInvariant == LedgerSpec => []LedgerInv
<1> QED BY InitInv, NextInv, PTL DEF LedgerSpec

\* Every amount, row and request in flight keeps its type.
THEOREM LedgerTypes == LedgerSpec => []LedgerTypeOK
<1>1. LedgerInv => LedgerTypeOK
    BY DEF LedgerInv
<1> QED BY <1>1, LedgerInvariant, PTL

\* Without a race paid_amount is the sum of the receipts, and no order is overpaid
\* at the counter.
THEOREM ReceiptsAddUp == LedgerSpec => []PaidIsSumOfPayments
<1>1. LedgerInv => PaidIsSumOfPayments
    BY DEF LedgerInv
<1> QED BY <1>1, LedgerInvariant, PTL

\* Without a race the deposit leaves the liability with the closing payment, once.
THEOREM DepositLeavesLiabilityOnce == LedgerSpec => []DepositReleasedOnce
<1>1. LedgerInv => DepositReleasedOnce
    BY DEF LedgerInv
<1> QED BY <1>1, LedgerInvariant, PTL

\* Both hold together.
THEOREM MoneyIsExact == LedgerSpec => []MoneyAddsUp
<1>1. LedgerInv => MoneyAddsUp
    BY DEF LedgerInv, MoneyAddsUp
<1> QED BY <1>1, LedgerInvariant, PTL

\* Deposit and one settlement post exactly the VAT and the net of the invoice,
\* whatever the amounts: the rounding rule of D-037 for the case it was made for.
THEOREM TwoPartPaymentReconciles == LedgerSpec => []OneSettlementReconciles
<1>1. LedgerInv => OneSettlementReconciles
    BY DEF LedgerInv
<1> QED BY <1>1, LedgerInvariant, PTL

\* The one reason for which the journal refuses a settlement.
THEOREM JournalRefusals == LedgerSpec => []RefusedOnlyForVat
<1> QED BY RefusedInv, LedgerInvariant, PTL

\* Where every halala of VAT comes from: the deposit, the rest of the order with
\* its closing, and each instalment beside them.
THEOREM VatHasItsSources == LedgerSpec => []VatBookedWithin
<1> QED BY BookedInv, LedgerInvariant, PTL

\* What D-037 promises of the VAT, and what is booked wherever it does not hold.
THEOREM VatIsAccountedFor == LedgerSpec => []VatAccountedFor
<1>1. LedgerInv => VatAccountedFor
    BY BookedInv DEF LedgerInv, VatAccountedFor
<1> QED BY <1>1, LedgerInvariant, PTL
================================================================================
