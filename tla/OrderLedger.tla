------------------------------ MODULE OrderLedger ------------------------------
(***************************************************************************)
(* The money of one order: PosService.checkout's deposit, PosService.settle*)
(* and OrdersService.addPayment, and the journal entries LedgerService     *)
(* posts for the first two.  Amounts are halalas.                          *)
(*                                                                         *)
(* settle and addPayment read the order and its payments outside the       *)
(* transaction that writes them, and write paid_amount as the sum they     *)
(* computed; a request in flight is a record of what it has read.          *)
(* The payment rows are kept as sums per kind, the journal as the balances *)
(* of its accounts: cash stands for the three accounts money comes in on.  *)
(***************************************************************************)
EXTENDS VatSplit, FiniteSets

CONSTANTS
    Totals,        \* order totals
    Amounts,       \* sums a clerk may enter
    Cashiers,      \* requests the API serves at the same time
    MaxPayments,   \* bound: payments after the deposit
    NoPayment      \* no request

ASSUME LedgerAssumption ==
    /\ Totals \subseteq Nat \ {0}
    /\ Amounts \subseteq Nat \ {0}
    /\ MaxPayments \in Nat

VARIABLES
    total,       \* order.totalAmount
    orderStatus, \* "absent", "making", "ready" or "delivered"
    paidAmount,  \* order.paidAmount
    payments,    \* payment rows: their sum per kind and origin, and their number
    accounts,    \* balances the order's journal entries leave
    paying,      \* per cashier: the settle or addPayment in flight
    closings,    \* history: settlements posted that closed the order
    instalments, \* history: sum of the settlements that released no deposit
    stale        \* history: paidAmount was written from an outdated read

ledgerVars == <<total, orderStatus, paidAmount, payments, accounts, paying,
               closings, instalments, stale>>

PaymentRequest ==
    [op : {"settle", "add"}, amount : Amounts, paid : Nat, deposits : Nat,
     ready : BOOLEAN]

ASSUME NoPaymentAssumption == NoPayment \notin PaymentRequest

LedgerTypeOK ==
    /\ total \in Totals
    /\ orderStatus \in {"absent", "making", "ready", "delivered"}
    /\ paidAmount \in Nat
    /\ payments \in [deposits : Nat, settled : Nat, added : Nat, count : Nat]
    /\ accounts \in [cash : Int, unearned : Int, vat : Int, revenue : Int]
    /\ paying \in [Cashiers -> PaymentRequest \cup {NoPayment}]
    /\ closings \in Nat
    /\ instalments \in Nat
    /\ stale \in BOOLEAN

LedgerInit ==
    /\ total \in Totals
    /\ orderStatus = "absent"
    /\ paidAmount = 0
    /\ payments = [deposits |-> 0, settled |-> 0, added |-> 0, count |-> 0]
    /\ accounts = [cash |-> 0, unearned |-> 0, vat |-> 0, revenue |-> 0]
    /\ paying = [w \in Cashiers |-> NoPayment]
    /\ closings = 0
    /\ instalments = 0
    /\ stale = FALSE

-----------------------------------------------------------------------------
(* Journal entries.  A line that is zero is not written.                   *)

\* postDeposit: Dr cash gross, Cr unearned net, Cr VAT.
DepositEntry(amount) ==
    [cash |-> amount, release |-> 0, unearned |-> NetOf(amount),
     revenue |-> 0, vat |-> VatOf(amount)]

\* Fault: the VAT of the balance is split on its own (what D-037 did away with).
EntryVatPerPayment(amount, applied, orderTotal) == VatOf(amount)

\* Fault: every settlement owes the rest of the order's VAT.
EntryVatAlwaysRest(amount, applied, orderTotal) ==
    VatOf(orderTotal) - VatOf(applied)

\* A settlement that releases a deposit owes the rest of the order's VAT, any
\* other one the VAT of its own amount.
EntryVat(amount, applied, orderTotal) ==
    IF applied # 0 THEN VatOf(orderTotal) - VatOf(applied) ELSE VatOf(amount)

EntryRevenue(amount, applied, orderTotal) ==
    IF applied # 0 THEN NetOf(orderTotal) ELSE NetOf(amount)

\* postSettlement: Dr cash, Dr unearned (the deposit), Cr revenue, Cr VAT; what
\* debits and credits differ by is absorbed in revenue.
SettlementEntry(amount, applied, orderTotal) ==
    LET vat == EntryVat(amount, applied, orderTotal)
        revenue == EntryRevenue(amount, applied, orderTotal)
        drift == (amount + NetOf(applied)) - (revenue + vat)
    IN [cash |-> amount, release |-> NetOf(applied), unearned |-> 0,
        revenue |-> revenue + drift, vat |-> vat]

\* LedgerService.post and the CHECKs of the journal: debits equal credits, the
\* entry is not empty and no line is negative.
Postable(e) ==
    /\ e.cash + e.release = e.unearned + e.revenue + e.vat
    /\ e.cash + e.release > 0
    /\ e.cash >= 0 /\ e.release >= 0 /\ e.unearned >= 0
    /\ e.revenue >= 0 /\ e.vat >= 0

Post(e) ==
    /\ Postable(e)
    /\ accounts' = [cash |-> accounts.cash + e.cash,
                    unearned |-> accounts.unearned + e.unearned - e.release,
                    vat |-> accounts.vat + e.vat,
                    revenue |-> accounts.revenue + e.revenue]

-----------------------------------------------------------------------------

\* PosService.checkout.  The deposit is not compared with the total.
CheckoutDeposit(deposit) ==
    /\ orderStatus = "absent"
    /\ orderStatus' = "making"
    /\ paidAmount' = deposit
    /\ payments' = [payments EXCEPT !.deposits = deposit]
    /\ IF deposit > 0 THEN Post(DepositEntry(deposit)) ELSE UNCHANGED accounts
    /\ UNCHANGED <<total, paying, closings, instalments, stale>>

\* The workshop finishes, and a manager may hand over without a payment: the
\* status only decides whether a closing settlement also delivers.
Finish ==
    /\ orderStatus = "making"
    /\ orderStatus' = "ready"
    /\ UNCHANGED <<total, paidAmount, payments, accounts, paying, closings,
                   instalments, stale>>

HandOver ==
    /\ orderStatus = "ready"
    /\ orderStatus' = "delivered"
    /\ UNCHANGED <<total, paidAmount, payments, accounts, paying, closings,
                   instalments, stale>>

\* Fault: the amount is not compared with what is still due.
WithinNothing(amount) == TRUE

\* Both handlers refuse a payment beyond the balance they read.
WithinBalance(amount) == paidAmount + amount <= total

PaymentRead(w, op, amount) ==
    /\ paying[w] = NoPayment
    /\ orderStatus # "absent"
    /\ payments.count < MaxPayments
    /\ WithinBalance(amount)
    /\ paying' = [paying EXCEPT ![w] =
            [op |-> op, amount |-> amount, paid |-> paidAmount,
             deposits |-> payments.deposits, ready |-> orderStatus = "ready"]]
    /\ UNCHANGED <<total, orderStatus, paidAmount, payments, accounts, closings,
                   instalments, stale>>

Closes(r) == r.paid + r.amount = total

\* The deposit is released by the payment that closes the order.
DepositApplied(r) == IF Closes(r) THEN r.deposits ELSE 0

EntryOf(r) == SettlementEntry(r.amount, DepositApplied(r), total)

\* Fault: the receipt is recorded and the order's paid_amount is not.
PaidForgotten(r) == paidAmount

\* paid_amount as the handler computed it when it read the order.
PaidAfter(r) == r.paid + r.amount

\* What both transactions write: the payment row and the absolute paid_amount.
RecordPayment(w, kind) ==
    LET r == paying[w]
    IN /\ paidAmount' = PaidAfter(r)
       /\ payments' = [payments EXCEPT ![kind] = @ + r.amount, !.count = @ + 1]
       /\ stale' = (stale \/ r.paid # paidAmount)
       /\ paying' = [paying EXCEPT ![w] = NoPayment]

SettleCommit(w) ==
    /\ paying[w] # NoPayment
    /\ paying[w].op = "settle"
    /\ RecordPayment(w, "settled")
    /\ Post(EntryOf(paying[w]))
    /\ orderStatus' = IF Closes(paying[w]) /\ paying[w].ready THEN "delivered" ELSE orderStatus
    /\ closings' = IF Closes(paying[w]) THEN closings + 1 ELSE closings
    /\ instalments' = IF DepositApplied(paying[w]) = 0
                      THEN instalments + paying[w].amount ELSE instalments
    /\ UNCHANGED total

\* The journal refuses the entry, or its number was taken by another order's
\* entry meanwhile: everything rolls back.
SettleAborts(w) ==
    /\ paying[w] # NoPayment
    /\ paying[w].op = "settle"
    /\ paying' = [paying EXCEPT ![w] = NoPayment]
    /\ UNCHANGED <<total, orderStatus, paidAmount, payments, accounts, closings,
                   instalments, stale>>

\* addPayment posts nothing to the journal.
AddPaymentCommit(w) ==
    /\ paying[w] # NoPayment
    /\ paying[w].op = "add"
    /\ RecordPayment(w, "added")
    /\ UNCHANGED <<total, orderStatus, accounts, closings, instalments>>

LedgerNext ==
    \/ \E d \in Amounts \cup {0} : CheckoutDeposit(d)
    \/ Finish
    \/ HandOver
    \/ \E w \in Cashiers, op \in {"settle", "add"}, a \in Amounts : PaymentRead(w, op, a)
    \/ \E w \in Cashiers : SettleCommit(w)
    \/ \E w \in Cashiers : SettleAborts(w)
    \/ \E w \in Cashiers : AddPaymentCommit(w)

LedgerSpec == LedgerInit /\ [][LedgerNext]_ledgerVars

-----------------------------------------------------------------------------
(* Properties.                                                             *)

\* As long as no two payments raced, paid_amount is the sum of the payment rows
\* and stays within the total, unless the deposit alone exceeded it.
PaidIsSumOfPayments ==
    ~stale => /\ paidAmount = payments.deposits + payments.settled + payments.added
              /\ paidAmount <= total \/ paidAmount = payments.deposits

\* "Only release the deposit from liability once": without a race the liability
\* is the net deposit until the closing payment and nothing after it, and no
\* order closes twice.
DepositReleasedOnce ==
    ~stale => /\ closings <= 1
              /\ accounts.unearned = IF closings = 0 THEN NetOf(payments.deposits) ELSE 0

\* What was paid, released and owed adds up, whichever payments race.
MoneyAddsUp == PaidIsSumOfPayments /\ DepositReleasedOnce

\* One settlement and nothing else paid the order off: its VAT and its revenue
\* are the two parts of the invoice's total, to the halala.
PaidByOneSettlement ==
    /\ ~stale
    /\ closings = 1
    /\ payments.count = 1

OneSettlementReconciles ==
    PaidByOneSettlement =>
        accounts = [cash |-> total, unearned |-> 0,
                    vat |-> VatOf(total), revenue |-> NetOf(total)]

\* What a closing settlement books for a deposit order: the rest of its VAT.
RestOfVat ==
    IF payments.deposits = 0 THEN 0 ELSE VatOf(total) - VatOf(payments.deposits)

\* Where all VAT comes from, whichever payments race: the deposit's own, the rest
\* of the order's with each closing that releases a deposit, and on top of both
\* the VAT of every settlement that releases none, to a halala per payment.  The
\* VAT of an instalment of a deposit order is therefore booked twice: when it is
\* paid, and again in the rest that the closing settlement books.
VatBookedWithin ==
    LET drift == accounts.vat - (VatOf(payments.deposits) + closings * RestOfVat
                                    + VatOf(instalments))
    IN -payments.count <= drift /\ drift <= payments.count

\* D-037, "VAT stays exactly reconcilable to the invoice", as far as it goes: to
\* the halala when one settlement pays the order off; in every other case what is
\* booked is the sum above.
VatAccountedFor == OneSettlementReconciles /\ VatBookedWithin

\* The test "never double-counts VAT across deposit and settlement": the VAT
\* collected on a deposit order that settlements paid off without a race is the
\* VAT of the order, to a halala per payment.
VatNeverDoubleCounted ==
    ~stale /\ closings = 1 /\ payments.deposits # 0 /\ payments.added = 0
        => accounts.vat <= VatOf(total) + payments.count

\* The journal refuses a settlement for one reason only: it closes an order that
\* had a deposit, and what it brings in is, with the deposit, less than the VAT of
\* the whole order, because partial settlements posted the VAT of their own.  Such
\* an order can never be closed by one payment.
RefusedOnlyForVat ==
    \A w \in Cashiers :
        \/ paying[w] = NoPayment
        \/ paying[w].op = "add"
        \/ Postable(EntryOf(paying[w]))
              <=> \/ DepositApplied(paying[w]) = 0
                  \/ paying[w].amount + paying[w].deposits >= VatOf(total)

================================================================================
