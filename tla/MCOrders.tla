-------------------------------- MODULE MCOrders --------------------------------
(* What happens to an order in three places that share no state here: on the    *)
(* floor (OrderLifecycle), in the journal (OrderLedger) and, as its invoice,    *)
(* at the authority (ZatcaFiling).  A behaviour runs one of them: interleaving  *)
(* them would only multiply their states.                                       *)
(*                                                                              *)
(* One order of two garments: orders do not share state, so one shows all of    *)
(* them, and two garments are what it takes for ticket movers to race.  Prices  *)
(* and payments at which a split rounds up, rounds down and is exact, among     *)
(* them the 400.00 paid as twice 200.00 of ledger.service.ts.  One invoice,     *)
(* which all submissions race for, and three key pairs: a certificate, its      *)
(* successor and one of another request.                                        *)
EXTENDS OrderLifecycle, OrderLedger, ZatcaFiling, TLC

CONSTANTS o1, i1, i2

VARIABLE part

OneOrder == {o1}
TwoItems == {i1, i2}
OrderOfItem == [i \in TwoItems |-> o1]

MCTotals == {40000, 23000}
MCAmounts == {1000, 10000, 13000, 20000, 38000, 40000}

OrdersVars == <<vars, ledgerVars, filingVars, part>>

OrdersInit ==
    /\ Init /\ LedgerInit /\ FilingInit
    /\ part \in {"floor", "journal", "filing"}
    /\ part # "journal" => total = 40000

OrdersNext ==
    \/ part = "floor" /\ Next /\ UNCHANGED <<ledgerVars, filingVars, part>>
    \/ part = "journal" /\ LedgerNext /\ UNCHANGED <<vars, filingVars, part>>
    \/ part = "filing" /\ FilingNext /\ UNCHANGED <<vars, ledgerVars, part>>

OrdersSpec == OrdersInit /\ [][OrdersNext]_OrdersVars

\* The configurations give Cashiers and Filers the values of Workers.
Alike == Permutations(TwoItems) \cup Permutations(Workers)
================================================================================
