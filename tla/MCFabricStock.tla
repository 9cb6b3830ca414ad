----------------------------- MODULE MCFabricStock -----------------------------
(***************************************************************************)
(* Instances of FabricStock.  A roll is <<store, batch code>>, and a       *)
(* behaviour has one of two shops:                                         *)
(*   "sales"      two rolls on one shelf, so that FIFO has a choice, two   *)
(*                items for the same cloth, no transfer;                   *)
(*   "transfers"  two stores that stock the same batch code, so that       *)
(*                transfers merge, race and deadlock; rolls of at most     *)
(*                TransferMetres, one item.                                *)
(***************************************************************************)
EXTENDS FabricStock, TLC

VARIABLE shop

MCRolls == {<<"a", "c1">>, <<"a", "c2">>, <<"b", "c1">>}
StoreOfRoll == [r \in Rolls |-> r[1]]
CodeOfRoll == [r \in Rolls |-> r[2]]
AgeOfRoll == [r \in Rolls |-> IF r[2] = "c1" THEN 1 ELSE 2]

TransferMetres == 2

\* What keeps a step within the shop of the behaviour.  Each conjunct bounds what
\* clients ask for; none stands in the way of a cut or a transfer under way.
InSales ==
    /\ status'[<<"b", "c1">>] = "absent"
    /\ transfers' = 0

InTransfers ==
    /\ status'[<<"a", "c2">>] = "absent"
    /\ \A r \in Rolls : currentQuantity'[r] <= TransferMetres
    /\ Cardinality({i \in Items : reservation'[i] # None}) <= 1
    /\ \A w \in Workers :
          moving'[w] # None => MergedBalance(moving[w])' <= TransferMetres

StockVars == <<vars, shop>>

StockInit == Init /\ shop \in {"sales", "transfers"}

StockNext ==
    /\ Next
    /\ UNCHANGED shop
    /\ shop = "sales" => InSales
    /\ shop = "transfers" => InTransfers

StockSpec == StockInit /\ [][StockNext]_StockVars /\ Fairness
================================================================================
