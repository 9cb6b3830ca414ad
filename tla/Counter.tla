-------------------------------- MODULE Counter --------------------------------
(***************************************************************************)
(* The counter's screen (Counter.tsx, CustomerPicker.tsx,                  *)
(* NewCustomerModal.tsx) and the calls it makes: fullProfile,              *)
(* addMeasurement, previewYield and PosService.checkout.                   *)
(*                                                                         *)
(* One till, with the cashier free to go on while answers are under way;   *)
(* other tills measure the same customers.  Prices, styles and the deposit *)
(* stand for what was entered on a line; the method of the deposit is kept *)
(* apart, for no change of customer resets it.  OrderLifecycle.tla and     *)
(* OrderLedger.tla have what a checkout does to the rest of the system.    *)
(***************************************************************************)
EXTENDS Integers, Sequences, FiniteSets

CONSTANTS
    Customers,
    NoOne,
    Garments,    \* garment types
    Thobe,       \* the type a new line has
    Presses,     \* presses of "Checkout" under way
    MaxLines,    \* bound: lines of a cart
    MaxCarts,    \* bound: carts that something was entered in
    MaxMeasured, \* bound: versions of a customer's profile
    MaxRefreshes, \* bound: answers of refreshStock awaited at once
    MaxOrders    \* bound: orders

ASSUME CounterAssumption ==
    /\ Thobe \in Garments
    /\ NoOne \notin Customers
    /\ {MaxLines, MaxCarts, MaxMeasured, MaxRefreshes, MaxOrders} \subseteq Nat

VARIABLES
    registered, \* customers of the organization
    profile,    \* measurements: version in force, and whose figures it has
    shown,      \* lookup: whose profile is on show
    seen,       \* lookup.activeMeasurements: the types it has
    form,       \* measurements: whose figures fill the form, if it is filled
    cart,       \* garments, deposit, discount ...
    tab,        \* activeTab
    yields,     \* yieldByType: types with a yield
    refreshes,  \* answers of refreshStock under way
    opening,    \* openCustomer under way
    saving,     \* saveMeasurements under way
    presses,    \* checkouts under way
    orders,
    unanswered  \* history: carts whose order was made and never confirmed to the till

counterVars == <<registered, profile, shown, seen, form, cart, tab, yields, refreshes,
                 opening, saving, presses, orders, unanswered>>

\* "by" is history: who was on show while something was entered.  "swapped" too: an
\* answer that came late has put somebody else over the cart.  "method" is depositMethod:
\* for whom it was picked, or NoOne while it is the page's own "cash".
Line == [type : Garments, cloth : BOOLEAN]
Cart == [no : 1 .. MaxCarts + 1, lines : Seq(Line), by : SUBSET Customers, swapped : BOOLEAN,
         method : Customers \cup {NoOne}]

NotSaving == [step |-> "none"]
Save == [step : {"write", "load"}, customer : Customers, type : Garments, of : Customers,
         version : Nat]

\* What the properties tell apart of an order; "method" is for whom the method of its
\* deposit was picked, its customer if the page's own was left.
Order == [customer : Customers, no : 1 .. MaxCarts + 1, by : SUBSET Customers,
          swapped : BOOLEAN, method : Customers]

NotPressed == [step |-> "none"]
Press == [step : {"sent", "committed"}, types : SUBSET Garments, order : Order]

CounterTypeOK ==
    /\ registered \subseteq Customers
    /\ profile \in [Customers -> [Garments -> [version : Nat, of : Customers \cup {NoOne}]]]
    /\ {shown, form, opening} \subseteq Customers \cup {NoOne}
    /\ seen \cup yields \subseteq Garments
    /\ cart \in Cart
    /\ tab \in DOMAIN cart.lines
    /\ refreshes \subseteq SUBSET Garments
    /\ saving \in Save \cup {NotSaving}
    /\ presses \in [Presses -> Press \cup {NotPressed}]
    /\ orders \in Seq(Order)
    /\ unanswered \subseteq 1 .. MaxCarts + 1

\* newGarment.
NewLine == [type |-> Thobe, cloth |-> FALSE]

\* The cart is emptied, but for the method of the deposit; the number (history) is used
\* again when nothing was entered.
EmptyCart ==
    [no |-> IF cart.by = {} THEN cart.no ELSE cart.no + 1, lines |-> <<NewLine>>,
     by |-> {}, swapped |-> FALSE, method |-> cart.method]

CounterInit ==
    /\ registered = {}
    /\ profile = [c \in Customers |-> [t \in Garments |-> [version |-> 0, of |-> NoOne]]]
    /\ shown = NoOne
    /\ seen = {}
    /\ form = NoOne
    /\ cart = [no |-> 1, lines |-> <<NewLine>>, by |-> {}, swapped |-> FALSE,
               method |-> NoOne]
    /\ tab = 1
    /\ yields = {}
    /\ refreshes = {}
    /\ opening = NoOne
    /\ saving = NotSaving
    /\ presses = [p \in Presses |-> NotPressed]
    /\ orders = <<>>
    /\ unanswered = {}

server == <<registered, profile, orders, unanswered>>
underWay == <<opening, saving, presses>>

-----------------------------------------------------------------------------
(* What a change of the state makes the screen do (its effects).           *)

OnFile(c) == {t \in Garments : profile[c][t].version > 0}
TypesOf(lines) == {lines[i].type : i \in DOMAIN lines}

\* Fault: the form is filled again when the type changes, not the customer.
Fault_FormKept(c, types, type) == IF form # NoOne THEN form
                                  ELSE IF type \in types THEN c ELSE NoOne
\* The form takes the figures on file for the type, or is emptied.
FormFor(c, types, type) == IF type \in types THEN c ELSE NoOne

\* setLookup: form and stock follow the customer on show.
Show(c, lines, at) ==
    /\ shown' = c
    /\ seen' = OnFile(c)
    /\ form' = FormFor(c, OnFile(c), lines[at].type)
    /\ refreshes' = refreshes \cup {TypesOf(lines) \cap OnFile(c)}
    /\ Cardinality(refreshes') <= MaxRefreshes

\* garmentTypeKey and activeTab: stock and form follow the lines.
Follow(lines, at) ==
    /\ form' = IF lines[at].type = cart.lines[tab].type THEN form
               ELSE FormFor(shown, seen, lines[at].type)
    /\ refreshes' = IF [i \in DOMAIN lines |-> lines[i].type]
                        = [i \in DOMAIN cart.lines |-> cart.lines[i].type]
                    THEN refreshes ELSE refreshes \cup {TypesOf(lines) \cap seen}
    /\ Cardinality(refreshes') <= MaxRefreshes

\* An answer of refreshStock replaces the yields of every type.
RefreshStock(types) ==
    /\ refreshes' = refreshes \ {types}
    /\ yields' = types
    /\ UNCHANGED <<server, shown, seen, form, cart, tab, underWay>>

-----------------------------------------------------------------------------
(* The customer.                                                           *)

Picking == shown = NoOne /\ opening = NoOne

\* NewCustomerModal: the customer is made, and opened.
Register(c) ==
    /\ Picking
    /\ c \notin registered
    /\ registered' = registered \cup {c}
    /\ opening' = c
    /\ UNCHANGED <<profile, orders, unanswered, shown, seen, form, cart, tab, yields,
                   refreshes, saving, presses>>

OpenCustomer(c) ==
    /\ Picking
    /\ c \in registered
    /\ opening' = c
    /\ UNCHANGED <<server, shown, seen, form, cart, tab, yields, refreshes, saving, presses>>

\* Fault: what is in the cart stays there.
Fault_CartKept == cart
\* "A half-filled garment left over from whoever was at the counter a moment ago must
\* not follow them in."
CartOnOpen == EmptyCart

Opened ==
    /\ opening # NoOne
    /\ opening' = NoOne
    /\ cart' = CartOnOpen
    /\ tab' = 1
    /\ Show(opening, cart'.lines, 1)
    /\ UNCHANGED <<server, yields, saving, presses>>

OpenFails ==
    /\ opening # NoOne
    /\ opening' = NoOne
    /\ UNCHANGED <<server, shown, seen, form, cart, tab, yields, refreshes, saving, presses>>

ChangeCustomer ==
    /\ shown # NoOne
    /\ shown' = NoOne
    /\ seen' = {}
    /\ form' = NoOne
    /\ cart' = EmptyCart
    /\ tab' = 1
    /\ UNCHANGED <<server, yields, refreshes, underWay>>

-----------------------------------------------------------------------------
(* Measurements.                                                           *)

\* Every figure the yield needs is typed.
TypeFigures ==
    /\ shown # NoOne
    /\ form' = shown
    /\ UNCHANGED <<server, shown, seen, cart, tab, yields, refreshes, underWay>>

\* addMeasurement has read the version before.
SaveMeasurements ==
    /\ shown # NoOne
    /\ form # NoOne
    /\ saving = NotSaving
    /\ LET type == cart.lines[tab].type
       IN /\ profile[shown][type].version < MaxMeasured
          /\ saving' = [step |-> "write", customer |-> shown, type |-> type, of |-> form,
                        version |-> profile[shown][type].version]
    /\ UNCHANGED <<server, shown, seen, form, cart, tab, yields, refreshes, opening, presses>>

\* The version is unique, and so is the active one: whoever comes second fails.
WriteMeasurement ==
    /\ saving.step = "write"
    /\ LET c == saving.customer
           t == saving.type
       IN IF profile[c][t].version = saving.version
          THEN /\ profile' = [profile EXCEPT ![c][t] = [version |-> @.version + 1,
                                                        of |-> saving.of]]
               /\ saving' = [saving EXCEPT !.step = "load"]
          ELSE /\ UNCHANGED profile
               /\ saving' = NotSaving
    /\ UNCHANGED <<registered, orders, unanswered, shown, seen, form, cart, tab, yields,
                   refreshes, opening, presses>>

\* loadProfile of the customer that was measured, whoever is on show by now.
LoadProfile ==
    /\ saving.step = "load"
    /\ saving' = NotSaving
    /\ Show(saving.customer, cart.lines, tab)
    /\ cart' = [cart EXCEPT !.swapped = @ \/ ~(cart.by \subseteq {saving.customer})]
    /\ UNCHANGED <<server, tab, yields, opening, presses>>

SaveFails ==
    /\ saving # NotSaving
    /\ saving' = NotSaving
    /\ UNCHANGED <<server, shown, seen, form, cart, tab, yields, refreshes, opening, presses>>

\* Another till measures the customer.
MeasureElsewhere(c, t) ==
    /\ c \in registered
    /\ profile[c][t].version < MaxMeasured
    /\ profile' = [profile EXCEPT ![c][t] = [version |-> @.version + 1, of |-> c]]
    /\ UNCHANGED <<registered, orders, unanswered, shown, seen, form, cart, tab, yields,
                   refreshes, underWay>>

-----------------------------------------------------------------------------
(* The cart.  Its panel is there once the customer has a profile.          *)

Enter(lines, at) ==
    /\ seen # {}
    /\ cart.no <= MaxCarts
    /\ cart' = [cart EXCEPT !.lines = lines, !.by = @ \cup {shown}]
    /\ tab' = at
    /\ Follow(lines, at)
    /\ UNCHANGED <<server, shown, seen, yields, underWay>>

AddGarment ==
    /\ Len(cart.lines) < MaxLines
    /\ Enter(Append(cart.lines, NewLine), Len(cart.lines) + 1)

RemoveGarment(i) ==
    /\ Len(cart.lines) > 1
    /\ Enter([j \in 1 .. Len(cart.lines) - 1 |-> cart.lines[IF j < i THEN j ELSE j + 1]], 1)

\* The roll stays with the line.
ChangeType(i, t) ==
    /\ tab = i
    /\ cart.lines[i].type # t
    /\ Enter([cart.lines EXCEPT ![i].type = t], i)

\* A roll that can supply the yield, or the customer's own fabric.
ChooseCloth(i) ==
    /\ tab = i
    /\ ~cart.lines[i].cloth
    /\ Enter([cart.lines EXCEPT ![i].cloth = TRUE], i)

SwitchTab(i) ==
    /\ seen # {}
    /\ tab # i
    /\ tab' = i
    /\ Follow(cart.lines, i)
    /\ UNCHANGED <<server, shown, seen, cart, yields, underWay>>

\* The method the deposit is paid by.
ChooseMethod ==
    /\ seen # {}
    /\ cart' = [cart EXCEPT !.method = shown]
    /\ UNCHANGED <<server, shown, seen, form, tab, yields, refreshes, underWay>>

-----------------------------------------------------------------------------
(* Checkout.                                                               *)

ReadyToCheckout ==
    /\ shown # NoOne
    /\ seen # {}
    /\ \A i \in DOMAIN cart.lines : cart.lines[i].cloth /\ cart.lines[i].type \in yields

\* Fault: the button can be pressed again.
Fault_NeverBusy == FALSE
\* loading={submitting}.
Submitting == \E p \in Presses : presses[p] # NotPressed

Checkout(p) ==
    /\ ReadyToCheckout
    /\ ~Submitting
    /\ presses[p] = NotPressed
    /\ Len(orders) + Cardinality({q \in Presses : presses[q] # NotPressed}) < MaxOrders
    /\ presses' = [presses EXCEPT ![p] =
          [step |-> "sent", types |-> TypesOf(cart.lines),
           order |-> [customer |-> shown, no |-> cart.no, by |-> cart.by,
                      swapped |-> cart.swapped,
                      method |-> IF cart.method = NoOne THEN shown ELSE cart.method]]]
    /\ UNCHANGED <<server, shown, seen, form, cart, tab, yields, refreshes, opening, saving>>

\* PosService.checkout commits: every garment has a profile in force.
Commit(p) ==
    /\ presses[p].step = "sent"
    /\ presses[p].types \subseteq OnFile(presses[p].order.customer)
    /\ orders' = Append(orders, presses[p].order)
    /\ presses' = [presses EXCEPT ![p].step = "committed"]
    /\ UNCHANGED <<registered, profile, unanswered, shown, seen, form, cart, tab, yields,
                   refreshes, opening, saving>>

\* No profile, no stock, or no answer: nothing is written, and the cart stays.
Refuse(p) ==
    /\ presses[p].step = "sent"
    /\ presses' = [presses EXCEPT ![p] = NotPressed]
    /\ UNCHANGED <<server, shown, seen, form, cart, tab, yields, refreshes, opening, saving>>

\* The receipt is opened; the counter starts anew when it is opened again, and what
\* is under way for the old screen finds none.
Answered(p) ==
    /\ presses[p].step = "committed"
    /\ presses' = [presses EXCEPT ![p] = NotPressed]
    /\ shown' = NoOne
    /\ seen' = {}
    /\ form' = NoOne
    /\ cart' = [EmptyCart EXCEPT !.method = NoOne]
    /\ tab' = 1
    /\ yields' = {}
    /\ refreshes' = {}
    /\ opening' = NoOne
    /\ saving' = NotSaving
    /\ UNCHANGED server

\* The order stands, and the till is told of an error: the tickets could not be
\* made, or the answer got lost.
AnswerLost(p) ==
    /\ presses[p].step = "committed"
    /\ presses' = [presses EXCEPT ![p] = NotPressed]
    /\ unanswered' = unanswered \cup {presses[p].order.no}
    /\ UNCHANGED <<registered, profile, orders, shown, seen, form, cart, tab, yields,
                   refreshes, opening, saving>>

CounterNext ==
    \/ \E c \in Customers :
          \/ Register(c) \/ OpenCustomer(c)
          \/ \E t \in Garments : MeasureElsewhere(c, t)
    \/ Opened \/ OpenFails \/ ChangeCustomer
    \/ TypeFigures \/ SaveMeasurements \/ WriteMeasurement \/ LoadProfile \/ SaveFails
    \/ \E types \in refreshes : RefreshStock(types)
    \/ AddGarment \/ ChooseMethod
    \/ \E i \in DOMAIN cart.lines :
          \/ RemoveGarment(i) \/ ChooseCloth(i) \/ SwitchTab(i)
          \/ \E t \in Garments : ChangeType(i, t)
    \/ \E p \in Presses : Checkout(p) \/ Commit(p) \/ Refuse(p) \/ Answered(p) \/ AnswerLost(p)

CounterSpec == CounterInit /\ [][CounterNext]_counterVars

-----------------------------------------------------------------------------
(* Properties.                                                             *)

\* The garments, the deposit and the notes of an order were entered while its customer was
\* on show, unless the profile of a customer measured before came late and took the screen
\* over.  The method of the deposit is not among them: see MethodIsTheirs.
CartIsTheirs ==
    \A o \in DOMAIN orders :
        orders[o].by \subseteq {orders[o].customer} \/ orders[o].swapped

\* "A fresh customer starts a fresh order" (Counter.tsx:138): the method an order's deposit
\* is booked by was picked for its customer, or is the page's own.
MethodIsTheirs ==
    \A o \in DOMAIN orders : orders[o].method = orders[o].customer

\* The figures on file for a customer were typed for them, or taken from their file.
FiguresAreTheirs ==
    \A c \in Customers, t \in Garments : profile[c][t].of \in {c, NoOne}

\* A cart becomes two orders only when the till was not told of the first.
OneOrderPerCart ==
    \A o, n \in DOMAIN orders :
        o < n /\ orders[o].no = orders[n].no => orders[o].no \in unanswered
===============================================================================
