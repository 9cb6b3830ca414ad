------------------------------- MODULE Checkout --------------------------------
(***************************************************************************)
(* StripeService.createCheckoutSession and createPortalSession: the Stripe *)
(* customer that ensureCustomer creates on first use, and the hosted pages *)
(* made for it.  One tenant; two people may press the button at once.      *)
(***************************************************************************)
EXTENDS Integers, FiniteSets

CONSTANTS
    Visits,        \* requests for a hosted page
    MaxVisitDeaths \* bound: requests that die on the way

ASSUME CheckoutAssumption == IsFiniteSet(Visits) /\ MaxVisitDeaths \in Nat

VARIABLES
    customer,   \* organizations.stripe_customer_id, 0 for null
    created,    \* customers that exist in Stripe
    visit,      \* per request: what is left to do, and the customer it knows
    pages,      \* customers with an open checkout page
    payers,     \* customers that pay for a subscription
    visitDeaths,
    replaced    \* history: customers whose number another request has overwritten

checkoutVars == <<customer, created, visit, pages, payers, visitDeaths, replaced>>

Customers == 1 .. Cardinality(Visits)

CheckoutTypeOK ==
    /\ customer \in {0} \cup Customers
    /\ created \in 0 .. Cardinality(Visits)
    /\ visit \in [Visits -> [step : {"new", "create", "store", "page", "done"},
                             customer : {0} \cup Customers]]
    /\ pages \cup payers \cup replaced \subseteq Customers
    /\ visitDeaths \in 0 .. MaxVisitDeaths

CheckoutInit ==
    /\ customer = 0
    /\ created = 0
    /\ visit = [v \in Visits |-> [step |-> "new", customer |-> 0]]
    /\ pages = {}
    /\ payers = {}
    /\ visitDeaths = 0
    /\ replaced = {}

Ensure(v) ==
    /\ visit[v].step = "new"
    /\ visit' = [visit EXCEPT ![v] =
           [step |-> IF customer # 0 THEN "page" ELSE "create", customer |-> customer]]
    /\ UNCHANGED <<customer, created, pages, payers, visitDeaths, replaced>>

CreateCustomer(v) ==
    /\ visit[v].step = "create"
    /\ created' = created + 1
    /\ visit' = [visit EXCEPT ![v] = [step |-> "store", customer |-> created + 1]]
    /\ UNCHANGED <<customer, pages, payers, visitDeaths, replaced>>

\* Fault: the number is not kept.
Fault_NotStored(c) == 0
\* organization.update.
Stored(c) == c

\* The update names the tenant only: it replaces a customer that another request
\* has stored in the meantime.
StoreCustomer(v) ==
    /\ visit[v].step = "store"
    /\ customer' = Stored(visit[v].customer)
    /\ replaced' = IF customer # 0 THEN replaced \cup {customer} ELSE replaced
    /\ visit' = [visit EXCEPT ![v].step = "page"]
    /\ UNCHANGED <<created, pages, payers, visitDeaths>>

\* A checkout page, or the billing portal's, which starts nothing.
OpenPage(v) ==
    /\ visit[v].step = "page"
    /\ \/ pages' = pages \cup {visit[v].customer}
       \/ pages' = pages
    /\ visit' = [visit EXCEPT ![v].step = "done"]
    /\ UNCHANGED <<customer, created, payers, visitDeaths, replaced>>

Subscribe(c) ==
    /\ pages' = pages \ {c}
    /\ payers' = payers \cup {c}
    /\ UNCHANGED <<customer, created, visit, visitDeaths, replaced>>

VisitDies(v) ==
    /\ visit[v].step \notin {"new", "done"}
    /\ visitDeaths < MaxVisitDeaths
    /\ visitDeaths' = visitDeaths + 1
    /\ visit' = [visit EXCEPT ![v].step = "done"]
    /\ UNCHANGED <<customer, created, pages, payers, replaced>>

CheckoutNext ==
    \/ \E v \in Visits :
          \/ Ensure(v) \/ CreateCustomer(v) \/ StoreCustomer(v) \/ OpenPage(v)
          \/ VisitDies(v)
    \/ \E c \in pages : Subscribe(c)

CheckoutSpec == CheckoutInit /\ [][CheckoutNext]_checkoutVars

\* Whoever pays is the customer the tenant's portal and invoices are looked up by
\* (createPortalSession, listInvoices), unless two first requests ran at once.
PayerIsKnown == payers \subseteq {customer} \cup replaced
===============================================================================
