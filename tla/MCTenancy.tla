------------------------------- MODULE MCTenancy -------------------------------
(* The administration of tenants: the checkout of a subscription, the accounts  *)
(* and stores of a tenant, and the webhook of one.  They share no state here,   *)
(* so a behaviour runs one of them.                                             *)
EXTENDS Checkout, Team, Billing, TLC

VARIABLE part

TwoPlans == {[seats |-> 1, stores |-> 1], [seats |-> 2, stores |-> 2]}

TenancyVars == <<checkoutVars, teamVars, billingVars, part>>

TenancyInit ==
    /\ CheckoutInit /\ TeamInit /\ BillingInit
    /\ part \in {"checkout", "team", "webhook"}
    /\ part = "team" \/ limits = CHOOSE l \in Limits : TRUE

TenancyNext ==
    \/ /\ part = "checkout" /\ CheckoutNext
       /\ UNCHANGED <<teamVars, billingVars, part>>
    \/ /\ part = "team" /\ TeamNext
       /\ UNCHANGED <<checkoutVars, billingVars, part>>
    \/ /\ part = "webhook" /\ BillingNext
       /\ UNCHANGED <<checkoutVars, teamVars, part>>

TenancySpec == TenancyInit /\ [][TenancyNext]_TenancyVars

\* Handlers of the webhook are alike, and so are plans.
Alike == Permutations(Servers) \cup Permutations(Tiers)
================================================================================
