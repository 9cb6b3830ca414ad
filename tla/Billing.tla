-------------------------------- MODULE Billing --------------------------------
(***************************************************************************)
(* StripeService's webhook for one tenant: it copies Stripe's subscription *)
(* into organization_subscriptions.                                        *)
(*                                                                         *)
(* Stripe numbers its changes, sends an event for each, in any order, and  *)
(* again until the webhook has answered it.  Checkout.tla has the hosted   *)
(* page that starts a subscription, FeatureGate.tla what follows a sync    *)
(* (the invalidation of the features in Redis).                            *)
(***************************************************************************)
EXTENDS Integers, Sequences, FiniteSets

CONSTANTS
    Servers,      \* requests served at the same time
    Tiers,        \* the plans
    Unknown,      \* no plan in a subscription's metadata, or none that has its price
    MaxChanges,   \* bound: changes of subscriptions in Stripe
    MaxSubs,      \* bound: subscriptions paid for
    MaxMishaps    \* bound: handlers that die, changes made in the console

ASSUME BillingAssumption ==
    /\ Unknown \notin Tiers
    /\ {MaxChanges, MaxSubs, MaxMishaps} \subseteq Nat

VARIABLES
    subscription, \* organization_subscriptions: plan and status
    serving,      \* per server: the handler it runs
    subs,         \* the tenant's subscriptions in Stripe
    events,       \* Stripe events that have not been answered
    changes, mishaps,
    latest,       \* history: the last change that a sync can write
    applied,      \* history: the latest change a sync has written
    displaced,    \* history: an older change was written after it
    overridden    \* history: the console has changed the row since

billingVars == <<subscription, serving, subs, events, changes, mishaps, latest, applied,
                 displaced, overridden>>

Ended == {"incomplete_expired", "canceled"}
StripeStatus == {"incomplete", "trialing", "active", "past_due", "unpaid", "paused"} \cup Ended
RowStatus == {"trialing", "suspended", "active", "past_due", "cancelled"}

\* "legible": it names the tenant, and its item has a billing period.
Sub == [price : Tiers \cup {Unknown}, meta : Tiers \cup {Unknown}, legible : BOOLEAN,
        status : StripeStatus, at : 1 .. MaxChanges]
NoChange == [at |-> 0]

\* customer.subscription.* carries the subscription as it was; invoice.paid and
\* invoice.payment_failed only name it.
SubscriptionEvent == [kind : {"subscription"}, sub : 1 .. MaxSubs, was : Sub]
InvoiceEvent == [kind : {"invoice"}, sub : 1 .. MaxSubs, at : 1 .. MaxChanges]
Event == SubscriptionEvent \cup InvoiceEvent

Unoccupied == [op |-> "none"]
Sync == [op : {"sync"}, step : {"retrieve", "write"}, event : Event, is : Sub \cup {Unknown}]

BillingTypeOK ==
    /\ subscription \in [plan : Tiers, status : RowStatus]
    /\ serving \in [Servers -> Sync \cup {Unoccupied}]
    /\ subs \in Seq(Sub)
    /\ events \subseteq Event
    /\ latest \in Sub \cup {NoChange}

BillingInit ==
    /\ subscription \in [plan : Tiers, status : {"active"}]
    /\ serving = [v \in Servers |-> Unoccupied]
    /\ subs = <<>>
    /\ events = {}
    /\ changes = 0
    /\ mishaps = 0
    /\ latest = NoChange
    /\ applied = 0
    /\ displaced = FALSE
    /\ overridden = FALSE

At(v, op, step) == serving[v].op = op /\ serving[v].step = step
Mishap == mishaps < MaxMishaps /\ mishaps' = mishaps + 1

synced == <<applied, displaced, overridden>>

-----------------------------------------------------------------------------
(* syncSubscription: what of a subscription it can write.                  *)

\* The plan recorded at checkout, else the one the price belongs to: a price changed
\* in the billing portal does not change the plan of a subscription that carries one.
PlanOf(s) == IF s.meta # Unknown THEN s.meta ELSE s.price

\* A subscription of no tenant, without a plan or without a period is passed over.
Writable(s) == s.legible /\ PlanOf(s) # Unknown

\* Fault: a subscription that ended is taken for a payment that is late.
Fault_MapStatus(status) ==
    CASE status \in {"trialing", "active"} -> status
      [] status \in {"incomplete", "paused"} -> "suspended"
      [] OTHER -> "past_due"
\* mapStatus.
MapStatus(status) ==
    CASE status \in {"trialing", "active"} -> status
      [] status \in {"past_due", "unpaid"} -> "past_due"
      [] status \in Ended -> "cancelled"
      [] OTHER -> "suspended"

-----------------------------------------------------------------------------
(* Stripe: subscriptions change, and events tell of it.                    *)

\* Each change sends its event, and an invoice one when money was due.
Tells(n, s, due) ==
    /\ changes' = s.at
    /\ events' = events \cup {[kind |-> "subscription", sub |-> n, was |-> s]}
                        \cup {e \in {[kind |-> "invoice", sub |-> n, at |-> s.at]} : due}
    /\ latest' = IF Writable(s) THEN s ELSE latest

\* The tenant pays on the hosted page, or pays there again.  The subscription
\* carries the plan in its metadata, unless it was set up by hand: then it may name
\* no tenant, and have a price that is no plan's.
Pay ==
    /\ changes < MaxChanges
    /\ Len(subs) < MaxSubs
    /\ \E price \in Tiers \cup {Unknown}, legible \in BOOLEAN,
          status \in {"incomplete", "trialing", "active"} :
          \E meta \in {price, Unknown} :
              LET s == [price |-> price, meta |-> meta, legible |-> legible,
                        status |-> status, at |-> changes + 1]
              IN subs' = Append(subs, s) /\ Tells(Len(subs) + 1, s, TRUE)
    /\ UNCHANGED <<subscription, serving, mishaps, synced>>

\* A payment succeeds or fails, the subscription ends, or the tenant changes its
\* price in the billing portal (createPortalSession).  The metadata stays.
StripeChanges(n) ==
    /\ changes < MaxChanges
    /\ subs[n].status \notin Ended
    /\ \E status \in StripeStatus \ {"incomplete"}, price \in Tiers \cup {Unknown} :
          LET s == [subs[n] EXCEPT !.status = status, !.price = price, !.at = changes + 1]
          IN /\ <<status, price>> # <<subs[n].status, subs[n].price>>
             /\ subs' = [subs EXCEPT ![n] = s]
             /\ Tells(n, s, status # subs[n].status /\ status \notin Ended)
    /\ UNCHANGED <<subscription, serving, mishaps, synced>>

-----------------------------------------------------------------------------
(* The webhook: handleEvent and syncSubscription.                          *)

Receive(v, e) ==
    /\ serving[v] = Unoccupied
    /\ serving' = [serving EXCEPT ![v] =
           IF e.kind = "invoice"
           THEN [op |-> "sync", event |-> e, is |-> Unknown, step |-> "retrieve"]
           ELSE [op |-> "sync", event |-> e, is |-> e.was, step |-> "write"]]
    /\ UNCHANGED <<subscription, subs, events, changes, mishaps, latest, synced>>

Retrieve(v) ==
    /\ At(v, "sync", "retrieve")
    /\ serving' = [serving EXCEPT ![v].step = "write", ![v].is = subs[serving[v].event.sub]]
    /\ UNCHANGED <<subscription, subs, events, changes, mishaps, latest, synced>>

\* The event has been answered.
Answered(v) ==
    /\ events' = events \ {serving[v].event}
    /\ serving' = [serving EXCEPT ![v] = Unoccupied]
    /\ UNCHANGED <<subs, changes, mishaps, latest>>

\* The upsert does not compare ages: the event that is applied last wins.
Upsert(v) ==
    /\ At(v, "sync", "write")
    /\ LET s == serving[v].is
       IN /\ Writable(s)
          /\ subscription' = [plan |-> PlanOf(s), status |-> MapStatus(s.status)]
          /\ applied' = IF s.at > applied THEN s.at ELSE applied
          /\ displaced' = (s.at < applied)
    /\ overridden' = FALSE
    /\ Answered(v)

\* The early returns: a warning in the log, and the event counts as handled.
PassOver(v) ==
    /\ At(v, "sync", "write")
    /\ ~Writable(serving[v].is)
    /\ Answered(v)
    /\ UNCHANGED <<subscription, synced>>

-----------------------------------------------------------------------------
\* PlatformService.changeSubscription.
ChangeSubscription ==
    /\ Mishap
    /\ \E plan \in Tiers, status \in RowStatus :
          subscription' = [plan |-> plan, status |-> status]
    /\ overridden' = TRUE
    /\ UNCHANGED <<serving, subs, events, changes, latest, applied, displaced>>

\* A handler ends where it is.  Stripe sends the event of a sync again.
HandlerEnds(v) ==
    /\ Mishap
    /\ serving[v] # Unoccupied
    /\ serving' = [serving EXCEPT ![v] = Unoccupied]
    /\ UNCHANGED <<subscription, subs, events, changes, latest, synced>>

BillingNext ==
    \/ \E v \in Servers :
          \/ \E e \in events : Receive(v, e)
          \/ Retrieve(v) \/ Upsert(v) \/ PassOver(v) \/ HandlerEnds(v)
    \/ Pay
    \/ \E n \in DOMAIN subs : StripeChanges(n)
    \/ ChangeSubscription

BillingSpec == BillingInit /\ [][BillingNext]_billingVars

-----------------------------------------------------------------------------
(* Properties.                                                             *)

Settled ==
    /\ events = {}
    /\ \A v \in Servers : serving[v].op # "sync"
    /\ latest # NoChange
    /\ ~displaced
    /\ ~overridden

\* When every event has been answered, and none was applied after a younger one,
\* the tenant's row tells of Stripe's last change that a sync can write: its plan,
\* and whether the tenant is served, owes money or has left.  Changes that can only
\* be passed over (syncSubscription's early returns) leave it there.
RowFollowsStripe ==
    Settled =>
        /\ subscription.plan = PlanOf(latest)
        /\ latest.status \in {"active", "trialing"} <=> subscription.status \in {"active", "trialing"}
        /\ latest.status \in {"past_due", "unpaid"} <=> subscription.status = "past_due"
        /\ latest.status \in Ended <=> subscription.status = "cancelled"
===============================================================================
