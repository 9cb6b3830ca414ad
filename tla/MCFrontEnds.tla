---------------------------- MODULE MCFrontEnds ----------------------------
(* The front ends: the counter, the booking page, the workshop tablet and   *)
(* what all pages have in common.  They share no state here, so a behaviour *)
(* runs one of them.  The counter has two customers, two garment types and  *)
(* two presses of "Checkout".                                               *)
EXTENDS Counter, Appointments, Floor, Screens, TLC

CONSTANTS s1, s2, k1, k2, p1, p2

VARIABLE part

FrontEndVars == <<counterVars, apptVars, floorVars, screenVars, part>>

\* Two stores.  The first person is HQ; the second works the counter of one
\* and the floor of the other; the third is the same with what the tablet
\* looks at moved from one role to the other and the checkout taken away, which it
\* does not look at; the fourth oversees one store, where transfers were granted,
\* and manages the other.
As(role) == [role |-> role, grant |-> {}, revoke |-> {}]
WorksAs(a, b) ==
  [kind |-> "staff", hq |-> FALSE, roles |-> (s1 :> a) @@ (s2 :> b)]

MCRoster ==
  {[WorksAs(NoRole, NoRole) EXCEPT !.hq = TRUE],
   WorksAs(As("cashier"), As("tailor")),
   WorksAs([As("cashier") EXCEPT !.revoke = {"pos_settle", "pos_checkout"}],
           [As("tailor") EXCEPT !.grant = {"pos_settle"}]),
   WorksAs([As("regional_manager") EXCEPT !.grant = {"transfer_inventory"}],
           As("store_manager"))}
    \cup {[kind |-> "platform", level |-> l] : l \in Levels}
    \cup {[kind |-> "customer"]}

\* One ticket was ordered before the customer was measured again.
MCOrderedAt == (k1 :> 1) @@ (k2 :> 2)

\* The counter's till: its second press is one while the first is under way, two
\* garments of a cart are of two types, and an order is only repeated from a cart of
\* one garment.
TillBound ==
  /\ presses[p2] = NotPressed /\ presses'[p2] # NotPressed => presses[p1] # NotPressed
  /\ Len(cart'.lines) = 2 =>
       /\ cart'.lines[1].type # cart'.lines[2].type
       /\ Len(orders') + Cardinality({p \in Presses :
                              /\ presses'[p] # NotPressed
                              /\ presses'[p].step = "sent"}) <= 1

FrontEndInit ==
  /\ part \in {"counter", "bookings", "floor", "screens"}
  /\ CounterInit /\ ApptInit /\ FloorInit /\ ScreensInit
  /\ station[k2] = Queued
  /\ part # "floor" => station[k1] = Queued
  /\ part # "screens" => rights.kind = "customer"

FrontEndNext ==
  \/ part = "counter" /\ CounterNext /\ TillBound
       /\ UNCHANGED <<apptVars, floorVars, screenVars, part>>
  \/ part = "bookings" /\ ApptNext
       /\ UNCHANGED <<counterVars, floorVars, screenVars, part>>
  \/ part = "floor" /\ FloorNext
       /\ UNCHANGED <<counterVars, apptVars, screenVars, part>>
  \/ part = "screens" /\ ScreensNext
       /\ UNCHANGED <<counterVars, apptVars, floorVars, part>>

FrontEndSpec == FrontEndInit /\ [][FrontEndNext]_FrontEndVars

\* Only the counter has customers.
Alike == Permutations(Customers)
============================================================================
