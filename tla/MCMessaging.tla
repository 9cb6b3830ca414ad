------------------------------ MODULE MCMessaging ------------------------------
(* The two halves of NotificationsModule and the cache of PlanFeatureGuard: the *)
(* components whose properties say what must happen.  They share no state, so a *)
(* behaviour runs one of them: interleaving them would only multiply their      *)
(* states.  Messaging has an order that is delivered, hence a status job and an *)
(* invoice job; RestockAlerts has two fabrics; FeatureGate two plans.           *)
EXTENDS Messaging, RestockAlerts, FeatureGate

VARIABLE part

Delivery == <<"delivered">>
TwoFabrics == <<"linen", "wool">>

PartsVars == <<vars, alertsVars, gateVars, part>>

PartsInit ==
    Init /\ AlertsInit /\ GateInit /\ part \in {"messages", "alerts", "gate"}

PartsNext ==
    \/ part = "messages" /\ Next /\ UNCHANGED <<alertsVars, gateVars, part>>
    \/ part = "alerts" /\ AlertsNext /\ UNCHANGED <<vars, gateVars, part>>
    \/ part = "gate" /\ GateNext /\ UNCHANGED <<vars, alertsVars, part>>

PartsSpec == PartsInit /\ [][PartsNext]_PartsVars /\ Fairness /\ GateFairness
================================================================================
