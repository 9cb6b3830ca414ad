----------------------------- MODULE RestockAlerts -----------------------------
(***************************************************************************)
(* Restock alerts of one store: ReorderCronService.checkStore, run by a    *)
(* job scheduler, and AlertsService.setAlertStatus, run by the staff.      *)
(*                                                                         *)
(* The cron worker runs one check at a time; between its reads and writes  *)
(* stock moves and the staff settle alerts.  The process may die during a  *)
(* check; the queue then runs the job again from the start.                *)
(* Names start with "Alerts" where Messaging has one of its own: the two   *)
(* are model-checked by one configuration.                                 *)
(***************************************************************************)
EXTENDS Integers, Sequences, FiniteSets

CONSTANTS
    Fabrics,       \* fabrics with a reorder setting, in the order of the check
    MaxAlerts      \* bound: alert rows

ASSUME AlertsAssumption ==
    /\ Fabrics \in Seq(STRING) \ {<<>>}
    /\ \A a, b \in DOMAIN Fabrics : Fabrics[a] = Fabrics[b] => a = b
    /\ MaxAlerts \in Nat

VARIABLES
    alerts,     \* per fabric: its alert rows
    check,      \* the check under way, or the step "idle"
    reopened    \* history: fabrics with a settled alert set open again

alertsVars == <<alerts, check, reopened>>

Fabric == {Fabrics[n] : n \in DOMAIN Fabrics}

OpenStatus == {"pending", "acknowledged", "ordered"}

\* "lost" (history): the check that made the row died, or its mail failed.
AlertRow ==
    [status : OpenStatus \cup {"resolved"}, mail : {"due", "sent", "lost"}]

\* "at" is the setting being looked at, "created" the rows this check made.
Check ==
    [step : {"idle", "stock", "open", "create", "digest"},
     at : Nat, created : SUBSET (Fabric \X Nat)]

Idle == [step |-> "idle", at |-> 1, created |-> {}]

AlertsTypeOK ==
    /\ alerts \in [Fabric -> Seq(AlertRow)]
    /\ check \in Check
    /\ reopened \subseteq Fabric

AlertsInit ==
    /\ alerts = [f \in Fabric |-> <<>>]
    /\ check = Idle
    /\ reopened = {}

Current == Fabrics[check.at]

Unsettled(f) == {k \in DOMAIN alerts[f] : alerts[f][k].status # "resolved"}

\* Fault: an alert whose cloth is on order no longer counts as open.
Fault_IgnoresOrdered(f) ==
    {k \in DOMAIN alerts[f] : alerts[f][k].status \in {"pending", "acknowledged"}}
Open(f) == {k \in DOMAIN alerts[f] : alerts[f][k].status \in OpenStatus}

Rows == UNION {{<<f, k>> : k \in DOMAIN alerts[f]} : f \in Fabric}

-----------------------------------------------------------------------------
(* The check.                                                              *)

StartCheck ==
    /\ check.step = "idle"
    /\ check' = [Idle EXCEPT !.step = "stock"]
    /\ UNCHANGED <<alerts, reopened>>

\* After the last setting a digest goes out if this check created an alert.
NextSetting(created) ==
    IF check.at < Len(Fabrics)
    THEN [step |-> "stock", at |-> check.at + 1, created |-> created]
    ELSE IF created # {}
         THEN [check EXCEPT !.step = "digest", !.created = created]
         ELSE Idle

\* The sum of the fabric's available rolls against the threshold.  Sales and
\* deliveries move the stock at any time, so either answer is possible.
ReadStock ==
    /\ check.step = "stock"
    /\ check' \in {[check EXCEPT !.step = "open"], NextSetting(check.created)}
    /\ UNCHANGED <<alerts, reopened>>

\* "Don't duplicate an open alert for the same fabric".
FindOpen ==
    /\ check.step = "open"
    /\ check' = IF Open(Current) = {} THEN [check EXCEPT !.step = "create"]
                ELSE NextSetting(check.created)
    /\ UNCHANGED <<alerts, reopened>>

CreateAlert ==
    /\ check.step = "create"
    /\ Cardinality(Rows) < MaxAlerts
    /\ alerts' = [alerts EXCEPT
           ![Current] = Append(@, [status |-> "pending", mail |-> "due"])]
    /\ check' = NextSetting(
           check.created \cup {<<Current, Len(alerts[Current]) + 1>>})
    /\ UNCHANGED reopened

\* The mail lists every alert of the store that is pending now.
SendDigest ==
    /\ check.step = "digest"
    /\ alerts' = [f \in Fabric |-> [k \in DOMAIN alerts[f] |->
           IF alerts[f][k].status = "pending"
           THEN [alerts[f][k] EXCEPT !.mail = "sent"]
           ELSE alerts[f][k]]]
    /\ check' = Idle
    /\ UNCHANGED reopened

\* The mail server refuses (the error is swallowed), or the check dies, here or
\* at an earlier step; the job that runs again sees no new alert.
DigestLost ==
    /\ check.step # "idle"
    /\ alerts' = [f \in Fabric |-> [k \in DOMAIN alerts[f] |->
           IF <<f, k>> \in check.created
           THEN [alerts[f][k] EXCEPT !.mail = "lost"]
           ELSE alerts[f][k]]]
    /\ check' = Idle
    /\ UNCHANGED reopened

-----------------------------------------------------------------------------
(* The staff.  The row is found and written; its status is not looked at.  *)

SetAlertStatus(f, k, status) ==
    /\ k \in DOMAIN alerts[f]
    /\ alerts' = [alerts EXCEPT ![f][k].status = status]
    /\ reopened' = IF alerts[f][k].status = "resolved" /\ status # "resolved"
                   THEN reopened \cup {f} ELSE reopened
    /\ UNCHANGED check

AlertsNext ==
    \/ StartCheck \/ ReadStock \/ FindOpen \/ CreateAlert
    \/ SendDigest \/ DigestLost
    \/ \E f \in Fabric : \E k \in DOMAIN alerts[f] :
          \E status \in {"acknowledged", "ordered", "resolved"} :
              SetAlertStatus(f, k, status)

AlertsSpec == AlertsInit /\ [][AlertsNext]_alertsVars

-----------------------------------------------------------------------------
(* Properties.                                                             *)

\* A fabric has one open alert at most, however checks, sales and the staff
\* interleave, unless somebody set a resolved one open again.
OneOpenAlert == \A f \in Fabric \ reopened : Cardinality(Unsettled(f)) <= 1

\* Between checks every pending alert has been in a digest, unless its check
\* died or the mail failed: no later digest is sent on its account.
PendingWasMailed ==
    check.step = "idle" =>
        \A f \in Fabric : \A k \in DOMAIN alerts[f] :
            alerts[f][k].status = "pending" => alerts[f][k].mail # "due"
===============================================================================
