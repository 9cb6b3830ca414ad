------------------------------ MODULE FeatureGate ------------------------------
(***************************************************************************)
(* FeatureGateService: which features a tenant has paid for, answered from *)
(* a copy in Redis, and the writers that have to keep the copy honest: the *)
(* Stripe webhook's syncSubscription and the platform console.  One tenant.*)
(*                                                                         *)
(* A worker runs one handler at a time and yields between its database and *)
(* Redis calls.  Billing.tla models what a sync writes; here a sync and a  *)
(* console change are two writers of the subscription's row.               *)
(***************************************************************************)
EXTENDS Integers, FiniteSets

CONSTANTS
    Workers,
    Plans,
    Features,
    Trial,        \* the plan the tenant starts with
    MaxWrites,    \* bound: changes of the row, of a plan, of the tenant
    MaxWriterDeaths \* bound: writers that die, syncs whose 200 is lost

ASSUME FeatureGateAssumption == Trial \in Plans /\ MaxWrites \in Nat /\ MaxWriterDeaths \in Nat

VARIABLES
    features,   \* subscription_plans.features
    row,        \* organization_subscriptions: plan, and status
    cache,      \* Redis "features:<org>"
    task,       \* per worker: the handler it runs
    resend,     \* a sync died: Stripe will send its event again
    writes, deaths,
    stale       \* history: why the copy in Redis may be out of date

gateVars == <<features, row, cache, task, resend, writes, deaths, stale>>

Status == {"trialing", "active", "past_due", "suspended", "cancelled"}

Absent == [cached |-> FALSE]
Copy == [cached : {TRUE}, features : SUBSET Features, ttl : BOOLEAN]

Quiet == [op |-> "none"]

\* "old" (history): the entitlement has changed since the reader read it.
Reader == [op : {"gate"}, step : {"read", "set"}, features : SUBSET Features, old : BOOLEAN]
Writer == [op : {"sync", "console"}, step : {"invalidate"}]

GateTypeOK ==
    /\ features \in [Plans -> SUBSET Features]
    /\ row \in [plan : Plans, status : Status]
    /\ cache \in Copy \cup {Absent}
    /\ task \in [Workers -> Reader \cup Writer \cup {Quiet}]
    /\ resend \in BOOLEAN
    /\ writes \in 0 .. MaxWrites
    /\ deaths \in 0 .. MaxWriterDeaths
    /\ stale \subseteq {"raced", "edited", "died"}

GateInit ==
    /\ features = [p \in Plans |-> IF p = Trial THEN {} ELSE Features]
    /\ row = [plan |-> Trial, status |-> "active"]
    /\ cache = Absent
    /\ task = [w \in Workers |-> Quiet]
    /\ resend = FALSE
    /\ writes = 0
    /\ deaths = 0
    /\ stale = {}

Paying == {"active", "trialing"}

\* getFeatures' database answer.
Entitled == IF row.status \in Paying THEN features[row.plan] ELSE {}

-----------------------------------------------------------------------------
(* getFeatures.  When the copy is there the request is answered from it.   *)

GateMiss(w) ==
    /\ task[w] = Quiet
    /\ cache = Absent
    /\ task' = [task EXCEPT ![w] = [op |-> "gate", step |-> "read", features |-> {},
                                  old |-> FALSE]]
    /\ UNCHANGED <<features, row, cache, resend, writes, deaths, stale>>

GateRead(w) ==
    /\ task[w].op = "gate" /\ task[w].step = "read"
    /\ task' = [task EXCEPT ![w].step = "set", ![w].features = Entitled]
    /\ UNCHANGED <<features, row, cache, resend, writes, deaths, stale>>

\* Fault: "set" without EX.
Fault_KeptForGood(fs) == [cached |-> TRUE, features |-> fs, ttl |-> FALSE]
\* "set", EX 300.
Cached(fs) == [cached |-> TRUE, features |-> fs, ttl |-> TRUE]

GateSet(w) ==
    /\ task[w].op = "gate" /\ task[w].step = "set"
    /\ cache' = Cached(task[w].features)
    /\ stale' = IF task[w].old THEN {"raced"} ELSE {}
    /\ task' = [task EXCEPT ![w] = Quiet]
    /\ UNCHANGED <<features, row, resend, writes, deaths>>

CacheExpires ==
    /\ cache.cached
    /\ cache.ttl
    /\ cache' = Absent
    /\ stale' = {}
    /\ UNCHANGED <<features, row, task, resend, writes, deaths>>

-----------------------------------------------------------------------------
(* The writers.                                                            *)

Write == writes < MaxWrites /\ writes' = writes + 1

\* The entitlement changes under the readers that hold the one before.
Outdates(jobs) ==
    [w \in Workers |->
        IF jobs[w].op = "gate" /\ jobs[w].step = "set"
        THEN [jobs[w] EXCEPT !.old = TRUE] ELSE jobs[w]]

\* syncSubscription's upsert, changeSubscription's update.
WriteSubscription(w, op) ==
    /\ task[w] = Quiet
    /\ Write
    /\ \E plan \in Plans, status \in Status :
          /\ [plan |-> plan, status |-> status] # row
          /\ row' = [plan |-> plan, status |-> status]
    /\ task' = Outdates([task EXCEPT ![w] = [op |-> op, step |-> "invalidate"]])
    /\ UNCHANGED <<features, cache, resend, deaths, stale>>

\* The event comes again: the upsert writes what is there.
WriteAgain(w) ==
    /\ task[w] = Quiet
    /\ resend
    /\ resend' = FALSE
    /\ task' = [task EXCEPT ![w] = [op |-> "sync", step |-> "invalidate"]]
    /\ UNCHANGED <<features, row, cache, writes, deaths, stale>>

\* updateOrganization writes the name and the status, which login reads and no gate
\* does, and invalidates.
UpdateOrganization(w) ==
    /\ task[w] = Quiet
    /\ Write
    /\ task' = [task EXCEPT ![w] = [op |-> "console", step |-> "invalidate"]]
    /\ UNCHANGED <<features, row, cache, resend, deaths, stale>>

\* Fault: the copy is left to its TTL.
Fault_LeftThere == cache
\* invalidate.
Invalidated == Absent

Invalidate(w) ==
    /\ task[w].op \in {"sync", "console"}
    /\ cache' = Invalidated
    /\ stale' = {}
    /\ task' = [task EXCEPT ![w] = Quiet]
    /\ UNCHANGED <<features, row, resend, writes, deaths>>

\* upsertPlan changes a plan under its tenants and invalidates nothing.
UpsertPlan ==
    /\ Write
    /\ \E p \in Plans, fs \in SUBSET Features :
          /\ fs # features[p]
          /\ features' = [features EXCEPT ![p] = fs]
          /\ LET concerned == p = row.plan /\ row.status \in Paying
             IN /\ stale' = IF concerned /\ cache # Absent THEN stale \cup {"edited"} ELSE stale
                /\ task' = IF concerned THEN Outdates(task) ELSE task
    /\ UNCHANGED <<row, cache, resend, deaths>>

\* A writer ends before it has invalidated.  Stripe sends a sync's event again.
WriterDies(w) ==
    /\ task[w].op \in {"sync", "console"}
    /\ deaths < MaxWriterDeaths
    /\ deaths' = deaths + 1
    /\ resend' = (resend \/ task[w].op = "sync")
    /\ stale' = IF cache # Absent THEN stale \cup {"died"} ELSE stale
    /\ task' = [task EXCEPT ![w] = Quiet]
    /\ UNCHANGED <<features, row, cache, writes>>

GateNext ==
    \/ \E w \in Workers :
          \/ GateMiss(w) \/ GateRead(w) \/ GateSet(w)
          \/ WriteSubscription(w, "sync") \/ WriteSubscription(w, "console") \/ WriteAgain(w)
          \/ UpdateOrganization(w) \/ Invalidate(w) \/ WriterDies(w)
    \/ CacheExpires \/ UpsertPlan

\* A handler that has started goes on, and Redis keeps its clock.
GateFairness ==
    /\ WF_gateVars(CacheExpires)
    /\ \A w \in Workers : WF_gateVars(GateRead(w) \/ GateSet(w) \/ Invalidate(w))

GateSpec == GateInit /\ [][GateNext]_gateVars /\ GateFairness

-----------------------------------------------------------------------------
(* Properties.                                                             *)

\* The copy in Redis is what the tenant is entitled to whenever no writer stands
\* before its invalidation, but for a reader that overtook a writer, a plan edited
\* under its tenants, and a writer that died.
CacheCurrent ==
    (cache # Absent /\ stale = {} /\ \A w \in Workers : task[w].op \notin {"sync", "console"})
        => cache.features = Entitled

\* Once plans and subscriptions change no more, the gate answers by them for good:
\* whatever made the copy stale, its TTL ends it.
StalenessEnds == <>[](cache # Absent => cache.features = Entitled)
===============================================================================
