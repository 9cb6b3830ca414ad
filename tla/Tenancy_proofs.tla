---------------------------- MODULE Tenancy_proofs -----------------------------
(***************************************************************************)
(* Proofs about the administration of tenants, for any plans, features,    *)
(* people, servers and limits: FeatureGate's copy in Redis, Billing's row  *)
(* of Stripe's subscription, Checkout's Stripe customer, Team's limits and *)
(* last HQ admin.                                                          *)
(*                                                                         *)
(* The four share no state, and each has its own specification, invariant  *)
(* and theorems.                                                           *)
(***************************************************************************)
EXTENDS FeatureGate, Billing, Checkout, Team,
        FiniteSetTheorems, SequenceTheorems, TLAPS

-----------------------------------------------------------------------------
(* FeatureGate.                                                            *)

NoWriter == \A w \in Workers : task[w].op \notin {"sync", "console"}

ReaderHolds(w) == task[w].op = "gate" /\ task[w].step = "set"

\* A reader that nobody outdated carries what the tenant is entitled to.
ReadersCurrent == \A w \in Workers : ReaderHolds(w) /\ ~task[w].old => task[w].features = Entitled

GateInv == GateTypeOK /\ ReadersCurrent /\ CacheCurrent

LEMMA GateTypes ==
    ASSUME GateTypeOK
    PROVE  /\ Entitled \in SUBSET Features
           /\ \A w \in Workers : /\ task[w].op = "gate" => task[w] \in Reader
                                 /\ task[w].op \in {"sync", "console"} => task[w] \in Writer
           /\ Absent.cached = FALSE
<1>1. Entitled \in SUBSET Features
    BY DEF GateTypeOK, Entitled
<1>2. ASSUME NEW w \in Workers
      PROVE  /\ task[w].op = "gate" => task[w] \in Reader
             /\ task[w].op \in {"sync", "console"} => task[w] \in Writer
  <2>1. task[w] \in Reader \cup Writer \cup {Quiet}
      BY DEF GateTypeOK
  <2> QED BY <2>1 DEF Reader, Writer, Quiet
<1> QED BY <1>1, <1>2 DEF Absent

\* Readers are marked when the entitlement changes under them.
LEMMA OutdatesMarks ==
    ASSUME NEW jobs \in [Workers -> Reader \cup Writer \cup {Quiet}]
    PROVE  /\ Outdates(jobs) \in [Workers -> Reader \cup Writer \cup {Quiet}]
           /\ \A w \in Workers :
                 /\ Outdates(jobs)[w].op = jobs[w].op
                 /\ Outdates(jobs)[w].op = "gate" /\ Outdates(jobs)[w].step = "set" =>
                        Outdates(jobs)[w].old
<1>1. ASSUME NEW w \in Workers
      PROVE  /\ Outdates(jobs)[w] \in Reader \cup Writer \cup {Quiet}
             /\ Outdates(jobs)[w].op = jobs[w].op
             /\ Outdates(jobs)[w].op = "gate" /\ Outdates(jobs)[w].step = "set" =>
                    Outdates(jobs)[w].old
  <2>1. jobs[w] \in Reader \cup Writer \cup {Quiet}
      OBVIOUS
  <2>2. CASE jobs[w] \in Reader /\ jobs[w].step = "set"
    <3>1. Outdates(jobs)[w] = [jobs[w] EXCEPT !.old = TRUE]
        BY <2>2 DEF Outdates, Reader
    <3> QED BY <2>2, <3>1 DEF Reader
  <2>3. CASE ~(jobs[w] \in Reader /\ jobs[w].step = "set")
    <3>1. ~(jobs[w].op = "gate" /\ jobs[w].step = "set")
        BY <2>1, <2>3 DEF Writer, Quiet
    <3>2. Outdates(jobs)[w] = jobs[w]
        BY <3>1 DEF Outdates
    <3> QED BY <2>1, <3>1, <3>2
  <2> QED BY <2>2, <2>3
<1>2. Outdates(jobs) = [w \in Workers |-> Outdates(jobs)[w]]
    BY DEF Outdates
<1> QED BY <1>1, <1>2

\* One worker goes on, and the entitlement stays what it was.
LEMMA WorkerGoesOn ==
    ASSUME GateInv, NEW w \in Workers, NEW r \in Reader \cup Writer \cup {Quiet},
           task' = [task EXCEPT ![w] = r], UNCHANGED <<features, row>>,
           cache' \in Copy \cup {Absent}, stale' \subseteq {"raced", "edited", "died"},
           resend' \in BOOLEAN, writes' \in 0 .. MaxWrites, deaths' \in 0 .. MaxWriterDeaths,
           r.op = "gate" /\ r.step = "set" /\ ~r.old => r.features = Entitled,
           NoWriter' /\ cache' # Absent /\ stale' = {} => cache'.features = Entitled
    PROVE  GateInv'
<1>1. /\ task' \in [Workers -> Reader \cup Writer \cup {Quiet}]
      /\ task'[w] = r /\ \A v \in Workers \ {w} : task'[v] = task[v]
    BY DEF GateInv, GateTypeOK
<1>2. Entitled' = Entitled
    BY DEF Entitled
<1>3. GateTypeOK'
    BY <1>1 DEF GateInv, GateTypeOK
<1>4. ReadersCurrent'
    BY <1>1, <1>2 DEF GateInv, ReadersCurrent, ReaderHolds
<1>5. CacheCurrent'
    BY <1>2 DEF CacheCurrent, NoWriter
<1> QED BY <1>3, <1>4, <1>5 DEF GateInv

LEMMA GateKeeps ==
    ASSUME GateInv, NEW w \in Workers, GateMiss(w) \/ GateRead(w) \/ GateSet(w)
    PROVE  GateInv'
<1>1. GateTypeOK /\ CacheCurrent
    BY DEF GateInv
<1>2. CASE GateMiss(w)
  <2> DEFINE r == [op |-> "gate", step |-> "read", features |-> {}, old |-> FALSE]
  <2>1. r \in Reader /\ r.step # "set"
      BY DEF Reader
  <2>2. task' = [task EXCEPT ![w] = r] /\ cache' = Absent
        /\ UNCHANGED <<features, row, cache, resend, writes, deaths, stale>>
      BY <1>2 DEF GateMiss
  <2> HIDE DEF r
  <2> QED BY <1>1, <2>1, <2>2, WorkerGoesOn DEF GateTypeOK
<1>3. CASE GateRead(w)
  <2> DEFINE r == [task[w] EXCEPT !.step = "set", !.features = Entitled]
  <2>1. r \in Reader /\ r.op = "gate" /\ r.features = Entitled
      BY <1>1, <1>3, GateTypes DEF GateRead, Reader
  <2>2. /\ task' = [task EXCEPT ![w].step = "set", ![w].features = Entitled]
        /\ UNCHANGED <<features, row, cache, resend, writes, deaths, stale>>
      BY <1>3 DEF GateRead
  <2>3. task' = [task EXCEPT ![w] = r]
      BY <1>1, <2>2 DEF GateTypeOK
  <2>4. task[w].op = "gate" /\ task'[w].op = "gate" /\ \A v \in Workers \ {w} : task'[v] = task[v]
      BY <1>1, <1>3, <2>1, <2>3 DEF GateRead, GateTypeOK
  <2>5. NoWriter' => NoWriter
      BY <2>4 DEF NoWriter
  <2> HIDE DEF r
  <2> QED BY <1>1, <2>1, <2>2, <2>3, <2>5, WorkerGoesOn DEF GateTypeOK, CacheCurrent, NoWriter
<1>4. CASE GateSet(w)
  <2>1. /\ task' = [task EXCEPT ![w] = Quiet] /\ cache' = Cached(task[w].features)
        /\ stale' = IF task[w].old THEN {"raced"} ELSE {}
        /\ ReaderHolds(w)
        /\ UNCHANGED <<features, row, resend, writes, deaths>>
      BY <1>4 DEF GateSet, ReaderHolds
  <2>2. task[w] \in Reader
      BY <1>1, <2>1, GateTypes DEF ReaderHolds
  <2>3. cache' \in Copy /\ cache'.features = task[w].features
      BY <2>1, <2>2 DEF Cached, Copy, Reader
  <2>4. stale' = {} => task[w].features = Entitled
      BY <2>1, <2>2 DEF GateInv, ReadersCurrent, Reader
  <2>5. Quiet \in {Quiet} /\ Quiet.op # "gate"
      BY DEF Quiet
  <2>6. stale' \subseteq {"raced", "edited", "died"}
      BY <2>1
  <2> QED BY <1>1, <2>1, <2>3, <2>4, <2>5, <2>6, WorkerGoesOn DEF GateTypeOK
<1> QED BY <1>2, <1>3, <1>4

LEMMA WritersKeep ==
    ASSUME GateInv, NEW w \in Workers,
           \/ WriteSubscription(w, "sync") \/ WriteSubscription(w, "console") \/ WriteAgain(w)
           \/ UpdateOrganization(w) \/ Invalidate(w) \/ WriterDies(w)
    PROVE  GateInv'
<1>1. GateTypeOK /\ CacheCurrent
    BY DEF GateInv
<1>2. ASSUME NEW op \in {"sync", "console"}, WriteSubscription(w, op)
      PROVE  GateInv'
  <2> DEFINE r == [op |-> op, step |-> "invalidate"]
             jobs == [task EXCEPT ![w] = r]
  <2>1. r \in Writer /\ r.op \in {"sync", "console"}
      BY DEF Writer
  <2>2. /\ task' = Outdates(jobs) /\ row' \in [plan : Plans, status : Status]
        /\ writes' \in 0 .. MaxWrites
        /\ UNCHANGED <<features, cache, resend, deaths, stale>>
      BY <1>1, <1>2, FeatureGateAssumption DEF WriteSubscription, Write, GateTypeOK
  <2> HIDE DEF r
  <2>3. jobs \in [Workers -> Reader \cup Writer \cup {Quiet}] /\ jobs[w] = r
      BY <1>1, <2>1 DEF GateTypeOK
  <2> HIDE DEF jobs
  <2>4. /\ task' \in [Workers -> Reader \cup Writer \cup {Quiet}]
        /\ task'[w].op = r.op
        /\ \A v \in Workers : task'[v].op = "gate" /\ task'[v].step = "set" => task'[v].old
      BY <2>2, <2>3, OutdatesMarks
  <2>5. GateTypeOK'
      BY <1>1, <2>2, <2>4 DEF GateTypeOK
  <2>6. ReadersCurrent' /\ CacheCurrent'
      BY <2>1, <2>4 DEF ReadersCurrent, ReaderHolds, CacheCurrent
  <2> QED BY <2>5, <2>6 DEF GateInv
<1>3. ASSUME WriteAgain(w) \/ UpdateOrganization(w)
      PROVE  GateInv'
  <2>1. PICK r \in Writer : task' = [task EXCEPT ![w] = r]
    <3>1. [op |-> "sync", step |-> "invalidate"] \in Writer
          /\ [op |-> "console", step |-> "invalidate"] \in Writer
        BY DEF Writer
    <3> QED BY <1>3, <3>1 DEF WriteAgain, UpdateOrganization
  <2>2. r.op \in {"sync", "console"}
      BY DEF Writer
  <2>3. task'[w] = r
      BY <1>1, <2>1 DEF GateTypeOK
  <2>4. ~NoWriter'
      BY <2>2, <2>3 DEF NoWriter
  <2>5. /\ UNCHANGED <<features, row, cache, deaths, stale>> /\ resend' \in BOOLEAN
        /\ writes' \in 0 .. MaxWrites
    <3>1. CASE WriteAgain(w)
        BY <1>1, <3>1 DEF WriteAgain, GateTypeOK
    <3>2. CASE UpdateOrganization(w)
      <4>1. writes' \in 0 .. MaxWrites
          BY <1>1, <3>2, FeatureGateAssumption DEF UpdateOrganization, Write, GateTypeOK
      <4> QED BY <1>1, <3>2, <4>1 DEF UpdateOrganization, GateTypeOK
    <3> QED BY <1>3, <3>1, <3>2
  <2> QED BY <1>1, <2>1, <2>2, <2>4, <2>5, WorkerGoesOn DEF GateTypeOK
<1>4. ASSUME Invalidate(w) \/ WriterDies(w)
      PROVE  GateInv'
  <2>1. /\ task' = [task EXCEPT ![w] = Quiet] /\ UNCHANGED <<features, row, writes>>
        /\ cache' \in {cache, Absent}
        /\ stale' \in {{}, stale, stale \cup {"died"}}
        /\ cache' # Absent => stale' # {}
      BY <1>4 DEF Invalidate, Invalidated, WriterDies
  <2>2. deaths' \in 0 .. MaxWriterDeaths /\ resend' \in BOOLEAN
    <3>1. deaths' \in 0 .. MaxWriterDeaths
        BY <1>1, <1>4, FeatureGateAssumption DEF Invalidate, WriterDies, GateTypeOK
    <3>2. resend' = resend \/ resend' = (resend \/ task[w].op = "sync")
        BY <1>4 DEF Invalidate, WriterDies
    <3>3. resend' \in BOOLEAN
        BY <1>1, <3>2, Zenon DEF GateTypeOK
    <3> QED BY <3>1, <3>3
  <2>3. Quiet \in {Quiet} /\ Quiet.op # "gate"
      BY DEF Quiet
  <2>4. cache' \in Copy \cup {Absent} /\ stale' \subseteq {"raced", "edited", "died"}
        /\ writes' \in 0 .. MaxWrites
      BY <1>1, <2>1 DEF GateTypeOK
  <2> QED BY <2>1, <2>2, <2>3, <2>4, WorkerGoesOn
<1> QED BY <1>2, <1>3, <1>4

LEMMA UpsertPlanKeeps ==
    ASSUME GateInv, UpsertPlan
    PROVE  GateInv'
<1>1. GateTypeOK /\ CacheCurrent /\ ReadersCurrent
    BY DEF GateInv
<1>2. PICK p \in Plans, fs \in SUBSET Features :
          /\ features' = [features EXCEPT ![p] = fs]
          /\ LET concerned == p = row.plan /\ row.status \in Paying
             IN /\ stale' = IF concerned /\ cache # Absent THEN stale \cup {"edited"} ELSE stale
                /\ task' = IF concerned THEN Outdates(task) ELSE task
    BY DEF UpsertPlan
<1>3. UNCHANGED <<row, cache, resend, deaths>> /\ writes' \in 0 .. MaxWrites
    BY <1>1, FeatureGateAssumption DEF UpsertPlan, Write, GateTypeOK
<1>4. features' \in [Plans -> SUBSET Features] /\ stale' \subseteq {"raced", "edited", "died"}
    BY <1>1, <1>2 DEF GateTypeOK
<1>5. CASE p = row.plan /\ row.status \in Paying
  <2>1. task' = Outdates(task) /\ (cache # Absent => stale' # {})
      BY <1>2, <1>5
  <2>2. task \in [Workers -> Reader \cup Writer \cup {Quiet}]
      BY <1>1 DEF GateTypeOK
  <2>3. /\ task' \in [Workers -> Reader \cup Writer \cup {Quiet}]
        /\ \A v \in Workers : task'[v].op = "gate" /\ task'[v].step = "set" => task'[v].old
      BY <2>1, <2>2, OutdatesMarks
  <2>4. GateTypeOK'
      BY <1>1, <1>3, <1>4, <2>3 DEF GateTypeOK
  <2>5. ReadersCurrent' /\ CacheCurrent'
      BY <1>3, <2>1, <2>3 DEF ReadersCurrent, ReaderHolds, CacheCurrent
  <2> QED BY <2>4, <2>5 DEF GateInv
<1>6. CASE ~(p = row.plan /\ row.status \in Paying)
  <2>1. task' = task /\ stale' = stale
      BY <1>2, <1>6
  <2>2. Entitled' = Entitled
      BY <1>1, <1>2, <1>3, <1>6 DEF Entitled, GateTypeOK
  <2>3. GateTypeOK'
      BY <1>1, <1>3, <1>4, <2>1 DEF GateTypeOK
  <2>4. ReadersCurrent' /\ CacheCurrent'
      BY <1>1, <1>3, <2>1, <2>2 DEF ReadersCurrent, ReaderHolds, CacheCurrent
  <2> QED BY <2>3, <2>4 DEF GateInv
<1> QED BY <1>5, <1>6

\* getFeatures, invalidate and the writers around them (feature-gate.service.ts,
\* stripe.service.ts, platform.service.ts): with no writer before its
\* invalidation, the copy in Redis is what the tenant is entitled to, unless a
\* reader overtook a writer, a plan was edited or a writer died.
THEOREM FeaturesAreCurrent == GateSpec => [](GateTypeOK /\ CacheCurrent)
<1>1. GateInit => GateInv
  <2> SUFFICES ASSUME GateInit PROVE GateInv
      OBVIOUS
  <2>1. GateTypeOK
    <3>1. features \in [Plans -> SUBSET Features]
        BY DEF GateInit
    <3>2. row \in [plan : Plans, status : Status]
        BY FeatureGateAssumption DEF GateInit, Status
    <3>3. writes \in 0 .. MaxWrites /\ deaths \in 0 .. MaxWriterDeaths
        BY FeatureGateAssumption DEF GateInit
    <3> QED BY <3>1, <3>2, <3>3 DEF GateInit, GateTypeOK
  <2> QED BY <2>1 DEF GateInit, GateInv, ReadersCurrent, ReaderHolds, CacheCurrent, Quiet
<1>2. GateInv /\ [GateNext]_gateVars => GateInv'
  <2> SUFFICES ASSUME GateInv, [GateNext]_gateVars PROVE GateInv'
      OBVIOUS
  <2>1. CASE CacheExpires
    <3>1. cache' = Absent /\ stale' = {}
          /\ UNCHANGED <<features, row, task, resend, writes, deaths>>
        BY <2>1 DEF CacheExpires
    <3> QED BY <3>1 DEF GateInv, GateTypeOK, ReadersCurrent, ReaderHolds, CacheCurrent, Entitled
  <2>2. CASE UNCHANGED gateVars
      BY <2>2 DEF gateVars, GateInv, GateTypeOK, ReadersCurrent, ReaderHolds, CacheCurrent, Entitled
  <2> QED BY <2>1, <2>2, GateKeeps, WritersKeep, UpsertPlanKeeps DEF GateNext
<1>3. GateInv => GateTypeOK /\ CacheCurrent
    BY DEF GateInv
<1> QED BY <1>1, <1>2, <1>3, PTL DEF GateSpec

-----------------------------------------------------------------------------
(* Checkout.                                                               *)

\* Requests that may still create a customer.
Unserved == {v \in Visits : visit[v].step \in {"new", "create"}}

Known(c) == c \in {customer} \cup replaced /\ c # 0

CheckoutInv ==
    /\ CheckoutTypeOK
    /\ created + Cardinality(Unserved) <= Cardinality(Visits)
    /\ \A v \in Visits : /\ visit[v].step = "store" => visit[v].customer # 0
                         /\ visit[v].step = "page" => Known(visit[v].customer)
    /\ \A c \in pages \cup payers : Known(c)

LEMMA CheckoutTypes ==
    ASSUME CheckoutTypeOK
    PROVE  /\ Cardinality(Visits) \in Nat /\ created \in Nat
           /\ IsFiniteSet(Unserved) /\ Cardinality(Unserved) \in Nat
           /\ 0 \notin Customers
<1>1. IsFiniteSet(Visits) /\ Cardinality(Visits) \in Nat
    BY CheckoutAssumption, FS_CardinalityType
<1>2. IsFiniteSet(Unserved) /\ Cardinality(Unserved) \in Nat
    BY <1>1, FS_Subset, FS_CardinalityType DEF Unserved
<1> QED BY <1>1, <1>2 DEF CheckoutTypeOK, Customers

\* A request goes on: to create a customer, or past it.
LEMMA VisitGoesOn ==
    ASSUME CheckoutTypeOK, NEW v \in Visits,
           NEW r \in [step : {"new", "create", "store", "page", "done"},
                      customer : {0} \cup Customers],
           visit' = [visit EXCEPT ![v] = r]
    PROVE  /\ visit' \in [Visits -> [step : {"new", "create", "store", "page", "done"},
                                     customer : {0} \cup Customers]]
           /\ visit'[v] = r /\ \A u \in Visits \ {v} : visit'[u] = visit[u]
           /\ v \in Unserved \/ r.step \notin {"new", "create"} =>
                 Cardinality(Unserved') <= Cardinality(Unserved)
           /\ v \in Unserved /\ r.step \notin {"new", "create"} =>
                 Cardinality(Unserved') = Cardinality(Unserved) - 1
<1>1. /\ visit' \in [Visits -> [step : {"new", "create", "store", "page", "done"},
                                customer : {0} \cup Customers]]
      /\ visit'[v] = r /\ \A u \in Visits \ {v} : visit'[u] = visit[u]
    BY DEF CheckoutTypeOK
<1>2. IsFiniteSet(Unserved)
    BY CheckoutTypes
<1>3. ASSUME v \in Unserved \/ r.step \notin {"new", "create"}
      PROVE  Cardinality(Unserved') <= Cardinality(Unserved)
  <2>1. Unserved' \subseteq Unserved
      BY <1>1, <1>3 DEF Unserved
  <2> QED BY <1>2, <2>1, FS_Subset
<1>4. ASSUME v \in Unserved, r.step \notin {"new", "create"}
      PROVE  Cardinality(Unserved') = Cardinality(Unserved) - 1
  <2>1. Unserved' = Unserved \ {v}
      BY <1>1, <1>4 DEF Unserved
  <2>2. Cardinality(Unserved \ {v}) = Cardinality(Unserved) - 1
      BY <1>2, <1>4, FS_RemoveElement
  <2> QED BY <2>1, <2>2
<1> QED BY <1>1, <1>3, <1>4

\* ensureCustomer and createCheckoutSession (stripe.service.ts): who pays is the
\* customer on the tenant's row, or one that a request running at the same time
\* has overwritten there.
THEOREM PayersAreKnown == CheckoutSpec => [](CheckoutTypeOK /\ PayerIsKnown)
<1>1. CheckoutInit => CheckoutInv
  <2> SUFFICES ASSUME CheckoutInit PROVE CheckoutInv
      OBVIOUS
  <2>1. IsFiniteSet(Visits) /\ Cardinality(Visits) \in Nat
      BY CheckoutAssumption, FS_CardinalityType
  <2>2. CheckoutTypeOK
      BY <2>1, CheckoutAssumption DEF CheckoutInit, CheckoutTypeOK
  <2>3. Unserved = Visits
      BY DEF CheckoutInit, Unserved
  <2> QED BY <2>1, <2>2, <2>3 DEF CheckoutInit, CheckoutInv
<1>2. CheckoutInv /\ [CheckoutNext]_checkoutVars => CheckoutInv'
  <2> SUFFICES ASSUME CheckoutInv, [CheckoutNext]_checkoutVars PROVE CheckoutInv'
      OBVIOUS
  <2>0. /\ CheckoutTypeOK /\ Cardinality(Visits) \in Nat /\ created \in Nat
        /\ IsFiniteSet(Unserved) /\ Cardinality(Unserved) \in Nat /\ 0 \notin Customers
      BY CheckoutTypes DEF CheckoutInv
  <2>1. ASSUME NEW v \in Visits, Ensure(v) \/ OpenPage(v) \/ VisitDies(v)
        PROVE  CheckoutInv'
    <3>1. PICK r \in [step : {"new", "create", "store", "page", "done"},
                      customer : {0} \cup Customers] :
              /\ visit' = [visit EXCEPT ![v] = r]
              /\ v \in Unserved \/ r.step \notin {"new", "create"}
              /\ r.step # "store"
              /\ r.step = "page" => r.customer = customer /\ customer # 0
      <4>1. CASE Ensure(v)
        <5>1. PICK r : r = [step |-> IF customer # 0 THEN "page" ELSE "create",
                            customer |-> customer]
            OBVIOUS
        <5>2. r \in [step : {"new", "create", "store", "page", "done"},
                     customer : {0} \cup Customers]
            BY <2>0, <5>1 DEF CheckoutTypeOK
        <5> QED BY <4>1, <5>1, <5>2 DEF Ensure, Unserved
      <4>2. CASE OpenPage(v) \/ VisitDies(v)
        <5>1. PICK r : r = [visit[v] EXCEPT !.step = "done"]
            OBVIOUS
        <5>2. /\ r \in [step : {"new", "create", "store", "page", "done"},
                        customer : {0} \cup Customers]
              /\ r.step = "done"
            BY <2>0, <5>1 DEF CheckoutTypeOK
        <5> QED BY <4>2, <5>1, <5>2 DEF OpenPage, VisitDies
      <4> QED BY <2>1, <4>1, <4>2
    <3>2. /\ UNCHANGED <<customer, created, payers, replaced>>
          /\ pages' = pages \/ (pages' = pages \cup {visit[v].customer} /\ visit[v].step = "page")
          /\ visitDeaths' \in 0 .. MaxVisitDeaths
        BY <2>0, <2>1, CheckoutAssumption DEF Ensure, OpenPage, VisitDies, CheckoutTypeOK
    <3>3. /\ visit' \in [Visits -> [step : {"new", "create", "store", "page", "done"},
                                    customer : {0} \cup Customers]]
          /\ visit'[v] = r /\ \A u \in Visits \ {v} : visit'[u] = visit[u]
          /\ Cardinality(Unserved') <= Cardinality(Unserved)
        BY <2>0, <3>1, VisitGoesOn
    <3>4. Cardinality(Unserved') \in Nat
      <4>1. Unserved' \subseteq Visits
          BY DEF Unserved
      <4> QED BY <4>1, CheckoutAssumption, FS_Subset, FS_CardinalityType
    <3>5. \A c : Known(c)' = Known(c)
        BY <3>2 DEF Known
    <3>6. /\ \A c \in pages' \cup payers' : Known(c)
          /\ pages' \subseteq Customers
      <4>1. visit[v].step = "page" => Known(visit[v].customer) /\ visit[v].customer \in Customers
          BY <2>0 DEF CheckoutInv, CheckoutTypeOK, Known
      <4> QED BY <2>0, <3>2, <4>1 DEF CheckoutInv, CheckoutTypeOK
    <3>7. CheckoutTypeOK'
        BY <2>0, <3>2, <3>3, <3>6 DEF CheckoutTypeOK, Customers
    <3>8. created' + Cardinality(Unserved') <= Cardinality(Visits)
        BY <2>0, <3>2, <3>3, <3>4 DEF CheckoutInv
    <3>9. \A u \in Visits : /\ visit'[u].step = "store" => visit'[u].customer # 0
                            /\ visit'[u].step = "page" => Known(visit'[u].customer)
      <4> TAKE u \in Visits
      <4>1. CASE u = v
          BY <3>1, <3>3, <4>1 DEF Known
      <4>2. CASE u # v
          BY <3>3, <4>2 DEF CheckoutInv
      <4> QED BY <4>1, <4>2
    <3> QED BY <3>2, <3>5, <3>6, <3>7, <3>8, <3>9 DEF CheckoutInv
  <2>2. ASSUME NEW v \in Visits, CreateCustomer(v)
        PROVE  CheckoutInv'
    <3> DEFINE r == [step |-> "store", customer |-> created + 1]
    <3>1. /\ visit[v].step = "create" /\ created' = created + 1
          /\ visit' = [visit EXCEPT ![v] = r]
          /\ UNCHANGED <<customer, pages, payers, visitDeaths, replaced>>
        BY <2>2 DEF CreateCustomer
    <3>2. v \in Unserved /\ Cardinality(Unserved) >= 1
      <4>1. v \in Unserved
          BY <3>1 DEF Unserved
      <4>2. Cardinality(Unserved \ {v}) = Cardinality(Unserved) - 1
            /\ Cardinality(Unserved \ {v}) \in Nat
          BY <2>0, <4>1, FS_RemoveElement, FS_CardinalityType
      <4> QED BY <2>0, <4>1, <4>2
    <3>3. created + 1 \in 1 .. Cardinality(Visits)
        BY <2>0, <3>2 DEF CheckoutInv
    <3>4. /\ r \in [step : {"new", "create", "store", "page", "done"},
                    customer : {0} \cup Customers]
          /\ r.step = "store" /\ r.customer # 0
        BY <2>0, <3>3 DEF Customers
    <3> HIDE DEF r
    <3>5. /\ visit' \in [Visits -> [step : {"new", "create", "store", "page", "done"},
                                    customer : {0} \cup Customers]]
          /\ visit'[v] = r /\ \A u \in Visits \ {v} : visit'[u] = visit[u]
          /\ Cardinality(Unserved') = Cardinality(Unserved) - 1
        BY <2>0, <3>1, <3>2, <3>4, VisitGoesOn
    <3>6. CheckoutTypeOK'
        BY <2>0, <3>1, <3>3, <3>5 DEF CheckoutTypeOK, Customers
    <3>7. created' + Cardinality(Unserved') <= Cardinality(Visits)
        BY <2>0, <3>1, <3>5 DEF CheckoutInv
    <3>8. \A u \in Visits : /\ visit'[u].step = "store" => visit'[u].customer # 0
                            /\ visit'[u].step = "page" => Known(visit'[u].customer)
      <4> TAKE u \in Visits
      <4>1. CASE u = v
          BY <3>4, <3>5, <4>1
      <4>2. CASE u # v
          BY <3>5, <4>2 DEF CheckoutInv
      <4> QED BY <4>1, <4>2
    <3> QED BY <3>1, <3>6, <3>7, <3>8 DEF CheckoutInv, Known
  <2>3. ASSUME NEW v \in Visits, StoreCustomer(v)
        PROVE  CheckoutInv'
    <3> DEFINE r == [visit[v] EXCEPT !.step = "page"]
    <3>1. /\ visit[v].step = "store" /\ customer' = visit[v].customer
          /\ replaced' = IF customer # 0 THEN replaced \cup {customer} ELSE replaced
          /\ visit' = [visit EXCEPT ![v] = r]
          /\ UNCHANGED <<created, pages, payers, visitDeaths>>
        BY <2>3 DEF StoreCustomer, Stored
    <3>2. /\ r \in [step : {"new", "create", "store", "page", "done"},
                    customer : {0} \cup Customers]
          /\ r.step = "page" /\ r.customer = visit[v].customer /\ visit[v].customer # 0
        BY <2>0, <3>1 DEF CheckoutTypeOK, CheckoutInv
    <3> HIDE DEF r
    <3>3. /\ visit' \in [Visits -> [step : {"new", "create", "store", "page", "done"},
                                    customer : {0} \cup Customers]]
          /\ visit'[v] = r /\ \A u \in Visits \ {v} : visit'[u] = visit[u]
          /\ Cardinality(Unserved') <= Cardinality(Unserved)
        BY <2>0, <3>1, <3>2, VisitGoesOn
    <3>4. Cardinality(Unserved') \in Nat
      <4>1. Unserved' \subseteq Visits
          BY DEF Unserved
      <4> QED BY <4>1, CheckoutAssumption, FS_Subset, FS_CardinalityType
    <3>5. ASSUME NEW c, Known(c) PROVE Known(c)'
        BY <3>1, <3>5 DEF Known
    <3>6. r.customer \in {customer'} \cup replaced' /\ r.customer # 0
        BY <3>1, <3>2
    <3>7. CheckoutTypeOK'
        BY <2>0, <3>1, <3>2, <3>3 DEF CheckoutTypeOK, Customers
    <3>8. created' + Cardinality(Unserved') <= Cardinality(Visits)
        BY <2>0, <3>1, <3>3, <3>4 DEF CheckoutInv
    <3>9. \A u \in Visits : /\ visit'[u].step = "store" => visit'[u].customer # 0
                            /\ visit'[u].step = "page" =>
                                  /\ visit'[u].customer \in {customer'} \cup replaced'
                                  /\ visit'[u].customer # 0
      <4> TAKE u \in Visits
      <4>1. CASE u = v
          BY <3>2, <3>3, <3>6, <4>1
      <4>2. CASE u # v
        <5>1. visit[u].step = "page" => Known(visit[u].customer)
            BY DEF CheckoutInv
        <5> QED BY <3>1, <3>3, <4>2, <5>1 DEF CheckoutInv, Known
      <4> QED BY <4>1, <4>2
    <3>10. \A c \in pages' \cup payers' : Known(c)'
        BY <3>1, <3>5 DEF CheckoutInv
    <3> QED BY <3>7, <3>8, <3>9, <3>10 DEF CheckoutInv, Known
  <2>4. ASSUME NEW c \in pages, Subscribe(c)
        PROVE  CheckoutInv'
    <3>1. /\ pages' = pages \ {c} /\ payers' = payers \cup {c}
          /\ UNCHANGED <<customer, created, visit, visitDeaths, replaced>>
        BY <2>4 DEF Subscribe
    <3>2. CheckoutTypeOK'
        BY <2>0, <3>1 DEF CheckoutTypeOK
    <3> QED BY <3>1, <3>2 DEF CheckoutInv, Known, Unserved
  <2>5. CASE UNCHANGED checkoutVars
      BY <2>5 DEF checkoutVars, CheckoutInv, CheckoutTypeOK, Known, Unserved
  <2> QED BY <2>1, <2>2, <2>3, <2>4, <2>5 DEF CheckoutNext
<1>3. CheckoutInv => CheckoutTypeOK /\ PayerIsKnown
    BY DEF CheckoutInv, PayerIsKnown, Known
<1> QED BY <1>1, <1>2, <1>3, PTL DEF CheckoutSpec

-----------------------------------------------------------------------------
(* Billing.                                                                *)

RowOf(s) == [plan |-> PlanOf(s), status |-> MapStatus(s.status)]

\* What some subscription has been: if a sync can write it, it is the latest such
\* change, or came before it.
Version(s) ==
    /\ s.at <= changes
    /\ Writable(s) => s.at <= latest.at /\ (s.at = latest.at => s = latest)

EventPlaced(e) == e.sub \in DOMAIN subs /\ (e.kind = "subscription" => Version(e.was))

SyncPlaced(r) ==
    /\ EventPlaced(r.event)
    /\ r.event.kind = "subscription" => r.step = "write" /\ r.is = r.event.was
    /\ r.step = "write" => r.is \in Sub /\ Version(r.is)

Tidings ==
    /\ changes \in 0 .. MaxChanges
    /\ latest.at <= changes
    /\ latest.at > 0 => Writable(latest)
    /\ applied \in 0 .. latest.at
    /\ DOMAIN subs \subseteq 1 .. MaxSubs
    /\ \A n \in DOMAIN subs : Version(subs[n])
    /\ \A e \in events : EventPlaced(e)
    /\ \A v \in Servers : serving[v].op = "sync" => SyncPlaced(serving[v])

\* The latest change that a sync can write was applied, or its event is still to be
\* answered.
LatestOnItsWay ==
    \/ applied = latest.at
    \/ \E e \in events : e.kind = "subscription" /\ e.was = latest

RowIsApplied ==
    ~displaced /\ ~overridden /\ applied > 0 /\ applied = latest.at => subscription = RowOf(latest)

BillingInv == BillingTypeOK /\ Tidings /\ LatestOnItsWay /\ RowIsApplied

LEMMA BillingTypes ==
    ASSUME BillingInv
    PROVE  /\ MaxChanges \in Nat /\ MaxSubs \in Nat /\ Len(subs) \in Nat
           /\ DOMAIN subs = 1 .. Len(subs)
           /\ \A n \in DOMAIN subs : subs[n] \in Sub
           /\ \A v \in Servers : serving[v].op = "sync" => serving[v] \in Sync
           /\ \A v \in Servers : serving[v].op = "sync" \/ serving[v] = Unoccupied
           /\ changes \in Nat /\ applied \in Nat /\ latest.at \in Nat
           /\ latest.at > 0 => latest \in Sub
<1>1. subs \in Seq(Sub)
    BY DEF BillingInv, BillingTypeOK
<1>2. /\ MaxChanges \in Nat /\ MaxSubs \in Nat
    BY BillingAssumption
<1>3. ASSUME NEW v \in Servers
      PROVE  /\ serving[v].op = "sync" => serving[v] \in Sync
             /\ serving[v].op = "sync" \/ serving[v] = Unoccupied
  <2>1. serving[v] \in Sync \cup {Unoccupied}
      BY DEF BillingInv, BillingTypeOK
  <2> QED BY <2>1 DEF Sync, Unoccupied
<1>4. latest \in Sub \cup {NoChange}
    BY DEF BillingInv, BillingTypeOK
<1>5. latest.at \in Nat /\ (latest.at > 0 => latest \in Sub)
    BY <1>2, <1>4 DEF Sub, NoChange
<1>6. changes \in Nat /\ applied \in Nat
    BY <1>2, <1>5 DEF BillingInv, Tidings
<1> QED BY <1>1, <1>2, <1>3, <1>5, <1>6, LenProperties

LEMMA RowTypes ==
    ASSUME NEW s \in Sub, Writable(s)
    PROVE  /\ RowOf(s) \in [plan : Tiers, status : RowStatus]
           /\ s.status \in {"active", "trialing"} <=> RowOf(s).status \in {"active", "trialing"}
           /\ s.status \in {"past_due", "unpaid"} <=> RowOf(s).status = "past_due"
           /\ s.status \in Ended <=> RowOf(s).status = "cancelled"
           /\ RowOf(s).plan = PlanOf(s)
<1>1. PlanOf(s) \in Tiers
    BY DEF PlanOf, Sub, Writable
<1>2. s.status \in StripeStatus
    BY DEF Sub
<1>3. /\ MapStatus(s.status) \in RowStatus
      /\ s.status \in {"active", "trialing"} <=> MapStatus(s.status) \in {"active", "trialing"}
      /\ s.status \in {"past_due", "unpaid"} <=> MapStatus(s.status) = "past_due"
      /\ s.status \in Ended <=> MapStatus(s.status) = "cancelled"
    BY <1>2 DEF MapStatus, RowStatus, StripeStatus, Ended
<1> QED BY <1>1, <1>3 DEF RowOf

\* A change of a subscription, and the events that tell of it.
LEMMA TellsKeeps ==
    ASSUME BillingInv, NEW n \in 1 .. MaxSubs, NEW s \in Sub, s.at = changes + 1,
           changes < MaxChanges,
           subs' \in Seq(Sub), DOMAIN subs' = DOMAIN subs \cup {n}, subs'[n] = s,
           \A m \in DOMAIN subs \ {n} : subs'[m] = subs[m],
           NEW due \in BOOLEAN, Tells(n, s, due), UNCHANGED <<subscription, serving, synced>>
    PROVE  BillingInv'
<1> DEFINE told == [kind |-> "subscription", sub |-> n, was |-> s]
           billed == [kind |-> "invoice", sub |-> n, at |-> s.at]
<1>1. /\ MaxChanges \in Nat /\ changes \in Nat /\ applied \in Nat /\ latest.at \in Nat
      /\ \A m \in DOMAIN subs : subs[m] \in Sub
      /\ \A v \in Servers : serving[v].op = "sync" => serving[v] \in Sync
      /\ latest.at <= changes /\ applied <= latest.at
    BY BillingTypes DEF BillingInv, Tidings
<1>2. /\ changes' = changes + 1 /\ told \in events' /\ events \subseteq events'
      /\ \A e \in events' : e \in events \/ e = told \/ e = billed
      /\ latest' = IF Writable(s) THEN s ELSE latest
    BY DEF Tells
<1>3. changes + 1 \in 1 .. MaxChanges
    BY <1>1
<1>4. told \in Event /\ billed \in Event
    BY <1>3 DEF Event, SubscriptionEvent, InvoiceEvent
<1>5. /\ told.kind = "subscription" /\ told.sub = n /\ told.was = s
      /\ billed.kind = "invoice" /\ billed.sub = n
    OBVIOUS
<1> HIDE DEF told, billed
<1>6. BillingTypeOK'
    BY <1>2, <1>4 DEF BillingInv, BillingTypeOK
<1>7. ASSUME NEW x \in Sub, Version(x) PROVE Version(x)'
  <2>1. x.at <= changes /\ x.at \in Nat
      BY <1>7 DEF Version, Sub
  <2>2. Writable(x)' = Writable(x)
      BY DEF Writable, PlanOf
  <2>3. CASE Writable(s)
    <3>1. latest' = s
        BY <1>2, <2>3
    <3> QED BY <1>1, <1>2, <2>1, <2>2, <3>1 DEF Version
  <2>4. CASE ~Writable(s)
    <3>1. latest' = latest
        BY <1>2, <2>4
    <3> QED BY <1>1, <1>2, <1>7, <2>1, <2>2, <3>1 DEF Version
  <2> QED BY <2>3, <2>4
<1>8. Version(s)'
  <2>1. Writable(s)' = Writable(s)
      BY DEF Writable, PlanOf
  <2>2. Writable(s) => latest' = s
      BY <1>2
  <2> QED BY <1>1, <1>2, <2>1, <2>2 DEF Version
<1>9. ASSUME NEW e \in Event, EventPlaced(e) PROVE EventPlaced(e)'
  <2>1. e.kind = "subscription" => e.was \in Sub
      BY DEF Event, SubscriptionEvent, InvoiceEvent
  <2> QED BY <1>7, <1>9, <2>1 DEF EventPlaced
<1>10. Tidings'
  <2>1. ASSUME NEW m \in DOMAIN subs' PROVE Version(subs[m])'
    <3>1. CASE m = n
        BY <1>8, <3>1 DEF Version, Writable, PlanOf
    <3>2. CASE m # n
      <4>1. subs'[m] = subs[m] /\ subs[m] \in Sub /\ Version(subs[m])
          BY <1>1, <3>2 DEF BillingInv, Tidings
      <4>2. PICK x \in Sub : x = subs[m]
          BY <4>1
      <4>3. Version(x)'
          BY <1>7, <4>1, <4>2
      <4> QED BY <4>1, <4>2, <4>3 DEF Version, Writable, PlanOf
    <3> QED BY <3>1, <3>2
  <2>2. \A e \in events' : EventPlaced(e)'
    <3> TAKE e \in events'
    <3>1. CASE e \in events
        BY <1>9, <3>1 DEF BillingInv, BillingTypeOK, Tidings
    <3>2. CASE e = told \/ e = billed
        BY <1>5, <1>8, <3>2 DEF EventPlaced
    <3> QED BY <1>2, <3>1, <3>2
  <2>3. ASSUME NEW v \in Servers, serving'[v].op = "sync" PROVE SyncPlaced(serving[v])'
    <3>1. serving'[v] = serving[v] /\ serving[v] \in Sync /\ SyncPlaced(serving[v])
        BY <1>1, <2>3 DEF BillingInv, Tidings
    <3>2. PICK r \in Sync : r = serving[v]
        BY <3>1
    <3>3. EventPlaced(r.event) /\ r.event \in Event
        BY <3>1, <3>2 DEF SyncPlaced, Sync
    <3>4. EventPlaced(r.event)'
        BY <1>9, <3>3
    <3>5. r.step = "write" => r.is \in Sub /\ Version(r.is)'
        BY <1>7, <3>1, <3>2 DEF SyncPlaced
    <3> QED BY <3>1, <3>2, <3>4, <3>5 DEF SyncPlaced, EventPlaced, Version
  <2>4. changes' \in 0 .. MaxChanges /\ latest'.at <= changes' /\ applied' \in 0 .. latest'.at
    <3>1. changes' \in 0 .. MaxChanges /\ applied' = applied
        BY <1>1, <1>2, <1>3 DEF synced
    <3>2. CASE Writable(s)
        BY <1>1, <1>2, <3>1, <3>2
    <3>3. CASE ~Writable(s)
        BY <1>1, <1>2, <3>1, <3>3
    <3> QED BY <3>1, <3>2, <3>3
  <2>5. DOMAIN subs' \subseteq 1 .. MaxSubs
      BY DEF BillingInv, Tidings
  <2>6. (latest.at > 0 => Writable(latest))'
    <3>1. CASE Writable(s)
        BY <1>2, <3>1 DEF Writable, PlanOf
    <3>2. CASE ~Writable(s)
        BY <1>2, <3>2 DEF Writable, PlanOf, BillingInv, Tidings
    <3> QED BY <3>1, <3>2
  <2>7. (\A m \in DOMAIN subs : Version(subs[m]))'
      BY <2>1
  <2> QED BY <2>2, <2>3, <2>4, <2>5, <2>6, <2>7 DEF Tidings
<1>11. LatestOnItsWay'
  <2>1. CASE Writable(s)
      BY <1>2, <1>5, <2>1 DEF LatestOnItsWay
  <2>2. CASE ~Writable(s)
      BY <1>2, <2>2 DEF LatestOnItsWay, BillingInv, synced
  <2> QED BY <2>1, <2>2
<1>12. RowIsApplied'
  <2>1. CASE Writable(s)
    <3>1. latest' = s /\ applied' = applied
        BY <1>2, <2>1 DEF synced
    <3>2. applied' # latest'.at
        BY <1>1, <3>1
    <3> QED BY <3>2 DEF RowIsApplied
  <2>2. CASE ~Writable(s)
    <3>1. latest' = latest
        BY <1>2, <2>2
    <3> QED BY <3>1 DEF BillingInv, RowIsApplied, synced, RowOf, PlanOf, MapStatus
  <2> QED BY <2>1, <2>2
<1> QED BY <1>6, <1>10, <1>11, <1>12 DEF BillingInv

\* Steps that touch no subscription of Stripe's.
LEMMA SameVersions ==
    ASSUME UNCHANGED <<subs, changes, latest>>
    PROVE  /\ \A s : Version(s)' = Version(s)
           /\ \A e : EventPlaced(e)' = EventPlaced(e)
           /\ \A r : SyncPlaced(r)' = SyncPlaced(r)
BY DEF Version, EventPlaced, SyncPlaced, Writable, PlanOf

LEMMA ServerSteps ==
    ASSUME BillingInv, NEW v \in Servers, NEW r \in Sync \cup {Unoccupied},
           serving' = [serving EXCEPT ![v] = r], r.op = "sync" => SyncPlaced(r),
           UNCHANGED <<subscription, subs, events, changes, latest, synced>>
    PROVE  BillingInv'
<1>1. /\ serving' \in [Servers -> Sync \cup {Unoccupied}]
      /\ serving'[v] = r /\ \A u \in Servers \ {v} : serving'[u] = serving[u]
    BY DEF BillingInv, BillingTypeOK
<1>2. BillingTypeOK'
    BY <1>1 DEF BillingInv, BillingTypeOK
<1>3. \A u \in Servers : serving'[u].op = "sync" => SyncPlaced(serving'[u])
    BY <1>1 DEF BillingInv, Tidings
<1>4. Tidings'
    BY <1>3, SameVersions DEF BillingInv, Tidings, synced, SyncPlaced, EventPlaced, Version,
                                  Writable, PlanOf
<1>5. LatestOnItsWay' /\ RowIsApplied'
    BY DEF BillingInv, LatestOnItsWay, RowIsApplied, synced, RowOf, PlanOf, MapStatus
<1> QED BY <1>2, <1>4, <1>5 DEF BillingInv

LEMMA StripeSteps ==
    ASSUME BillingInv, Pay \/ (\E n \in DOMAIN subs : StripeChanges(n))
    PROVE  BillingInv'
<1>1. /\ MaxChanges \in Nat /\ MaxSubs \in Nat /\ Len(subs) \in Nat
      /\ DOMAIN subs = 1 .. Len(subs) /\ subs \in Seq(Sub)
      /\ changes \in Nat
    BY BillingTypes DEF BillingInv, BillingTypeOK
<1>2. ASSUME changes < MaxChanges PROVE changes + 1 \in 1 .. MaxChanges
    BY <1>1, <1>2
<1>3. CASE Pay
  <2>1. /\ changes < MaxChanges /\ Len(subs) < MaxSubs
        /\ UNCHANGED <<subscription, serving, synced>>
      BY <1>3 DEF Pay
  <2>2. PICK price \in Tiers \cup {Unknown}, legible \in BOOLEAN,
             status \in {"incomplete", "trialing", "active"}, meta \in Tiers \cup {Unknown} :
            /\ subs' = Append(subs, [price |-> price, meta |-> meta, legible |-> legible,
                                     status |-> status, at |-> changes + 1])
            /\ Tells(Len(subs) + 1, [price |-> price, meta |-> meta, legible |-> legible,
                                     status |-> status, at |-> changes + 1], TRUE)
      BY <1>3 DEF Pay
  <2> DEFINE s == [price |-> price, meta |-> meta, legible |-> legible, status |-> status,
                   at |-> changes + 1]
             n == Len(subs) + 1
  <2>3. s \in Sub /\ s.at = changes + 1
      BY <1>2, <2>1 DEF Sub, StripeStatus
  <2>4. n \in 1 .. MaxSubs
      BY <1>1, <2>1
  <2>5. subs' = Append(subs, s) /\ Tells(n, s, TRUE)
      BY <2>2
  <2> HIDE DEF s
  <2>6. /\ subs' \in Seq(Sub) /\ Len(subs') = n /\ subs'[n] = s
        /\ \A m \in 1 .. Len(subs) : subs'[m] = subs[m]
      BY <1>1, <2>3, <2>5, AppendProperties
  <2>7. DOMAIN subs' = 1 .. n
      BY <2>6, LenProperties
  <2>8. 1 .. n = 1 .. Len(subs) \cup {n}
      BY <1>1
  <2>9. DOMAIN subs' = DOMAIN subs \cup {n} /\ \A m \in DOMAIN subs \ {n} : subs'[m] = subs[m]
      BY <1>1, <2>6, <2>7, <2>8
  <2> HIDE DEF n
  <2> QED BY <2>1, <2>3, <2>4, <2>5, <2>6, <2>9, TellsKeeps
<1>4. ASSUME NEW n \in DOMAIN subs, StripeChanges(n)
      PROVE  BillingInv'
  <2>1. changes < MaxChanges /\ UNCHANGED <<subscription, serving, synced>>
      BY <1>4 DEF StripeChanges
  <2>2. PICK status \in StripeStatus \ {"incomplete"}, price \in Tiers \cup {Unknown} :
            /\ subs' = [subs EXCEPT ![n] = [subs[n] EXCEPT !.status = status, !.price = price,
                                                           !.at = changes + 1]]
            /\ Tells(n, [subs[n] EXCEPT !.status = status, !.price = price,
                                        !.at = changes + 1],
                     status # subs[n].status /\ status \notin Ended)
      BY <1>4 DEF StripeChanges
  <2> DEFINE s == [subs[n] EXCEPT !.status = status, !.price = price, !.at = changes + 1]
             due == status # subs[n].status /\ status \notin Ended
  <2>3. subs[n] \in Sub
      BY BillingTypes
  <2>4. s \in Sub /\ s.at = changes + 1
      BY <1>2, <2>1, <2>3 DEF Sub
  <2>5. n \in 1 .. MaxSubs
      BY DEF BillingInv, Tidings
  <2>6. subs' = [subs EXCEPT ![n] = s] /\ Tells(n, s, due) /\ due \in BOOLEAN
      BY <2>2
  <2> HIDE DEF s, due
  <2>7. /\ DOMAIN subs' = DOMAIN subs /\ subs'[n] = s
        /\ \A m \in DOMAIN subs \ {n} : subs'[m] = subs[m]
      BY <2>6
  <2>8. subs' \in Seq(Sub)
      BY <1>1, <2>4, <2>6, ExceptSeq
  <2>9. DOMAIN subs' = DOMAIN subs \cup {n}
      BY <2>7
  <2> QED BY <2>1, <2>4, <2>5, <2>6, <2>7, <2>8, <2>9, TellsKeeps
<1> QED BY <1>3, <1>4

LEMMA WebhookSteps ==
    ASSUME BillingInv, NEW v \in Servers,
           (\E e \in events : Receive(v, e)) \/ Retrieve(v) \/ HandlerEnds(v)
    PROVE  BillingInv'
<1>1. BillingTypeOK /\ Tidings
    BY DEF BillingInv
<1>2. ASSUME NEW e \in events, Receive(v, e)
      PROVE  BillingInv'
  <2> DEFINE r == IF e.kind = "invoice"
                  THEN [op |-> "sync", event |-> e, is |-> Unknown, step |-> "retrieve"]
                  ELSE [op |-> "sync", event |-> e, is |-> e.was, step |-> "write"]
  <2>1. e \in Event /\ EventPlaced(e)
      BY <1>1 DEF BillingTypeOK, Tidings
  <2>2. e.kind # "invoice" => e.kind = "subscription" /\ e.was \in Sub
      BY <2>1 DEF Event, SubscriptionEvent, InvoiceEvent
  <2>3. r \in Sync
      BY <2>1, <2>2 DEF Sync
  <2>4. SyncPlaced(r)
      BY <2>1, <2>2 DEF SyncPlaced, EventPlaced
  <2>5. /\ serving' = [serving EXCEPT ![v] = r]
        /\ UNCHANGED <<subscription, subs, events, changes, latest, synced>>
      BY <1>2 DEF Receive
  <2> HIDE DEF r
  <2> QED BY <2>3, <2>4, <2>5, ServerSteps
<1>3. CASE Retrieve(v)
  <2>1. serving[v].op = "sync" /\ serving[v].step = "retrieve"
      BY <1>3 DEF Retrieve, At
  <2>2. serving[v] \in Sync /\ SyncPlaced(serving[v])
      BY <1>1, <2>1, BillingTypes DEF Tidings
  <2> DEFINE n == serving[v].event.sub
             r == [[serving[v] EXCEPT !.step = "write"] EXCEPT !.is = subs[n]]
  <2>3. n \in DOMAIN subs /\ serving[v].event.kind # "subscription"
      BY <2>1, <2>2 DEF SyncPlaced, EventPlaced
  <2>4. subs[n] \in Sub /\ Version(subs[n])
      BY <1>1, <2>3, BillingTypes DEF Tidings
  <2>5. r \in Sync
      BY <2>2, <2>4 DEF Sync
  <2>6. r.event = serving[v].event /\ r.step = "write" /\ r.is = subs[n]
      BY <2>2 DEF Sync
  <2>7. SyncPlaced(r)
      BY <2>2, <2>3, <2>4, <2>6 DEF SyncPlaced
  <2>8. /\ serving' = [serving EXCEPT ![v].step = "write", ![v].is = subs[n]]
        /\ UNCHANGED <<subscription, subs, events, changes, latest, synced>>
      BY <1>3 DEF Retrieve
  <2>9. serving' = [serving EXCEPT ![v] = r]
      BY <1>1, <2>8 DEF BillingTypeOK
  <2> HIDE DEF r
  <2> QED BY <2>5, <2>7, <2>8, <2>9, ServerSteps
<1>4. CASE HandlerEnds(v)
  <2>1. /\ serving' = [serving EXCEPT ![v] = Unoccupied] /\ Unoccupied.op # "sync"
        /\ UNCHANGED <<subscription, subs, events, changes, latest, synced>>
      BY <1>4 DEF HandlerEnds, Unoccupied
  <2> QED BY <2>1, ServerSteps
<1> QED BY <1>2, <1>3, <1>4

\* The handler has written the row, or passed the subscription over.
LEMMA AnsweredKeeps ==
    ASSUME BillingInv, NEW v \in Servers, At(v, "sync", "write"), Answered(v),
           NEW s, s = serving[v].is,
           \/ /\ Writable(s) /\ subscription' = RowOf(s)
              /\ applied' = IF s.at > applied THEN s.at ELSE applied
              /\ displaced' = (s.at < applied)
           \/ ~Writable(s) /\ UNCHANGED <<subscription, synced>>
    PROVE  BillingInv'
<1>1. BillingTypeOK /\ Tidings /\ LatestOnItsWay
    BY DEF BillingInv
<1>2. serving[v].op = "sync" /\ serving[v].step = "write"
    BY DEF At
<1>3. PICK r \in Sync : r = serving[v]
    BY <1>2, BillingTypes
<1>4. SyncPlaced(r) /\ r.step = "write"
    BY <1>1, <1>2, <1>3 DEF Tidings
<1>5. s = r.is /\ s \in Sub
    BY <1>3, <1>4 DEF SyncPlaced
<1>6. /\ Version(s) /\ s.at \in Nat /\ s.at > 0 /\ s.at <= changes
      /\ applied \in Nat /\ changes \in Nat /\ latest.at \in Nat /\ applied <= latest.at
    BY <1>1, <1>4, <1>5, BillingTypes DEF SyncPlaced, Version, Sub, Tidings
<1>7. /\ events' = events \ {r.event}
      /\ serving' = [serving EXCEPT ![v] = Unoccupied]
      /\ UNCHANGED <<subs, changes, latest>>
    BY <1>3 DEF Answered
<1>8. /\ serving' \in [Servers -> Sync \cup {Unoccupied}]
      /\ serving'[v] = Unoccupied /\ \A u \in Servers \ {v} : serving'[u] = serving[u]
    BY <1>1, <1>7 DEF BillingTypeOK
<1>9. BillingTypeOK'
  <2>1. CASE Writable(s)
    <3>1. subscription' \in [plan : Tiers, status : RowStatus]
        BY <1>5, <2>1, RowTypes
    <3> QED BY <1>1, <1>7, <1>8, <3>1 DEF BillingTypeOK
  <2>2. CASE ~Writable(s)
      BY <1>1, <1>7, <1>8, <2>2 DEF BillingTypeOK
  <2> QED BY <2>1, <2>2
<1>10. applied' \in 0 .. latest'.at
  <2>1. CASE Writable(s)
    <3>1. s.at <= latest.at
        BY <1>6, <2>1 DEF Version
    <3> QED BY <1>6, <1>7, <2>1, <3>1
  <2>2. CASE ~Writable(s)
      BY <1>6, <1>7, <2>2 DEF synced
  <2> QED BY <2>1, <2>2
<1>11. Tidings'
  <2>1. \A u \in Servers : serving'[u].op = "sync" => SyncPlaced(serving'[u])
      BY <1>1, <1>8 DEF Tidings, Unoccupied
  <2>2. \A e \in events' : EventPlaced(e)
      BY <1>1, <1>7 DEF Tidings
  <2>3. /\ changes \in 0 .. MaxChanges /\ latest.at <= changes
        /\ latest.at > 0 => Writable(latest)
        /\ DOMAIN subs \subseteq 1 .. MaxSubs
        /\ \A n \in DOMAIN subs : Version(subs[n])
      BY <1>1 DEF Tidings
  <2>4. UNCHANGED <<subs, changes, latest>>
      BY <1>7
  <2>5. /\ \A u \in Servers : serving'[u].op = "sync" => SyncPlaced(serving[u])'
        /\ \A e \in events' : EventPlaced(e)'
        /\ \A n \in DOMAIN subs : Version(subs[n])'
      BY <2>1, <2>2, <2>3, <2>4 DEF SyncPlaced, EventPlaced, Version, Writable, PlanOf
  <2>6. (latest.at > 0 => Writable(latest))'
      BY <2>3, <2>4 DEF Writable, PlanOf
  <2> QED BY <1>10, <2>3, <2>4, <2>5, <2>6 DEF Tidings
\* The event of the latest change is answered by writing it.
<1>12. LatestOnItsWay'
  <2>1. CASE applied = latest.at
    <3>1. Writable(s) => s.at <= latest.at
        BY <1>6 DEF Version
    <3>2. applied' = applied
        BY <1>6, <2>1, <3>1 DEF synced
    <3> QED BY <1>7, <2>1, <3>2 DEF LatestOnItsWay
  <2>2. CASE applied # latest.at
    <3>1. PICK e \in events : e.kind = "subscription" /\ e.was = latest
        BY <1>1, <2>2 DEF LatestOnItsWay
    <3>2. CASE e = r.event
      <4>1. s = latest
          BY <1>4, <1>5, <3>1, <3>2 DEF SyncPlaced
      <4>2. Writable(s)
          BY <1>1, <1>6, <4>1 DEF Tidings
      <4>3. applied' = latest.at
          BY <1>6, <4>1, <4>2
      <4> QED BY <1>7, <4>3 DEF LatestOnItsWay
    <3>3. CASE e # r.event
        BY <1>7, <3>1, <3>3 DEF LatestOnItsWay
    <3> QED BY <3>2, <3>3
  <2> QED BY <2>1, <2>2
<1>13. RowIsApplied'
  <2>1. CASE Writable(s)
    <3> SUFFICES ASSUME ~displaced', applied' = latest.at
                 PROVE  subscription' = RowOf(latest)
        BY <1>7 DEF RowIsApplied, RowOf, PlanOf, MapStatus
    <3>1. subscription' = RowOf(s) /\ (applied' = IF s.at > applied THEN s.at ELSE applied)
          /\ ~(s.at < applied)
        BY <2>1
    <3>2. applied' = s.at
        BY <1>6, <3>1
    <3>3. s = latest
        BY <1>6, <2>1, <3>2 DEF Version
    <3> QED BY <3>1, <3>3
  <2>2. CASE ~Writable(s)
      BY <1>7, <2>2 DEF BillingInv, RowIsApplied, synced, RowOf, PlanOf, MapStatus
  <2> QED BY <2>1, <2>2
<1> QED BY <1>9, <1>11, <1>12, <1>13 DEF BillingInv

LEMMA SyncsKeep ==
    ASSUME BillingInv, NEW v \in Servers, Upsert(v) \/ PassOver(v)
    PROVE  BillingInv'
<1>1. PICK s : s = serving[v].is
    OBVIOUS
<1>2. At(v, "sync", "write") /\ Answered(v)
    BY DEF Upsert, PassOver
<1>3. CASE Upsert(v)
  <2>1. /\ Writable(s) /\ subscription' = RowOf(s)
        /\ applied' = IF s.at > applied THEN s.at ELSE applied
        /\ displaced' = (s.at < applied)
      BY <1>1, <1>3 DEF Upsert, RowOf
  <2> QED BY <1>1, <1>2, <2>1, AnsweredKeeps
<1>4. CASE PassOver(v)
  <2>1. ~Writable(s) /\ UNCHANGED <<subscription, synced>>
      BY <1>1, <1>4 DEF PassOver
  <2> QED BY <1>1, <1>2, <2>1, AnsweredKeeps
<1> QED BY <1>3, <1>4

\* The webhook's row, once every event is answered and none was applied late, tells
\* Stripe's last change that a sync can write, whatever order the events came in and
\* however often, and whatever was passed over in between.
THEOREM RowsFollowStripe == BillingSpec => [](BillingTypeOK /\ RowFollowsStripe)
<1>1. BillingInit => BillingInv
  <2> SUFFICES ASSUME BillingInit PROVE BillingInv
      OBVIOUS
  <2>1. BillingTypeOK
      BY DEF BillingInit, BillingTypeOK, RowStatus
  <2>2. /\ DOMAIN subs = {} /\ changes = 0 /\ applied = 0 /\ events = {}
        /\ latest = NoChange /\ latest.at = 0
      BY DEF BillingInit, NoChange
  <2>3. \A v \in Servers : serving[v].op # "sync"
      BY DEF BillingInit, Unoccupied
  <2>4. changes \in 0 .. MaxChanges /\ applied \in 0 .. latest.at /\ latest.at <= changes
      BY <2>2, BillingAssumption
  <2> QED BY <2>1, <2>2, <2>3, <2>4
          DEF BillingInv, Tidings, LatestOnItsWay, RowIsApplied
<1>2. BillingInv /\ [BillingNext]_billingVars => BillingInv'
  <2> SUFFICES ASSUME BillingInv, [BillingNext]_billingVars PROVE BillingInv'
      OBVIOUS
  <2>1. CASE ChangeSubscription
    <3>1. /\ subscription' \in [plan : Tiers, status : RowStatus] /\ overridden'
          /\ UNCHANGED <<serving, subs, events, changes, latest, applied>>
        BY <2>1 DEF ChangeSubscription
    <3>2. BillingTypeOK' /\ LatestOnItsWay' /\ RowIsApplied'
        BY <3>1 DEF BillingInv, BillingTypeOK, LatestOnItsWay, RowIsApplied
    <3>3. Tidings'
        BY <3>1 DEF BillingInv, Tidings, SyncPlaced, EventPlaced, Version, Writable, PlanOf
    <3> QED BY <3>2, <3>3 DEF BillingInv
  <2>2. CASE UNCHANGED billingVars
    <3>1. UNCHANGED <<subscription, serving, subs, events, changes, latest, applied,
                      displaced, overridden>>
        BY <2>2 DEF billingVars
    <3>2. BillingTypeOK' /\ LatestOnItsWay' /\ RowIsApplied'
        BY <3>1 DEF BillingInv, BillingTypeOK, LatestOnItsWay, RowIsApplied, RowOf, PlanOf,
                    MapStatus
    <3>3. Tidings'
        BY <3>1 DEF BillingInv, Tidings, SyncPlaced, EventPlaced, Version, Writable, PlanOf
    <3> QED BY <3>2, <3>3 DEF BillingInv
  <2> QED BY <2>1, <2>2, StripeSteps, WebhookSteps, SyncsKeep DEF BillingNext
<1>3. BillingInv => BillingTypeOK /\ RowFollowsStripe
  <2> SUFFICES ASSUME BillingInv, Settled
               PROVE  BillingTypeOK /\ latest.at > 0 /\ latest \in Sub /\ Writable(latest)
                      /\ subscription = RowOf(latest)
      BY RowTypes DEF RowFollowsStripe, BillingInv
  <2>1. latest \in Sub
      BY DEF BillingInv, BillingTypeOK, Settled
  <2>2. latest.at > 0
      BY <2>1, BillingAssumption DEF Sub
  <2>3. applied = latest.at
      BY DEF BillingInv, LatestOnItsWay, Settled
  <2>4. Writable(latest) /\ subscription = RowOf(latest)
      BY <2>2, <2>3 DEF BillingInv, RowIsApplied, Tidings, Settled
  <2> QED BY <2>1, <2>2, <2>4 DEF BillingInv
<1> QED BY <1>1, <1>2, <1>3, PTL DEF BillingSpec

-----------------------------------------------------------------------------
(* Team.                                                                   *)

RequestTypes == InviteRequest \cup AcceptRequest \cup AccountRequest \cup StoreRequest \cup {Idle}

\* What a request has checked is still so when it writes, the counts apart.
Checked(q) ==
    /\ q.op \in {"invite", "create"} => q \in InviteRequest /\ q.counted < q.limit
    /\ q.op = "accept" => q \in AcceptRequest /\ q.invite \in DOMAIN invites
    /\ q.op \in {"roles", "status"} => q \in AccountRequest /\ user[q.user] \in Account
    /\ q.op = "status" => q.actor # q.user
    /\ q.op = "store" => q \in StoreRequest /\ q.counted < q.limit

RequestsChecked == \A r \in Requests : Checked(request[r])

TeamInv ==
    /\ TeamTypeOK
    /\ IsFiniteSet(Active)
    /\ Len(invites) <= MaxInvites
    /\ RequestsChecked
    /\ SeatsWithinPlan
    /\ StoresWithinPlan
    /\ LastAdminGoesBy

LEMMA TeamTypes ==
    ASSUME TeamTypeOK
    PROVE  /\ MaxInvites \in Nat /\ limits.seats \in Nat /\ limits.seats > 0 /\ limits.stores \in Nat
           /\ limits.stores > 0 /\ MaxActs \in Nat
           /\ Len(invites) \in Nat /\ DOMAIN invites = 1 .. Len(invites)
           /\ Len(branches) \in Nat /\ DOMAIN branches = 1 .. Len(branches)
           /\ \A p \in People : user[p] \in Account \cup {NoAccount}
           /\ IsFiniteSet(Open)
<1>1. invites \in Seq(Invitation) /\ branches \in Seq({"open", "closed"})
    BY DEF TeamTypeOK
<1>2. /\ Len(invites) \in Nat /\ DOMAIN invites = 1 .. Len(invites)
      /\ Len(branches) \in Nat /\ DOMAIN branches = 1 .. Len(branches)
    BY <1>1, LenProperties
<1>3. IsFiniteSet(1 .. Len(branches))
    BY <1>2, FS_Interval
<1>4. Open \subseteq 1 .. Len(branches)
    BY <1>2 DEF Open
<1>5. IsFiniteSet(Open)
    BY <1>3, <1>4, FS_Subset
<1>6. /\ MaxInvites \in Nat /\ limits.seats \in Nat \ {0} /\ limits.stores \in Nat \ {0}
      /\ MaxActs \in Nat
    BY TeamAssumption DEF TeamTypeOK
<1>7. \A p \in People : user[p] \in Account \cup {NoAccount}
    BY DEF TeamTypeOK
<1> QED BY <1>2, <1>5, <1>6, <1>7

\* The write of one account, which is switched on or off by it.
LEMMA AccountWritten ==
    ASSUME TeamTypeOK, IsFiniteSet(Active), NEW p \in People, NEW a \in Account,
           user' = [user EXCEPT ![p] = a]
    PROVE  /\ user' \in [People -> Account \cup {NoAccount}] /\ user'[p] = a
           /\ \A q \in People \ {p} : user'[q] = user[q]
           /\ a.active => Active' = Active \cup {p}
           /\ ~a.active => Active' = Active \ {p}
           /\ IsFiniteSet(Active')
           /\ HqAdmins \ {p} \subseteq HqAdmins'
           /\ a.active /\ a.hq => p \in HqAdmins'
<1>1. /\ user' \in [People -> Account \cup {NoAccount}] /\ user'[p] = a
      /\ \A q \in People \ {p} : user'[q] = user[q]
    BY DEF TeamTypeOK
<1>2. a.active => Active' = Active \cup {p}
    BY <1>1 DEF Active
<1>3. ~a.active => Active' = Active \ {p}
    BY <1>1 DEF Active
<1>4. IsFiniteSet(Active \cup {p}) /\ IsFiniteSet(Active \ {p})
    BY FS_AddElement, FS_RemoveElement
<1>5. HqAdmins \ {p} \subseteq HqAdmins'
    BY <1>1 DEF HqAdmins, Active
<1>6. a.active /\ a.hq => p \in HqAdmins'
    BY <1>1 DEF HqAdmins, Active
<1> QED BY <1>1, <1>2, <1>3, <1>4, <1>5, <1>6

\* A set that grows by one element at most, with the elements that are not counted.
LEMMA WithinLimit ==
    ASSUME NEW S, NEW out, NEW T, NEW outside, NEW x, NEW limit \in Nat,
           IsFiniteSet(S), Cardinality(S \ out) <= limit,
           \/ T \ outside \subseteq S \ out
           \/ T = S \cup {x} /\ Cardinality(S) < limit
    PROVE  Cardinality(T \ outside) <= limit
<1>1. CASE T \ outside \subseteq S \ out
  <2>1. IsFiniteSet(S \ out)
      BY FS_Subset
  <2>2. Cardinality(T \ outside) <= Cardinality(S \ out)
        /\ IsFiniteSet(T \ outside)
      BY <1>1, <2>1, FS_Subset
  <2>3. Cardinality(T \ outside) \in Nat /\ Cardinality(S \ out) \in Nat
      BY <2>1, <2>2, FS_CardinalityType
  <2> QED BY <2>2, <2>3
<1>2. CASE T = S \cup {x} /\ Cardinality(S) < limit
  <2>1. /\ IsFiniteSet(S \cup {x})
        /\ Cardinality(S \cup {x}) = IF x \in S THEN Cardinality(S) ELSE Cardinality(S) + 1
      BY FS_AddElement
  <2>2. IsFiniteSet(T) /\ Cardinality(T) <= limit /\ Cardinality(T) \in Nat
      BY <1>2, <2>1, FS_CardinalityType
  <2>3. T \ outside \subseteq T
      OBVIOUS
  <2>4. Cardinality(T \ outside) <= Cardinality(T) /\ IsFiniteSet(T \ outside)
      BY <2>2, <2>3, FS_Subset
  <2>5. Cardinality(T \ outside) \in Nat
      BY <2>4, FS_CardinalityType
  <2> QED BY <2>2, <2>4, <2>5
<1> QED BY <1>1, <1>2

\* What was checked of an account or an invitation cannot be undone.
LEMMA StillChecked ==
    ASSUME TeamInv, NEW r \in Requests, NEW what \in RequestTypes,
           request' = [request EXCEPT ![r] = what], Checked(what)',
           DOMAIN invites \subseteq DOMAIN invites',
           \A p \in People : user[p] \in Account => user'[p] \in Account
    PROVE  /\ request' \in [Requests -> RequestTypes]
           /\ RequestsChecked'
<1>1. /\ request' \in [Requests -> RequestTypes]
      /\ request'[r] = what /\ \A q \in Requests \ {r} : request'[q] = request[q]
    BY DEF TeamInv, TeamTypeOK, RequestTypes
<1>2. ASSUME NEW w, Checked(w) PROVE Checked(w)'
    BY <1>2 DEF Checked, AccountRequest
<1>3. ASSUME NEW q \in Requests PROVE Checked(request[q])'
  <2>1. CASE q = r
      BY <1>1, <2>1 DEF Checked
  <2>2. CASE q # r
    <3>1. PICK w : w = request[q]
        OBVIOUS
    <3>2. Checked(w)' /\ request'[q] = w
        BY <1>1, <1>2, <2>2, <3>1 DEF TeamInv, RequestsChecked
    <3> QED BY <3>2 DEF Checked
  <2> QED BY <2>1, <2>2
<1> QED BY <1>1, <1>3 DEF RequestsChecked

LEMMA StartsKeeps ==
    ASSUME TeamInv, NEW r \in Requests, NEW what \in RequestTypes, Checked(what),
           Starts(r, what), UNCHANGED <<limits, user, invites, branches, crowd, extra, farewell>>
    PROVE  TeamInv'
<1>1. request' = [request EXCEPT ![r] = what] /\ acts' = acts + 1 /\ acts < MaxActs
    BY DEF Starts
<1>2. Checked(what)'
    BY DEF Checked
<1>3. \A p \in People : user[p] \in Account => user'[p] \in Account
    OBVIOUS
<1>4. request' \in [Requests -> RequestTypes] /\ RequestsChecked'
    BY <1>1, <1>2, <1>3, StillChecked
<1>5. acts' \in 0 .. MaxActs
  <2>1. acts \in 0 .. MaxActs /\ MaxActs \in Nat
      BY TeamTypes DEF TeamInv, TeamTypeOK
  <2> QED BY <1>1, <2>1
<1>6. TeamTypeOK'
    BY <1>4, <1>5 DEF TeamInv, TeamTypeOK, RequestTypes
<1> QED BY <1>4, <1>6 DEF TeamInv, SeatsWithinPlan, StoresWithinPlan, LastAdminGoesBy,
                          Active, HqAdmins, Open

LEMMA StartersKeep ==
    ASSUME TeamInv, NEW r \in Requests, NEW actor \in People, NEW p \in People
    PROVE  /\ \A hq \in BOOLEAN, op \in {"invite", "create"} :
                  Invite(r, actor, p, hq, op) => TeamInv'
           /\ UpdateRoles(r, actor, p) => TeamInv'
           /\ UpdateStatus(r, actor, p) => TeamInv'
           /\ \A i \in DOMAIN invites : Accept(r, i) => TeamInv'
           /\ CreateStore(r) => TeamInv'
<1>1. ASSUME NEW hq \in BOOLEAN, NEW op \in {"invite", "create"}, Invite(r, actor, p, hq, op)
      PROVE  TeamInv'
  <2> DEFINE q == [op |-> op, email |-> p, hq |-> hq,
                   counted |-> Cardinality(Active), limit |-> limits.seats]
  <2>1. Cardinality(Active) \in Nat /\ limits.seats \in Nat
      BY FS_CardinalityType, TeamTypes DEF TeamInv
  <2>2. q \in InviteRequest /\ q.counted = Cardinality(Active) /\ q.limit = limits.seats
        /\ q.op = op
      BY <2>1 DEF InviteRequest
  <2>3. /\ Cardinality(Active) < limits.seats /\ Starts(r, q)
        /\ UNCHANGED <<limits, user, invites, branches, crowd, extra, farewell>>
      BY <1>1 DEF Invite, Room
  <2> HIDE DEF q
  <2>4. Checked(q) /\ q \in RequestTypes
      BY <2>2, <2>3 DEF Checked, RequestTypes
  <2> QED BY <2>3, <2>4, StartsKeeps
<1>2. ASSUME UpdateRoles(r, actor, p) PROVE TeamInv'
  <2>1. PICK hq \in BOOLEAN, manages \in BOOLEAN :
            Starts(r, [op |-> "roles", actor |-> actor, user |-> p,
                       to |-> [active |-> TRUE, hq |-> hq, manages |-> manages]])
      BY <1>2 DEF UpdateRoles
  <2> DEFINE q == [op |-> "roles", actor |-> actor, user |-> p,
                   to |-> [active |-> TRUE, hq |-> hq, manages |-> manages]]
  <2>2. /\ Exists(p) /\ Starts(r, q)
        /\ UNCHANGED <<limits, user, invites, branches, crowd, extra, farewell>>
      BY <1>2, <2>1 DEF UpdateRoles
  <2>3. user[p] \in Account
      BY <2>2, TeamTypes DEF TeamInv, Exists
  <2>4. q \in AccountRequest /\ q.op = "roles" /\ q.user = p
      BY DEF AccountRequest, Account
  <2> HIDE DEF q
  <2>5. Checked(q) /\ q \in RequestTypes
      BY <2>3, <2>4 DEF Checked, RequestTypes
  <2> QED BY <2>2, <2>5, StartsKeeps
<1>3. ASSUME UpdateStatus(r, actor, p) PROVE TeamInv'
  <2>1. PICK active \in BOOLEAN :
            Starts(r, [op |-> "status", actor |-> actor, user |-> p,
                       to |-> [active |-> active, hq |-> FALSE, manages |-> FALSE]])
      BY <1>3 DEF UpdateStatus
  <2> DEFINE q == [op |-> "status", actor |-> actor, user |-> p,
                   to |-> [active |-> active, hq |-> FALSE, manages |-> FALSE]]
  <2>2. /\ actor # p /\ Exists(p) /\ Starts(r, q)
        /\ UNCHANGED <<limits, user, invites, branches, crowd, extra, farewell>>
      BY <1>3, <2>1 DEF UpdateStatus, NotOwn
  <2>3. user[p] \in Account
      BY <2>2, TeamTypes DEF TeamInv, Exists
  <2>4. q \in AccountRequest /\ q.op = "status" /\ q.user = p /\ q.actor = actor
      BY DEF AccountRequest, Account
  <2> HIDE DEF q
  <2>5. Checked(q) /\ q \in RequestTypes
      BY <2>2, <2>3, <2>4 DEF Checked, RequestTypes
  <2> QED BY <2>2, <2>5, StartsKeeps
<1>4. ASSUME NEW i \in DOMAIN invites, Accept(r, i) PROVE TeamInv'
  <2> DEFINE q == [op |-> "accept", invite |-> i]
  <2>1. Starts(r, q) /\ UNCHANGED <<limits, user, invites, branches, crowd, extra, farewell>>
      BY <1>4 DEF Accept
  <2>2. i \in 1 .. MaxInvites
    <3>1. /\ DOMAIN invites = 1 .. Len(invites) /\ Len(invites) <= MaxInvites
          /\ Len(invites) \in Nat /\ MaxInvites \in Nat
        BY TeamTypes DEF TeamInv
    <3> QED BY <3>1
  <2>3. q \in AcceptRequest /\ q.op = "accept" /\ q.invite = i
      BY <2>2 DEF AcceptRequest
  <2> HIDE DEF q
  <2>4. Checked(q) /\ q \in RequestTypes
      BY <2>3 DEF Checked, RequestTypes
  <2> QED BY <2>1, <2>4, StartsKeeps
<1>5. ASSUME CreateStore(r) PROVE TeamInv'
  <2> DEFINE q == [op |-> "store", counted |-> Cardinality(Open), limit |-> limits.stores]
  <2>1. Cardinality(Open) \in Nat /\ limits.stores \in Nat
      BY TeamTypes, FS_CardinalityType DEF TeamInv
  <2>2. /\ Cardinality(Open) < limits.stores /\ Starts(r, q)
        /\ UNCHANGED <<limits, user, invites, branches, crowd, extra, farewell>>
      BY <1>5 DEF CreateStore, Room
  <2>3. q \in StoreRequest /\ q.op = "store" /\ q.counted = Cardinality(Open)
        /\ q.limit = limits.stores
      BY <2>1 DEF StoreRequest
  <2> HIDE DEF q
  <2>4. Checked(q) /\ q \in RequestTypes
      BY <2>2, <2>3 DEF Checked, RequestTypes
  <2> QED BY <2>2, <2>4, StartsKeeps
<1> QED BY <1>1, <1>2, <1>3, <1>4, <1>5

\* A request that writes ends with it.
LEMMA EndsKeeps ==
    ASSUME TeamInv, NEW r \in Requests, Ends(r), DOMAIN invites \subseteq DOMAIN invites',
           \A p \in People : user[p] \in Account => user'[p] \in Account
    PROVE  request' \in [Requests -> RequestTypes] /\ RequestsChecked'
<1>1. request' = [request EXCEPT ![r] = Idle] /\ Idle \in RequestTypes
    BY DEF Ends, RequestTypes
<1>2. Checked(Idle)'
    BY DEF Checked, Idle
<1> QED BY <1>1, <1>2, StillChecked

\* One account is written, the seats counted.
LEMMA AccountKeeps ==
    ASSUME TeamInv, NEW r \in Requests, Ends(r), NEW p \in People, NEW a \in Account,
           user' = [user EXCEPT ![p] = a],
           invites' \in Seq(Invitation), Len(invites') = Len(invites),
           UNCHANGED <<limits, branches, acts, extra>>, crowd' \subseteq People,
           \/ Active' \ crowd' \subseteq Active \ crowd
           \/ Active' = Active \cup {p} /\ Cardinality(Active) < limits.seats,
           farewell' \in {"none", "own hand", "crossed", "manager"},
           HqAdmins' = {} => farewell' # "none"
    PROVE  TeamInv'
<1>1. user' \in [People -> Account \cup {NoAccount}] /\ IsFiniteSet(Active')
    BY AccountWritten DEF TeamInv
<1>2. \A q \in People : user[q] \in Account => user'[q] \in Account
  <2>1. \A q \in People : user'[q] = IF q = p THEN a ELSE user[q]
      BY AccountWritten DEF TeamInv
  <2> QED BY <2>1
<1>3. DOMAIN invites' = DOMAIN invites
    BY TeamTypes, LenProperties DEF TeamInv
<1>4. request' \in [Requests -> RequestTypes] /\ RequestsChecked'
    BY <1>2, <1>3, EndsKeeps
<1>5. TeamTypeOK'
    BY <1>1, <1>4 DEF TeamInv, TeamTypeOK, RequestTypes
<1>6. SeatsWithinPlan'
  <2>1. PICK seats : seats = limits.seats
      OBVIOUS
  <2>2. /\ IsFiniteSet(Active) /\ seats \in Nat /\ Cardinality(Active \ crowd) <= seats
        /\ limits'.seats = seats
      BY <2>1, TeamTypes DEF TeamInv, SeatsWithinPlan
  <2>3. \/ Active' \ crowd' \subseteq Active \ crowd
        \/ Active' = Active \cup {p} /\ Cardinality(Active) < seats
      BY <2>1
  <2>4. PICK S, out, T, outside : S = Active /\ out = crowd /\ T = Active' /\ outside = crowd'
      OBVIOUS
  <2>5. /\ IsFiniteSet(S) /\ Cardinality(S \ out) <= seats /\ seats \in Nat
        /\ \/ T \ outside \subseteq S \ out
           \/ T = S \cup {p} /\ Cardinality(S) < seats
      BY <2>2, <2>3, <2>4
  <2>6. Cardinality(T \ outside) <= seats
      BY <2>5, WithinLimit
  <2> QED BY <2>2, <2>4, <2>6 DEF SeatsWithinPlan
<1>7. StoresWithinPlan'
    BY DEF TeamInv, StoresWithinPlan, Open
<1>8. Len(invites') <= MaxInvites
    BY DEF TeamInv
<1>9. LastAdminGoesBy'
    BY DEF LastAdminGoesBy
<1> QED BY <1>1, <1>4, <1>5, <1>6, <1>7, <1>8, <1>9 DEF TeamInv

\* An address that has no account gets one.
LEMMA NewAccountKeeps ==
    ASSUME TeamInv, NEW r \in Requests, Ends(r), NEW p \in People, NEW hq \in BOOLEAN,
           ~Exists(p), NewAccount(p, hq), NEW full \in BOOLEAN,
           ~full => Cardinality(Active) < limits.seats, crowd' = IF full THEN crowd \cup {p} ELSE crowd,
           invites' \in Seq(Invitation), Len(invites') = Len(invites),
           UNCHANGED <<limits, branches, acts, extra, farewell>>
    PROVE  TeamInv'
<1>1. PICK manages \in BOOLEAN :
          user' = [user EXCEPT ![p] = [active |-> TRUE, hq |-> hq, manages |-> manages]]
    BY DEF NewAccount
<1> DEFINE a == [active |-> TRUE, hq |-> hq, manages |-> manages]
<1>2. a \in Account /\ a.active /\ user' = [user EXCEPT ![p] = a]
    BY <1>1 DEF Account
<1> HIDE DEF a
<1>3. /\ Active' = Active \cup {p} /\ HqAdmins \ {p} \subseteq HqAdmins'
      /\ IsFiniteSet(Active)
    BY <1>2, AccountWritten DEF TeamInv
<1>4. p \notin Active
    BY DEF Active, Exists, NoAccount
<1>5. HqAdmins \subseteq HqAdmins'
    BY <1>3, <1>4 DEF HqAdmins
<1>6. Cardinality(Active) \in Nat /\ limits.seats \in Nat
    BY <1>3, FS_CardinalityType, TeamTypes DEF TeamInv
<1>7. \/ Active' \ crowd' \subseteq Active \ crowd
      \/ Active' = Active \cup {p} /\ Cardinality(Active) < limits.seats
  <2>1. CASE full
    <3>1. crowd' = crowd \cup {p}
        BY <2>1
    <3> QED BY <1>3, <3>1
  <2>2. CASE ~full
      BY <1>3, <1>6, <2>2
  <2> QED BY <2>1, <2>2
<1>8. crowd' \subseteq People
    BY DEF TeamInv, TeamTypeOK
<1>9. /\ farewell' \in {"none", "own hand", "crossed", "manager"}
      /\ HqAdmins' = {} => farewell' # "none"
    BY <1>5 DEF TeamInv, TeamTypeOK, LastAdminGoesBy
<1> QED BY <1>2, <1>7, <1>8, <1>9, AccountKeeps

LEMMA InvitationsKeep ==
    ASSUME TeamInv, NEW r \in Requests, WriteInvitation(r) \/ CreateDirectly(r) \/ Join(r)
    PROVE  TeamInv'
<1>1. TeamTypeOK /\ Checked(request[r]) /\ IsFiniteSet(Active)
    BY DEF TeamInv, RequestsChecked
<1>2. Cardinality(Active) \in Nat /\ limits.seats \in Nat
    BY <1>1, FS_CardinalityType, TeamTypes
\* Nothing but an invitation is written.
<1>3. ASSUME Ends(r), invites' \in Seq(Invitation), DOMAIN invites \subseteq DOMAIN invites',
             Len(invites') <= MaxInvites, UNCHANGED <<limits, user, branches, acts, crowd, extra, farewell>>
      PROVE  TeamInv'
  <2>1. request' \in [Requests -> RequestTypes] /\ RequestsChecked'
      BY <1>3, EndsKeeps
  <2>2. TeamTypeOK'
      BY <1>1, <1>3, <2>1 DEF TeamTypeOK, RequestTypes
  <2> QED BY <1>3, <2>1, <2>2 DEF TeamInv, SeatsWithinPlan, StoresWithinPlan, LastAdminGoesBy,
                                  Active, HqAdmins, Open
<1>4. CASE WriteInvitation(r)
  <2> DEFINE i == [email |-> request[r].email, hq |-> request[r].hq, status |-> "pending"]
  <2>1. /\ request[r].op = "invite" /\ Len(invites) < MaxInvites
        /\ invites' = Append(invites, i) /\ Ends(r)
        /\ UNCHANGED <<limits, user, branches, acts, crowd, extra, farewell>>
      BY <1>4 DEF WriteInvitation
  <2>2. request[r] \in InviteRequest
      BY <1>1, <2>1 DEF Checked
  <2>3. i \in Invitation
      BY <2>2 DEF InviteRequest, Invitation
  <2> HIDE DEF i
  <2>4. invites \in Seq(Invitation)
      BY <1>1 DEF TeamTypeOK
  <2>5. invites' \in Seq(Invitation) /\ Len(invites') = Len(invites) + 1
      BY <2>1, <2>3, <2>4, AppendProperties
  <2>6. Len(invites) \in Nat /\ MaxInvites \in Nat
      BY <1>1, TeamTypes
  <2>7. Len(invites') <= MaxInvites
      BY <2>1, <2>5, <2>6
  <2>8. DOMAIN invites = 1 .. Len(invites) /\ DOMAIN invites' = 1 .. Len(invites')
      BY <2>4, <2>5, LenProperties
  <2>9. DOMAIN invites \subseteq DOMAIN invites'
      BY <2>5, <2>6, <2>8
  <2> QED BY <1>3, <2>1, <2>5, <2>7, <2>9
<1>5. ASSUME Ends(r), UNCHANGED <<limits, user, invites, branches, acts, crowd, extra, farewell>>
      PROVE  TeamInv'
  <2>1. invites' \in Seq(Invitation) /\ Len(invites') <= MaxInvites
      BY <1>1, <1>5 DEF TeamInv, TeamTypeOK
  <2> QED BY <1>3, <1>5, <2>1
<1>6. CASE CreateDirectly(r)
  <2>1. /\ request[r].op = "create" /\ Ends(r)
        /\ UNCHANGED <<limits, invites, branches, acts, extra, farewell>>
      BY <1>6 DEF CreateDirectly
  <2>2. PICK q : q = request[r]
      OBVIOUS
  <2>3. /\ q.email \in People /\ q.hq \in BOOLEAN /\ q.counted \in Nat /\ q.limit \in Nat
        /\ q.counted < q.limit
      BY <1>1, <2>1, <2>2 DEF Checked, InviteRequest
  <2>4. CASE Exists(q.email)
    <3>1. UNCHANGED <<user, crowd>>
        BY <1>6, <2>2, <2>4 DEF CreateDirectly
    <3> QED BY <1>5, <2>1, <3>1
  <2>5. CASE ~Exists(q.email)
    <3> DEFINE full == Overtaken(q, Cardinality(Active), limits.seats)
    <3>1. /\ NewAccount(q.email, q.hq)
          /\ crowd' = IF full THEN crowd \cup {q.email} ELSE crowd
        BY <1>6, <2>2, <2>5 DEF CreateDirectly
    <3>2. full \in BOOLEAN /\ (~full => Cardinality(Active) < limits.seats)
        BY <1>2, <2>3 DEF Overtaken
    <3>3. invites' \in Seq(Invitation) /\ Len(invites') = Len(invites)
        BY <1>1, <2>1 DEF TeamTypeOK
    <3> HIDE DEF full
    <3> QED BY <2>1, <2>3, <2>5, <3>1, <3>2, <3>3, NewAccountKeeps
  <2> QED BY <2>4, <2>5
<1>7. CASE Join(r)
  <2>1. /\ request[r].op = "accept" /\ Ends(r)
        /\ UNCHANGED <<limits, branches, acts, extra, farewell>>
      BY <1>7 DEF Join
  <2>2. PICK i : i = request[r].invite
      OBVIOUS
  <2>3. i \in DOMAIN invites /\ invites \in Seq(Invitation) /\ DOMAIN invites = 1 .. Len(invites)
      BY <1>1, <2>1, <2>2, TeamTypes DEF Checked, TeamTypeOK
  <2>4. invites[i] \in Invitation
      BY <2>3
  <2>5. PICK p, hq : p = invites[i].email /\ hq = invites[i].hq
      OBVIOUS
  <2>6. p \in People /\ hq \in BOOLEAN
      BY <2>4, <2>5 DEF Invitation
  <2>7. CASE Exists(p)
    <3>1. UNCHANGED <<user, invites, crowd>>
        BY <1>7, <2>2, <2>5, <2>7 DEF Join
    <3> QED BY <1>5, <2>1, <3>1
  <2>8. CASE ~Exists(p)
    <3> DEFINE accepted == [invites[i] EXCEPT !.status = "accepted"]
    <3>1. /\ NewAccount(p, hq)
          /\ invites' = [invites EXCEPT ![i].status = "accepted"]
          /\ crowd' = IF Cardinality(Active) >= limits.seats THEN crowd \cup {p} ELSE crowd
        BY <1>7, <2>2, <2>5, <2>8 DEF Join
    <3>2. accepted \in Invitation
        BY <2>4 DEF Invitation
    <3>3. invites' = [invites EXCEPT ![i] = accepted]
        BY <3>1
    <3> HIDE DEF accepted
    <3>4. invites' \in Seq(Invitation) /\ Len(invites') = Len(invites)
        BY <2>3, <3>2, <3>3, ExceptSeq
    <3> DEFINE full == Cardinality(Active) >= limits.seats
    <3>5. full \in BOOLEAN /\ (~full => Cardinality(Active) < limits.seats)
          /\ crowd' = IF full THEN crowd \cup {p} ELSE crowd
        BY <1>2, <3>1
    <3> HIDE DEF full
    <3> QED BY <2>1, <2>6, <2>8, <3>1, <3>4, <3>5, NewAccountKeeps
  <2> QED BY <2>7, <2>8
<1> QED BY <1>4, <1>6, <1>7

LEMMA AccountsKeep ==
    ASSUME TeamInv, NEW r \in Requests, WriteAccount(r)
    PROVE  TeamInv'
<1>1. TeamTypeOK /\ Checked(request[r]) /\ IsFiniteSet(Active)
    BY DEF TeamInv, RequestsChecked
<1>2. request[r].op \in {"roles", "status"} /\ Ends(r) /\ UNCHANGED <<limits, invites, branches, acts, extra>>
    BY DEF WriteAccount
<1>3. PICK p, actor : p = request[r].user /\ actor = request[r].actor
    OBVIOUS
<1>4. request[r] \in AccountRequest /\ user[p] \in Account /\ p \in People
    BY <1>1, <1>2, <1>3 DEF Checked, AccountRequest
<1>5. PICK a : a = IF request[r].op = "roles"
                   THEN [request[r].to EXCEPT !.active = user[p].active]
                   ELSE [user[p] EXCEPT !.active = request[r].to.active]
    OBVIOUS
<1>6. a \in Account
    BY <1>4, <1>5 DEF Account, AccountRequest
<1>7. /\ user' = [user EXCEPT ![p] = a]
      /\ crowd' = IF ~a.active THEN crowd \ {p}
                  ELSE IF ~user[p].active /\ Cardinality(Active) >= limits.seats
                  THEN crowd \cup {p} ELSE crowd
      /\ farewell' = Parting(actor, p, a)
    BY <1>3, <1>5 DEF WriteAccount
<1>8. /\ a.active => Active' = Active \cup {p}
      /\ ~a.active => Active' = Active \ {p}
      /\ HqAdmins \ {p} \subseteq HqAdmins'
      /\ a.active /\ a.hq => p \in HqAdmins'
    BY <1>1, <1>4, <1>6, <1>7, AccountWritten
<1>9. Cardinality(Active) \in Nat /\ limits.seats \in Nat
    BY <1>1, FS_CardinalityType, TeamTypes
<1>10. crowd' \subseteq People
    BY <1>1, <1>4, <1>7 DEF TeamTypeOK
<1>11. \/ Active' \ crowd' \subseteq Active \ crowd
       \/ Active' = Active \cup {p} /\ Cardinality(Active) < limits.seats
  <2>1. CASE ~a.active
    <3>1. Active' = Active \ {p} /\ crowd' = crowd \ {p}
        BY <1>7, <1>8, <2>1
    <3> QED BY <3>1
  <2>2. CASE a.active /\ user[p].active
    <3>1. Active' = Active
        BY <1>4, <1>8, <2>2 DEF Active
    <3> QED BY <1>7, <2>2, <3>1
  <2>3. CASE a.active /\ ~user[p].active /\ Cardinality(Active) >= limits.seats
    <3>1. Active' = Active \cup {p} /\ crowd' = crowd \cup {p}
        BY <1>7, <1>8, <2>3
    <3> QED BY <3>1
  <2>4. CASE a.active /\ ~user[p].active /\ ~(Cardinality(Active) >= limits.seats)
      BY <1>8, <1>9, <2>4
  <2> QED BY <2>1, <2>2, <2>3, <2>4
<1>12. farewell' \in {farewell, "own hand", "crossed", "manager"}
    BY <1>7 DEF Parting
\* Who is no HQ admin after the write was switched off by somebody else, or has given
\* the role away or lost it to somebody else.
<1>13. HqAdmins' = {} => farewell' # "none"
  <2> SUFFICES ASSUME HqAdmins' = {} PROVE farewell' # "none"
      OBVIOUS
  <2>1. CASE farewell # "none"
      BY <1>12, <2>1
  <2>2. CASE farewell = "none"
    <3>1. HqAdmins # {}
        BY <2>2 DEF TeamInv, LastAdminGoesBy
    <3>2. HqAdmins = {p} /\ ~(a.active /\ a.hq)
        BY <1>8, <3>1
    <3>3. user[p].active
        BY <3>2 DEF HqAdmins, Active
    <3>4. actor = p => a.active /\ ~a.hq
      <4>1. CASE request[r].op = "roles"
        <5>1. a.active = user[p].active
            BY <1>4, <1>5, <4>1 DEF AccountRequest, Account
        <5> QED BY <3>2, <3>3, <5>1
      <4>2. CASE request[r].op = "status"
          BY <1>1, <1>3, <4>2 DEF Checked
      <4> QED BY <1>2, <4>1, <4>2
    <3>5. CASE actor = p
        BY <1>7, <3>2, <3>4, <3>5 DEF Parting
    <3>6. CASE actor # p
        BY <1>7, <3>2, <3>6 DEF Parting
    <3> QED BY <3>5, <3>6
  <2> QED BY <2>1, <2>2
<1>14. farewell' \in {"none", "own hand", "crossed", "manager"}
    BY <1>1, <1>12 DEF TeamTypeOK
<1>15. invites' \in Seq(Invitation) /\ Len(invites') = Len(invites)
    BY <1>1, <1>2 DEF TeamTypeOK
<1> QED BY <1>2, <1>4, <1>6, <1>7, <1>10, <1>11, <1>13, <1>14, <1>15, AccountKeeps

\* Branches are opened and closed, the plan's stores counted.
LEMMA BranchesKeep ==
    ASSUME TeamInv, branches' \in Seq({"open", "closed"}), extra' \subseteq DOMAIN branches',
           request' \in [Requests -> RequestTypes], RequestsChecked', acts' \in 0 .. MaxActs,
           UNCHANGED <<limits, user, invites, crowd, farewell>>, NEW b,
           \/ Open' \ extra' \subseteq Open \ extra
           \/ Open' = Open \cup {b} /\ Cardinality(Open) < limits.stores
    PROVE  TeamInv'
<1>1. TeamTypeOK'
    BY DEF TeamInv, TeamTypeOK, RequestTypes
<1>2. StoresWithinPlan'
  <2>1. PICK most : most = limits.stores
      OBVIOUS
  <2>2. /\ IsFiniteSet(Open) /\ most \in Nat /\ Cardinality(Open \ extra) <= most
        /\ limits'.stores = most
      BY <2>1, TeamTypes DEF TeamInv, StoresWithinPlan
  <2>3. \/ Open' \ extra' \subseteq Open \ extra
        \/ Open' = Open \cup {b} /\ Cardinality(Open) < most
      BY <2>1
  <2>4. PICK S, out, T, outside : S = Open /\ out = extra /\ T = Open' /\ outside = extra'
      OBVIOUS
  <2>5. /\ IsFiniteSet(S) /\ Cardinality(S \ out) <= most /\ most \in Nat
        /\ \/ T \ outside \subseteq S \ out
           \/ T = S \cup {b} /\ Cardinality(S) < most
      BY <2>2, <2>3, <2>4
  <2>6. Cardinality(T \ outside) <= most
      BY <2>5, WithinLimit
  <2> QED BY <2>2, <2>4, <2>6 DEF StoresWithinPlan
<1>3. IsFiniteSet(Active) /\ Len(invites) <= MaxInvites /\ SeatsWithinPlan /\ LastAdminGoesBy
    BY DEF TeamInv
<1>4. IsFiniteSet(Active') /\ Len(invites') <= MaxInvites /\ SeatsWithinPlan'
      /\ LastAdminGoesBy'
    BY <1>3 DEF SeatsWithinPlan, LastAdminGoesBy, Active, HqAdmins
<1> QED BY <1>1, <1>2, <1>4 DEF TeamInv

LEMMA StoresKeep ==
    ASSUME TeamInv, (\E r \in Requests : WriteStore(r)) \/ (\E b \in DOMAIN branches : UpdateStore(b))
    PROVE  TeamInv'
<1>1. /\ TeamTypeOK /\ branches \in Seq({"open", "closed"}) /\ extra \subseteq DOMAIN branches
      /\ Len(branches) \in Nat /\ DOMAIN branches = 1 .. Len(branches)
      /\ limits.stores \in Nat /\ IsFiniteSet(Open)
    BY TeamTypes DEF TeamInv, TeamTypeOK
<1>2. Cardinality(Open) \in Nat
    BY <1>1, FS_CardinalityType
<1>3. ASSUME NEW r \in Requests, WriteStore(r)
      PROVE  TeamInv'
  <2> DEFINE b == Len(branches) + 1
  <2>1. /\ request[r].op = "store" /\ branches' = Append(branches, "open") /\ Ends(r)
        /\ extra' = IF Overtaken(request[r], Cardinality(Open), limits.stores) THEN extra \cup {b} ELSE extra
        /\ UNCHANGED <<limits, user, invites, acts, crowd, farewell>>
      BY <1>3 DEF WriteStore
  <2>2. PICK q \in StoreRequest : q = request[r] /\ q.counted < q.limit
      BY <2>1 DEF TeamInv, RequestsChecked, Checked
  <2>3. request' \in [Requests -> RequestTypes] /\ RequestsChecked'
      BY <2>1, EndsKeeps
  <2>4. /\ branches' \in Seq({"open", "closed"}) /\ Len(branches') = b
        /\ branches'[b] = "open" /\ \A c \in 1 .. Len(branches) : branches'[c] = branches[c]
      BY <1>1, <2>1, AppendProperties
  <2>5. DOMAIN branches' = 1 .. b
      BY <2>4, LenProperties
  <2>6. 1 .. b = 1 .. Len(branches) \cup {b}
      BY <1>1
  <2> HIDE DEF b
  <2>7. Open' = Open \cup {b}
      BY <1>1, <2>4, <2>5, <2>6 DEF Open
  <2>8. extra' \subseteq DOMAIN branches'
      BY <1>1, <2>1, <2>5, <2>6
  <2>9. \/ Open' \ extra' \subseteq Open \ extra
        \/ Open' = Open \cup {b} /\ Cardinality(Open) < limits.stores
    <3>1. CASE Overtaken(q, Cardinality(Open), limits.stores)
      <4>1. extra' = extra \cup {b}
          BY <2>1, <2>2, <3>1
      <4> QED BY <2>7, <4>1
    <3>2. CASE ~Overtaken(q, Cardinality(Open), limits.stores)
        BY <1>1, <1>2, <2>2, <2>7, <3>2 DEF Overtaken, StoreRequest
    <3> QED BY <3>1, <3>2
  <2>10. acts' \in 0 .. MaxActs
      BY <1>1, <2>1 DEF TeamTypeOK
  <2> QED BY <2>1, <2>3, <2>4, <2>8, <2>9, <2>10, BranchesKeep
<1>4. ASSUME NEW b \in DOMAIN branches, UpdateStore(b)
      PROVE  TeamInv'
  <2>1. /\ acts < MaxActs /\ acts' = acts + 1
        /\ branches' = [branches EXCEPT ![b] = IF branches[b] = "open" THEN "closed" ELSE "open"]
        /\ extra' = IF branches[b] = "open" THEN extra \ {b}
                    ELSE IF Cardinality(Open) >= limits.stores THEN extra \cup {b} ELSE extra
        /\ UNCHANGED <<limits, user, invites, request, crowd, farewell>>
      BY <1>4 DEF UpdateStore
  <2>2. acts' \in 0 .. MaxActs
    <3>1. acts \in 0 .. MaxActs /\ MaxActs \in Nat
        BY <1>1, TeamTypes DEF TeamTypeOK
    <3> QED BY <2>1, <3>1
  <2>3. /\ DOMAIN branches' = DOMAIN branches
        /\ branches'[b] = IF branches[b] = "open" THEN "closed" ELSE "open"
        /\ \A c \in DOMAIN branches \ {b} : branches'[c] = branches[c]
      BY <2>1
  <2>4. branches' \in Seq({"open", "closed"})
    <3>1. PICK x \in {"open", "closed"} : x = IF branches[b] = "open" THEN "closed" ELSE "open"
        OBVIOUS
    <3>2. branches' = [branches EXCEPT ![b] = x]
        BY <2>1, <3>1
    <3> QED BY <1>1, <3>2, ExceptSeq
  <2>5. extra' \subseteq DOMAIN branches'
      BY <1>1, <2>1, <2>3
  <2>6. \/ Open' \ extra' \subseteq Open \ extra
        \/ Open' = Open \cup {b} /\ Cardinality(Open) < limits.stores
    <3>1. CASE branches[b] = "open"
      <4>1. extra' = extra \ {b} /\ branches'[b] = "closed"
          BY <2>1, <2>3, <3>1
      <4>2. Open' = Open \ {b}
          BY <2>3, <3>1, <4>1 DEF Open
      <4> QED BY <4>1, <4>2
    <3>2. CASE branches[b] # "open" /\ Cardinality(Open) >= limits.stores
      <4>1. extra' = extra \cup {b}
          BY <2>1, <3>2
      <4>2. Open' = Open \cup {b}
          BY <2>3, <3>2 DEF Open
      <4> QED BY <4>1, <4>2
    <3>3. CASE branches[b] # "open" /\ ~(Cardinality(Open) >= limits.stores)
      <4>1. Open' = Open \cup {b}
          BY <2>3, <3>3 DEF Open
      <4> QED BY <1>1, <1>2, <3>3, <4>1
    <3> QED BY <3>1, <3>2, <3>3
  <2>7. request' \in [Requests -> RequestTypes] /\ RequestsChecked'
    <3>1. RequestsChecked /\ request \in [Requests -> RequestTypes]
        BY <1>1 DEF TeamInv, TeamTypeOK, RequestTypes
    <3> QED BY <2>1, <3>1 DEF RequestsChecked, Checked
  <2> QED BY <2>1, <2>2, <2>4, <2>5, <2>6, <2>7, BranchesKeep
<1> QED BY <1>3, <1>4

\* The plan changes: what is too many for it counts no more.
LEMMA LimitHolds ==
    ASSUME NEW S, NEW out, NEW limit \in Nat, NEW many \in TooMany(S \ out, limit)
    PROVE  many \subseteq S /\ Cardinality(S \ (out \cup many)) <= limit
<1>1. many \subseteq S \ out
    BY DEF TooMany
<1>2. S \ (out \cup many) = (S \ out) \ many
    OBVIOUS
<1>3. CASE many = {} /\ Cardinality(S \ out) <= limit
  <2>1. S \ (out \cup many) = S \ out
      BY <1>3
  <2> QED BY <1>1, <1>3, <2>1
<1>4. CASE Cardinality((S \ out) \ many) = limit
    BY <1>1, <1>2, <1>4
<1> QED BY <1>3, <1>4 DEF TooMany

LEMMA PlanKeeps ==
    ASSUME TeamInv, ChangePlan
    PROVE  TeamInv'
<1>1. /\ acts < MaxActs /\ acts' = acts + 1 /\ limits' \in Limits
      /\ UNCHANGED <<user, invites, branches, request, farewell>>
    BY DEF ChangePlan
<1>2. PICK out \in TooMany(Active \ crowd, limits'.seats) : crowd' = crowd \cup out
    BY DEF ChangePlan
<1>3. PICK shut \in TooMany(Open \ extra, limits'.stores) : extra' = extra \cup shut
    BY DEF ChangePlan
<1>4. limits'.seats \in Nat /\ limits'.stores \in Nat
    BY <1>1, TeamAssumption
<1>5. out \subseteq Active /\ Cardinality(Active \ crowd') <= limits'.seats
    BY <1>2, <1>4, LimitHolds
<1>6. shut \subseteq Open /\ Cardinality(Open \ extra') <= limits'.stores
    BY <1>3, <1>4, LimitHolds
<1>7. Active' = Active /\ Open' = Open /\ HqAdmins' = HqAdmins
    BY <1>1 DEF Active, Open, HqAdmins
<1>8. SeatsWithinPlan' /\ StoresWithinPlan'
    BY <1>5, <1>6, <1>7 DEF SeatsWithinPlan, StoresWithinPlan
<1>9. acts' \in 0 .. MaxActs
  <2>1. acts \in 0 .. MaxActs /\ MaxActs \in Nat
      BY TeamTypes DEF TeamInv, TeamTypeOK
  <2> QED BY <1>1, <2>1
<1>10. crowd' \subseteq People /\ extra' \subseteq DOMAIN branches'
    BY <1>1, <1>2, <1>3, <1>5, <1>6 DEF TeamInv, TeamTypeOK, Active, Open
<1>11. TeamTypeOK'
    BY <1>1, <1>9, <1>10 DEF TeamInv, TeamTypeOK
<1>12. RequestsChecked'
    BY <1>1 DEF TeamInv, RequestsChecked, Checked
<1> QED BY <1>1, <1>7, <1>8, <1>11, <1>12 DEF TeamInv, LastAdminGoesBy

\* Team's invariant: the plan's limits with their exceptions, and the three ways the
\* last HQ admin goes, hold whatever the requests do between each other's checks and
\* writes.
THEOREM TeamInvariant == TeamSpec => []TeamInv
<1>1. TeamInit => TeamInv
  <2> SUFFICES ASSUME TeamInit PROVE TeamInv
      OBVIOUS
  <2> DEFINE founding == [active |-> TRUE, hq |-> TRUE, manages |-> FALSE]
  <2>1. /\ Founder \in People /\ founding \in Account /\ founding.active /\ founding.hq
        /\ ~NoAccount.active
      BY TeamAssumption DEF Account, NoAccount
  <2>2. /\ user = [p \in People |-> IF p = Founder THEN founding ELSE NoAccount]
        /\ invites = <<>> /\ branches = <<"open">> /\ request = [r \in Requests |-> Idle]
        /\ acts = 0 /\ crowd = {} /\ extra = {} /\ farewell = "none" /\ limits \in Limits
      BY DEF TeamInit
  <2> HIDE DEF founding
  <2>3. Active = {Founder} /\ HqAdmins = {Founder}
      BY <2>1, <2>2 DEF Active, HqAdmins
  <2>4. Open = {1}
      BY <2>2 DEF Open
  <2>5. /\ IsFiniteSet({Founder}) /\ Cardinality({Founder}) = 1
        /\ IsFiniteSet({1}) /\ Cardinality({1}) = 1
      BY FS_Singleton
  <2>6. {Founder} \ {} = {Founder} /\ {1} \ {} = {1}
      OBVIOUS
  <2>7. /\ MaxInvites \in Nat /\ limits.seats \in Nat \ {0} /\ limits.stores \in Nat \ {0}
        /\ MaxActs \in Nat
      BY <2>2, TeamAssumption
  <2>8. SeatsWithinPlan
    <3>1. Active \ crowd = {Founder}
        BY <2>2, <2>3
    <3> QED BY <2>5, <2>7, <3>1 DEF SeatsWithinPlan
  <2>9. StoresWithinPlan
    <3>1. Open \ extra = {1}
        BY <2>2, <2>4
    <3> QED BY <2>5, <2>7, <3>1 DEF StoresWithinPlan
  <2>10. RequestsChecked
      BY <2>2 DEF RequestsChecked, Checked, Idle
  <2>11. TeamTypeOK
    <3>1. user \in [People -> Account \cup {NoAccount}]
        BY <2>1, <2>2
    <3>2. invites \in Seq(Invitation) /\ Len(invites) = 0
        BY <2>2
    <3>3. branches \in Seq({"open", "closed"})
        BY <2>2
    <3> QED BY <2>2, <2>7, <3>1, <3>2, <3>3 DEF TeamTypeOK
  <2>12. LastAdminGoesBy
      BY <2>3 DEF LastAdminGoesBy
  <2>13. IsFiniteSet(Active) /\ Len(invites) <= MaxInvites
      BY <2>2, <2>3, <2>5, <2>7
  <2> QED BY <2>8, <2>9, <2>10, <2>11, <2>12, <2>13 DEF TeamInv
<1>2. TeamInv /\ [TeamNext]_teamVars => TeamInv'
  <2> SUFFICES ASSUME TeamInv, [TeamNext]_teamVars PROVE TeamInv'
      OBVIOUS
  <2>1. CASE UNCHANGED teamVars
    <3>1. UNCHANGED <<limits, user, invites, branches, request, acts, crowd, extra, farewell>>
        BY <2>1 DEF teamVars
    <3>2. TeamTypeOK' /\ RequestsChecked'
        BY <3>1 DEF TeamInv, TeamTypeOK, RequestsChecked, Checked
    <3> QED BY <3>1, <3>2 DEF TeamInv, SeatsWithinPlan, StoresWithinPlan, LastAdminGoesBy, Active,
                              HqAdmins, Open
  <2>2. CASE \E r \in Requests, actor, p \in People :
                \/ \E hq \in BOOLEAN, op \in {"invite", "create"} : Invite(r, actor, p, hq, op)
                \/ UpdateRoles(r, actor, p)
                \/ UpdateStatus(r, actor, p)
      BY <2>2, StartersKeep
  <2>3. CASE \E r \in Requests : CreateStore(r) \/ \E i \in DOMAIN invites : Accept(r, i)
      BY <2>3, StartersKeep, TeamAssumption
  <2>4. CASE \E r \in Requests : WriteInvitation(r) \/ CreateDirectly(r) \/ Join(r)
      BY <2>4, InvitationsKeep
  <2>5. CASE \E r \in Requests : WriteAccount(r)
      BY <2>5, AccountsKeep
  <2>6. CASE (\E r \in Requests : WriteStore(r)) \/ (\E b \in DOMAIN branches : UpdateStore(b))
      BY <2>6, StoresKeep
  <2> QED BY <2>1, <2>2, <2>3, <2>4, <2>5, <2>6, PlanKeeps DEF TeamNext
<1> QED BY <1>1, <1>2, PTL DEF TeamSpec

\* The plan's seats and stores, for any plans the tenant has one after the other.
THEOREM PlansHold == TeamSpec => []PlanLimitsHold
<1>1. TeamInv => PlanLimitsHold
    BY DEF TeamInv, PlanLimitsHold
<1> QED BY <1>1, TeamInvariant, PTL

\* A tenant's last HQ admin leaves in the three ways that are named.
THEOREM LastAdminsGoByThreeWays == TeamSpec => [](TeamTypeOK /\ LastAdminGoesBy)
<1>1. TeamInv => TeamTypeOK /\ LastAdminGoesBy
    BY DEF TeamInv
<1> QED BY <1>1, TeamInvariant, PTL
================================================================================
