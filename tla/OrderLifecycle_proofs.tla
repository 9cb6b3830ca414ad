-------------------------- MODULE OrderLifecycle_proofs --------------------------
(***************************************************************************)
(* Proofs about OrderLifecycle, for every set of orders, garments and      *)
(* requests: no ticket passes cutting with a live hold, the last garment   *)
(* to become ready is noticed, and status changes follow the table but for *)
(* the exceptions StatusFollowsTable names.                                *)
(***************************************************************************)
EXTENDS OrderLifecycle, TLAPS

Late == {"stitching", "quality", "ready"}
Closed == {"ready", "delivered", "cancelled"}

\* What a request knows when it was read stays true of the request, and of the
\* garment's hold: a hold is made once, before there is a ticket.
Valid(r, stat, stn, hld) ==
    /\ stat[Target(r)] # "absent"
    /\ r.op = "status" => CanTransition(r.seen, r.to)
    /\ r.op = "mark" => ~AlreadyThrough(r.seen)
    /\ r.op = "move" => /\ stn[r.item] # "none"
                        /\ r.step = "write" /\ r.to \in Late => hld[r.item] # "reserved"

RequestsValid ==
    \A w \in Workers : request[w] # None => Valid(request[w], status, station, hold)

\* An order that does not exist has no tickets.
NoTicketsYet ==
    \A i \in Items : status[OrderOf[i]] = "absent" => station[i] = "none"

\* w will see that the tickets of o are ready.
Checks(w, o) ==
    /\ request[w] # None
    /\ request[w].op \in {"check", "mark"}
    /\ request[w].order = o

\* An order whose tickets are all ready is closed, or some request is about to
\* find out, or one died on it or overwrote it.
SomeoneChecks ==
    \A o \in Orders :
        status[o] # "absent" /\ AllReady(o)
            => \/ o \in disturbed
               \/ status[o] \in Closed
               \/ \E w \in Workers : Checks(w, o)

\* The inductive invariant.
LifecycleInv ==
    /\ TypeOK
    /\ RequestsValid
    /\ NoTicketsYet
    /\ CutBeforeStitching
    /\ SomeoneChecks

LEMMA InitInv == Init => LifecycleInv
<1> SUFFICES ASSUME Init PROVE LifecycleInv
    OBVIOUS
<1> USE LifecycleAssumption DEF Init
<1>1. TypeOK
    BY DEF TypeOK
<1>2. RequestsValid /\ NoTicketsYet /\ CutBeforeStitching /\ SomeoneChecks
    BY DEF RequestsValid, NoTicketsYet, CutBeforeStitching, SomeoneChecks
<1> QED BY <1>1, <1>2 DEF LifecycleInv

\* A garment's order exists and its hold is made before anything moves it; a
\* move to a late station either starts at cutting, and then it cuts first, or
\* starts at a late station already.
LEMMA MoveLate ==
    ASSUME NEW from \in Station, NEW to \in Late, MayMove(from, to)
    PROVE  from \in Late \/ LeavesCutting(from, to)
BY DEF Station, Late, MayMove, LeavesCutting, StationIndex

\* The kinds of requests are told apart by their op.
LEMMA RequestKinds ==
    ASSUME NEW r \in Request
    PROVE  /\ r # None
           /\ r.op = "tickets" => r \in TicketsRequest
           /\ r.op = "status" => r \in StatusRequest
           /\ r.op = "move" => r \in MoveRequest
           /\ r.op = "check" => r \in CheckRequest
           /\ r.op = "mark" => r \in MarkRequest
           /\ r.op \in {"tickets", "status", "move", "check", "mark"}
           /\ Target(r) \in Orders
BY NoneAssumption, LifecycleAssumption
   DEF Request, TicketsRequest, StatusRequest, MoveRequest, CheckRequest, MarkRequest,
       Target

\* An order that exists stays, so does a ticket, and no hold is made where there
\* is a ticket.
Grows(stat, stn, hld, stat2, stn2, hld2) ==
    /\ \A o \in Orders : stat[o] # "absent" => stat2[o] # "absent"
    /\ \A i \in Items : stn[i] # "none" => stn2[i] # "none"
    /\ \A i \in Items : stn[i] # "none" /\ hld2[i] = "reserved" => hld[i] = "reserved"

LEMMA ValidGrows ==
    ASSUME NEW r \in Request, NEW stat, NEW stn, NEW hld, NEW stat2, NEW stn2, NEW hld2,
           Valid(r, stat, stn, hld), Grows(stat, stn, hld, stat2, stn2, hld2)
    PROVE  Valid(r, stat2, stn2, hld2)
<1>1. Target(r) \in Orders /\ (r.op = "move" => r.item \in Items)
    BY RequestKinds DEF MoveRequest
<1> QED BY <1>1 DEF Valid, Grows

\* One request's step: the others stay valid as long as things only grow.
LEMMA RequestsStep ==
    ASSUME NEW w \in Workers, NEW n \in Request \cup {None},
           TypeOK, RequestsValid,
           request' = [request EXCEPT ![w] = n],
           Grows(status, station, hold, status', station', hold'),
           n # None => Valid(n, status', station', hold')
    PROVE  RequestsValid' /\ request' \in [Workers -> Request \cup {None}]
<1>1. request' \in [Workers -> Request \cup {None}]
    BY DEF TypeOK
<1>2. ASSUME NEW x \in Workers, request'[x] # None
      PROVE  Valid(request'[x], status', station', hold')
  <2>1. CASE x = w
      BY <1>2, <2>1 DEF TypeOK
  <2>2. CASE x # w
    <3>1. request'[x] = request[x] /\ request[x] \in Request
        BY <1>2, <2>2 DEF TypeOK
    <3>2. Valid(request[x], status, station, hold)
        BY <1>2, <3>1 DEF RequestsValid
    <3> QED BY <3>1, <3>2, ValidGrows
  <2> QED BY <2>1, <2>2
<1> QED BY <1>1, <1>2 DEF RequestsValid

\* A step of w that changes no status and no station keeps SomeoneChecks, if w
\* does not stop checking an order that is ready and open.
LEMMA QuietStep ==
    ASSUME NEW w \in Workers, NEW n \in Request \cup {None},
           TypeOK, SomeoneChecks,
           request' = [request EXCEPT ![w] = n],
           status' = status, station' = station, disturbed \subseteq disturbed',
           \A o \in Orders : Checks(w, o) /\ AllReady(o) /\ status[o] \notin Closed
                => o \in disturbed' \/ (n # None /\ n.op \in {"check", "mark"} /\ n.order = o)
    PROVE  SomeoneChecks'
<1> SUFFICES ASSUME NEW o \in Orders, status[o] # "absent", AllReady(o),
                    o \notin disturbed', status[o] \notin Closed
             PROVE  \E x \in Workers : Checks(x, o)'
    BY DEF SomeoneChecks, AllReady
<1>1. PICK x \in Workers : Checks(x, o)
    BY DEF SomeoneChecks
<1>2. CASE x = w
    BY <1>1, <1>2 DEF Checks, TypeOK
<1>3. CASE x # w
    BY <1>1, <1>3 DEF Checks, TypeOK
<1> QED BY <1>2, <1>3

\* The same for a step that leaves no order ready that was not so before.
LEMMA NoneReady ==
    ASSUME NEW w \in Workers, NEW n \in Request \cup {None}, NEW done \in Orders,
           TypeOK, SomeoneChecks,
           request' = [request EXCEPT ![w] = n],
           status' = status, disturbed' = disturbed,
           \A i \in Items : OrderOf[i] # done => station'[i] = station[i],
           ~ AllReady(done)',
           \A o \in Orders : ~Checks(w, o)
    PROVE  SomeoneChecks'
<1> SUFFICES ASSUME NEW o \in Orders, status[o] # "absent", AllReady(o)',
                    o \notin disturbed, status[o] \notin Closed
             PROVE  \E x \in Workers : Checks(x, o)'
    BY DEF SomeoneChecks
<1>1. o # done
    OBVIOUS
<1>2. AllReady(o)
    BY <1>1 DEF AllReady, ItemsOf
<1>3. PICK x \in Workers : Checks(x, o)
    BY <1>2 DEF SomeoneChecks
<1>4. x # w
    BY <1>3
<1> QED BY <1>3, <1>4 DEF Checks, TypeOK

-----------------------------------------------------------------------------
(* One lemma per action.                                                   *)

LEMMA CheckoutInv ==
    ASSUME NEW w \in Workers, NEW o \in Orders, NEW c \in SUBSET Items,
           LifecycleInv, Checkout(w, o, c)
    PROVE  LifecycleInv'
<1> USE LifecycleAssumption
<1> DEFINE n == [op |-> "tickets", order |-> o]
<1>1. n \in Request /\ n # None
    BY NoneAssumption DEF Request, TicketsRequest
<1>2. /\ request[w] = None /\ status[o] = "absent"
      /\ status' = [status EXCEPT ![o] = "pending"]
      /\ hold' = [i \in Items |-> IF i \in c THEN "reserved" ELSE hold[i]]
      /\ request' = [request EXCEPT ![w] = n]
      /\ UNCHANGED <<station, announced, disturbed>>
      /\ c \subseteq ItemsOf(o)
    BY DEF Checkout, Goto
<1>3. TypeOK /\ NoTicketsYet /\ CutBeforeStitching /\ SomeoneChecks /\ RequestsValid
    BY DEF LifecycleInv
<1>4. \A i \in Items : OrderOf[i] = o => station[i] = "none"
    BY <1>2, <1>3 DEF NoTicketsYet
<1>5. Grows(status, station, hold, status', station', hold')
    BY <1>2, <1>3, <1>4 DEF Grows, TypeOK, ItemsOf
<1>6. Valid(n, status', station', hold')
    BY <1>2, <1>3 DEF Valid, Target, TypeOK
<1> HIDE DEF n
<1>7. RequestsValid' /\ request' \in [Workers -> Request \cup {None}]
    BY <1>1, <1>2, <1>3, <1>5, <1>6, RequestsStep
<1>8. TypeOK'
    BY <1>2, <1>3, <1>7 DEF TypeOK, OrderStatus
<1>9. NoTicketsYet'
    BY <1>2, <1>3 DEF NoTicketsYet, TypeOK
<1>10. CutBeforeStitching'
    BY <1>2, <1>3, <1>4 DEF CutBeforeStitching, ItemsOf
<1>11. SomeoneChecks'
  <2> SUFFICES ASSUME NEW p \in Orders, status'[p] # "absent", AllReady(p),
                      p \notin disturbed, status'[p] \notin Closed
               PROVE  \E x \in Workers : Checks(x, p)'
      BY <1>2 DEF SomeoneChecks, AllReady
  <2>1. p # o
      BY <1>4 DEF AllReady, ItemsOf
  <2>2. PICK x \in Workers : Checks(x, p)
      BY <1>2, <1>3, <2>1 DEF SomeoneChecks, TypeOK
  <2> QED BY <1>2, <1>3, <2>2 DEF Checks, TypeOK
<1> QED BY <1>7, <1>8, <1>9, <1>10, <1>11 DEF LifecycleInv

LEMMA CreateOrderInv ==
    ASSUME NEW o \in Orders, LifecycleInv, CreateOrder(o)
    PROVE  LifecycleInv'
<1> USE LifecycleAssumption
<1>1. /\ status[o] = "absent"
      /\ status' = [status EXCEPT ![o] = "pending"]
      /\ UNCHANGED <<station, hold, request, announced, disturbed>>
    BY DEF CreateOrder
<1>2. TypeOK /\ NoTicketsYet /\ CutBeforeStitching /\ SomeoneChecks /\ RequestsValid
    BY DEF LifecycleInv
<1>3. TypeOK'
    BY <1>1, <1>2 DEF TypeOK, OrderStatus
<1>4. RequestsValid'
  <2>1. Grows(status, station, hold, status', station', hold')
      BY <1>1, <1>2 DEF Grows, TypeOK
  <2> QED BY <1>1, <1>2, <2>1, ValidGrows DEF RequestsValid, TypeOK
<1>5. NoTicketsYet' /\ CutBeforeStitching'
    BY <1>1, <1>2 DEF NoTicketsYet, CutBeforeStitching, TypeOK
<1>6. SomeoneChecks'
  <2> SUFFICES ASSUME NEW p \in Orders, status'[p] # "absent", AllReady(p),
                      p \notin disturbed, status'[p] \notin Closed
               PROVE  \E x \in Workers : Checks(x, p)
      BY <1>1 DEF SomeoneChecks, AllReady, Checks
  <2>1. PICK i \in Items : OrderOf[i] = p
      OBVIOUS
  <2>2. p # o
      BY <1>1, <1>2, <2>1 DEF AllReady, ItemsOf, NoTicketsYet
  <2> QED BY <1>1, <1>2, <2>2 DEF SomeoneChecks, TypeOK
<1> QED BY <1>3, <1>4, <1>5, <1>6 DEF LifecycleInv

LEMMA CreateTicketsInv ==
    ASSUME NEW w \in Workers, LifecycleInv, CreateTickets(w)
    PROVE  LifecycleInv'
<1> USE LifecycleAssumption
<1>1. TypeOK /\ NoTicketsYet /\ CutBeforeStitching /\ SomeoneChecks /\ RequestsValid
    BY DEF LifecycleInv
<1>2. PICK o \in Orders : o = request[w].order /\ status[o] # "absent"
  <2>1. request[w] \in TicketsRequest /\ Valid(request[w], status, station, hold)
      BY <1>1, RequestKinds DEF TypeOK, RequestsValid, CreateTickets
  <2> QED BY <2>1 DEF Valid, Target, TicketsRequest
<1>3. /\ request[w] # None /\ request[w].op = "tickets"
      /\ station' = [i \in Items |-> IF OrderOf[i] = o THEN "queued" ELSE station[i]]
      /\ request' = [request EXCEPT ![w] = None]
      /\ UNCHANGED <<status, hold, announced, disturbed>>
    BY <1>2 DEF CreateTickets, Done, Goto
<1>4. Grows(status, station, hold, status', station', hold')
    BY <1>1, <1>3 DEF Grows, TypeOK
<1>5. RequestsValid' /\ request' \in [Workers -> Request \cup {None}]
    BY <1>1, <1>3, <1>4, RequestsStep
<1>6. TypeOK'
    BY <1>1, <1>3, <1>5 DEF TypeOK, Station
<1>7. NoTicketsYet' /\ CutBeforeStitching'
    BY <1>1, <1>2, <1>3 DEF NoTicketsYet, CutBeforeStitching
<1>8. SomeoneChecks'
  <2>1. ~AllReady(o)'
      BY <1>3 DEF AllReady, ItemsOf
  <2>2. \A p \in Orders : ~Checks(w, p)
      BY <1>3 DEF Checks
  <2> QED BY <1>1, <1>3, <2>1, <2>2, NoneReady
<1> QED BY <1>5, <1>6, <1>7, <1>8 DEF LifecycleInv

\* A step that changes no status, no station and no hold.
LEMMA QuietInv ==
    ASSUME NEW w \in Workers, NEW n \in Request \cup {None},
           LifecycleInv,
           request' = [request EXCEPT ![w] = n],
           status' = status, station' = station, hold' = hold,
           announced' \subseteq Orders,
           disturbed' \subseteq Orders, disturbed \subseteq disturbed',
           n # None => Valid(n, status, station, hold),
           \A o \in Orders : Checks(w, o) /\ AllReady(o) /\ status[o] \notin Closed
                => o \in disturbed' \/ (n # None /\ n.op \in {"check", "mark"} /\ n.order = o)
    PROVE  LifecycleInv'
<1>1. TypeOK /\ NoTicketsYet /\ CutBeforeStitching /\ SomeoneChecks /\ RequestsValid
    BY DEF LifecycleInv
<1>2. Grows(status, station, hold, status', station', hold')
    BY DEF Grows
<1>3. RequestsValid' /\ request' \in [Workers -> Request \cup {None}]
    BY <1>1, <1>2, RequestsStep
<1>4. TypeOK'
    BY <1>1, <1>3 DEF TypeOK
<1>5. NoTicketsYet' /\ CutBeforeStitching'
    BY <1>1 DEF NoTicketsYet, CutBeforeStitching
<1>6. SomeoneChecks'
    BY <1>1, QuietStep
<1> QED BY <1>3, <1>4, <1>5, <1>6 DEF LifecycleInv

LEMMA StatusReadInv ==
    ASSUME NEW w \in Workers, NEW o \in Orders, NEW to \in OrderStatus,
           LifecycleInv, StatusRead(w, o, to)
    PROVE  LifecycleInv'
<1> DEFINE n == [op |-> "status", order |-> o, seen |-> status[o], to |-> to,
                 step |-> "write"]
<1>1. n \in Request
    BY DEF LifecycleInv, TypeOK, StatusRead, Request, StatusRequest
<1>2. Valid(n, status, station, hold)
    BY DEF Valid, Target, StatusRead
<1>3. /\ request[w] = None
      /\ request' = [request EXCEPT ![w] = n]
      /\ UNCHANGED <<status, station, hold, announced, disturbed>>
    BY DEF StatusRead, Goto
<1>4. \A p \in Orders : ~Checks(w, p)
    BY <1>3 DEF Checks
<1>5. announced \subseteq Orders /\ disturbed \subseteq Orders
    BY DEF LifecycleInv, TypeOK
<1> HIDE DEF n
<1> QED BY <1>1, <1>2, <1>3, <1>4, <1>5, QuietInv

LEMMA PublishInv ==
    ASSUME NEW w \in Workers, LifecycleInv, StatusPublish(w) \/ PublishFails(w)
    PROVE  LifecycleInv'
<1>1. /\ request[w] # None /\ request[w].op = "status"
      /\ request' = [request EXCEPT ![w] = None]
      /\ UNCHANGED <<status, station, hold>>
      /\ announced' \subseteq announced \cup {request[w].order}
      /\ disturbed \subseteq disturbed'
      /\ disturbed' \subseteq disturbed \cup {request[w].order}
    BY DEF StatusPublish, PublishFails, Done, Goto
<1>2. announced \subseteq Orders /\ disturbed \subseteq Orders /\ request[w].order \in Orders
    BY <1>1, RequestKinds DEF LifecycleInv, TypeOK, StatusRequest
<1>3. \A p \in Orders : ~Checks(w, p)
    BY <1>1 DEF Checks
<1> QED BY <1>1, <1>2, <1>3, QuietInv

LEMMA RequestDiesInv ==
    ASSUME NEW w \in Workers, LifecycleInv, RequestDies(w)
    PROVE  LifecycleInv'
<1>1. /\ request[w] # None
      /\ request' = [request EXCEPT ![w] = None]
      /\ disturbed' = disturbed \cup {Target(request[w])}
      /\ UNCHANGED <<status, station, hold, announced>>
    BY DEF RequestDies, Done, Goto
<1>2. Target(request[w]) \in Orders /\ announced \subseteq Orders /\ disturbed \subseteq Orders
    BY <1>1, RequestKinds DEF LifecycleInv, TypeOK
<1>3. \A p \in Orders : Checks(w, p) => Target(request[w]) = p
    BY <1>1 DEF Checks, Target
<1> QED BY <1>1, <1>2, <1>3, QuietInv

LEMMA MoveReadInv ==
    ASSUME NEW w \in Workers, NEW i \in Items, NEW to \in Station,
           LifecycleInv, MoveRead(w, i, to)
    PROVE  LifecycleInv'
<1> USE LifecycleAssumption
<1> DEFINE n == [op |-> "move", item |-> i, from |-> station[i], to |-> to,
                 step |-> IF LeavesCutting(station[i], to) THEN "cut" ELSE "write"]
<1>1. /\ request[w] = None /\ station[i] # "none" /\ MayMove(station[i], to)
      /\ request' = [request EXCEPT ![w] = n]
      /\ UNCHANGED <<status, station, hold, announced, disturbed>>
    BY DEF MoveRead, Goto
<1>2. station[i] \in Station
    BY <1>1 DEF LifecycleInv, TypeOK
<1>3. n \in Request
    BY <1>2 DEF Request, MoveRequest
<1>4. Valid(n, status, station, hold)
  <2>1. status[OrderOf[i]] # "absent"
      BY <1>1 DEF LifecycleInv, NoTicketsYet
  <2>2. n.step = "write" /\ to \in Late => station[i] \in Late
      BY <1>1, <1>2, MoveLate
  <2>3. station[i] \in Late => hold[i] # "reserved"
      BY DEF LifecycleInv, CutBeforeStitching, Late
  <2> QED BY <1>1, <2>1, <2>2, <2>3 DEF Valid, Target
<1>5. \A p \in Orders : ~Checks(w, p)
    BY <1>1 DEF Checks
<1>6. announced \subseteq Orders /\ disturbed \subseteq Orders
    BY DEF LifecycleInv, TypeOK
<1> HIDE DEF n
<1> QED BY <1>1, <1>3, <1>4, <1>5, <1>6, QuietInv

LEMMA MoveCutInv ==
    ASSUME NEW w \in Workers, LifecycleInv, MoveCut(w)
    PROVE  LifecycleInv'
<1> USE LifecycleAssumption
<1>1. TypeOK /\ NoTicketsYet /\ CutBeforeStitching /\ SomeoneChecks /\ RequestsValid
    BY DEF LifecycleInv
<1>2. PICK r \in MoveRequest : r = request[w] /\ Valid(r, status, station, hold)
    BY <1>1, RequestKinds DEF TypeOK, RequestsValid, MoveCut
<1> DEFINE n == [r EXCEPT !.step = "write"]
           i == r.item
<1>3. i \in Items /\ n \in MoveRequest /\ n.item = i /\ n.to = r.to /\ n.op = "move"
    BY DEF MoveRequest
<1>4. /\ request[w] # None /\ request[w].op = "move"
      /\ hold' = [hold EXCEPT ![i] = IF @ = "reserved" THEN "consumed" ELSE @]
      /\ request' = [request EXCEPT ![w] = n]
      /\ UNCHANGED <<status, station, announced, disturbed>>
    BY <1>2 DEF MoveCut, Goto
<1>5. Valid(n, status', station', hold')
    BY <1>1, <1>2, <1>3, <1>4 DEF Valid, Target, TypeOK, MoveRequest
<1> HIDE DEF n, i
<1>6. Grows(status, station, hold, status', station', hold')
    BY <1>1, <1>3, <1>4 DEF Grows, TypeOK
<1>7. n \in Request
    BY <1>3 DEF Request
<1>8. RequestsValid' /\ request' \in [Workers -> Request \cup {None}]
    BY <1>1, <1>4, <1>5, <1>6, <1>7, RequestsStep
<1>9. TypeOK'
    BY <1>1, <1>3, <1>4, <1>8 DEF TypeOK
<1>10. NoTicketsYet' /\ CutBeforeStitching'
    BY <1>1, <1>3, <1>4 DEF NoTicketsYet, CutBeforeStitching, TypeOK
<1>11. SomeoneChecks'
  <2>1. \A p \in Orders : ~Checks(w, p)
      BY <1>4 DEF Checks
  <2> QED BY <1>1, <1>4, <1>7, <2>1, QuietStep
<1> QED BY <1>8, <1>9, <1>10, <1>11 DEF LifecycleInv

LEMMA MoveCutRejectedInv ==
    ASSUME NEW w \in Workers, LifecycleInv, MoveCutRejected(w)
    PROVE  LifecycleInv'
<1>1. /\ request[w].op = "move"
      /\ request' = [request EXCEPT ![w] = None]
      /\ UNCHANGED <<status, station, hold, announced, disturbed>>
    BY DEF MoveCutRejected, Done, Goto
<1>2. \A p \in Orders : ~Checks(w, p)
    BY <1>1 DEF Checks
<1>3. announced \subseteq Orders /\ disturbed \subseteq Orders
    BY DEF LifecycleInv, TypeOK
<1> QED BY <1>1, <1>2, <1>3, QuietInv

\* Either the order is not all ready after the write, or w goes on to check it.
LEMMA MoveWriteInv ==
    ASSUME NEW w \in Workers, LifecycleInv, MoveWrite(w)
    PROVE  LifecycleInv'
<1> USE LifecycleAssumption
<1>1. TypeOK /\ NoTicketsYet /\ CutBeforeStitching /\ SomeoneChecks /\ RequestsValid
    BY DEF LifecycleInv
<1>2. PICK r \in MoveRequest : r = request[w] /\ Valid(r, status, station, hold)
    BY <1>1, RequestKinds DEF TypeOK, RequestsValid, MoveWrite
<1>3. PICK i \in Items : i = r.item
    BY DEF MoveRequest
<1>4. PICK o \in Orders : o = OrderOf[i]
    OBVIOUS
<1> DEFINE c == [op |-> "check", order |-> o, step |-> "tickets"]
           n == IF r.to = "ready" THEN c ELSE None
<1>5. /\ request[w] # None /\ request[w].op = "move" /\ r.step = "write"
      /\ r.to \in Station
      /\ station' = [station EXCEPT ![i] = r.to]
      /\ request' = [request EXCEPT ![w] = n]
      /\ UNCHANGED <<status, hold, announced, disturbed>>
    BY <1>2, <1>3, <1>4 DEF MoveWrite, Goto, Done, MoveRequest
<1>6. /\ status[o] # "absent" /\ station[i] # "none"
      /\ r.to \in Late => hold[i] # "reserved"
    BY <1>2, <1>3, <1>4, <1>5 DEF Valid, Target
<1>7. c \in Request /\ n \in Request \cup {None}
    BY DEF Request, CheckRequest
<1>8. n # None => Valid(n, status', station', hold')
    BY <1>5, <1>6 DEF Valid, Target
<1>9. c # None /\ Checks(w, o)' = (r.to = "ready")
    BY <1>1, <1>5, <1>7, RequestKinds DEF Checks, TypeOK
<1>10. n # None => r.to = "ready"
    OBVIOUS
<1> HIDE DEF n, c
<1>11. Grows(status, station, hold, status', station', hold')
    BY <1>1, <1>5 DEF Grows, TypeOK, Station
<1>12. RequestsValid' /\ request' \in [Workers -> Request \cup {None}]
    BY <1>1, <1>5, <1>7, <1>8, <1>11, RequestsStep
<1>13. TypeOK'
    BY <1>1, <1>5, <1>12 DEF TypeOK
<1>14. NoTicketsYet' /\ CutBeforeStitching'
    BY <1>1, <1>4, <1>5, <1>6 DEF NoTicketsYet, CutBeforeStitching, TypeOK, Late
<1>15. SomeoneChecks'
  <2>1. \A p \in Orders : ~Checks(w, p)
      BY <1>5 DEF Checks
  <2>2. CASE r.to # "ready"
    <3>1. ~AllReady(o)'
        BY <1>1, <1>4, <1>5, <2>2 DEF AllReady, ItemsOf, TypeOK
    <3>2. \A k \in Items : OrderOf[k] # o => station'[k] = station[k]
        BY <1>1, <1>4, <1>5 DEF TypeOK
    <3> QED BY <1>1, <1>5, <1>7, <2>1, <3>1, <3>2, NoneReady
  <2>3. CASE r.to = "ready"
    <3> SUFFICES ASSUME NEW p \in Orders, status[p] # "absent", AllReady(p)',
                        p \notin disturbed, status[p] \notin Closed
                 PROVE  \E x \in Workers : Checks(x, p)'
        BY <1>5 DEF SomeoneChecks
    <3>1. CASE p = o
        BY <1>9, <2>3, <3>1
    <3>2. CASE p # o
      <4>1. AllReady(p)
          BY <1>1, <1>4, <1>5, <3>2 DEF AllReady, ItemsOf, TypeOK
      <4>2. PICK x \in Workers : Checks(x, p)
          BY <1>1, <4>1 DEF SomeoneChecks
      <4>3. x # w
          BY <2>1, <4>2
      <4> QED BY <1>1, <1>5, <4>2, <4>3 DEF Checks, TypeOK
    <3> QED BY <3>1, <3>2
  <2> QED BY <2>2, <2>3
<1> QED BY <1>12, <1>13, <1>14, <1>15 DEF LifecycleInv

LEMMA CheckTicketsInv ==
    ASSUME NEW w \in Workers, LifecycleInv, CheckTickets(w)
    PROVE  LifecycleInv'
<1>1. PICK r \in CheckRequest : r = request[w] /\ Valid(r, status, station, hold)
    BY RequestKinds DEF LifecycleInv, TypeOK, RequestsValid, CheckTickets
<1> DEFINE c == [r EXCEPT !.step = "order"]
           n == IF AllReady(r.order) THEN c ELSE None
<1>2. /\ request' = [request EXCEPT ![w] = n]
      /\ UNCHANGED <<status, station, hold, announced, disturbed>>
    BY <1>1 DEF CheckTickets, Goto, Done
<1>3. c \in Request /\ c.op = "check" /\ c.order = r.order
    BY DEF Request, CheckRequest
<1>4. Valid(c, status, station, hold)
    BY <1>1, <1>3 DEF Valid, Target, CheckRequest
<1>5. \A p \in Orders : Checks(w, p) /\ AllReady(p)
            => n # None /\ n.op \in {"check", "mark"} /\ n.order = p
    BY <1>1, <1>3, RequestKinds DEF Checks
<1>6. announced \subseteq Orders /\ disturbed \subseteq Orders
    BY DEF LifecycleInv, TypeOK
<1>7. n \in Request \cup {None} /\ (n # None => Valid(n, status, station, hold))
    BY <1>3, <1>4
<1> HIDE DEF n, c
<1> QED BY <1>2, <1>5, <1>6, <1>7, QuietInv

LEMMA CheckOrderInv ==
    ASSUME NEW w \in Workers, LifecycleInv, CheckOrder(w)
    PROVE  LifecycleInv'
<1>1. PICK r \in CheckRequest : r = request[w] /\ Valid(r, status, station, hold)
    BY RequestKinds DEF LifecycleInv, TypeOK, RequestsValid, CheckOrder
<1>2. PICK o \in Orders : o = r.order
    BY DEF CheckRequest
<1> DEFINE c == [op |-> "mark", order |-> o, seen |-> status[o]]
           n == IF AlreadyThrough(status[o]) THEN None ELSE c
<1>3. /\ request' = [request EXCEPT ![w] = n]
      /\ UNCHANGED <<status, station, hold, announced, disturbed>>
    BY <1>1, <1>2 DEF CheckOrder, Goto, Done
<1>4. status[o] # "absent" /\ status[o] \in OrderStatus
    BY <1>1, <1>2 DEF Valid, Target, LifecycleInv, TypeOK, CheckRequest
<1>5. c \in Request
    BY <1>4 DEF Request, MarkRequest
<1>6. ~AlreadyThrough(status[o]) => Valid(c, status, station, hold)
    BY <1>4 DEF Valid, Target
<1>7. \A p \in Orders : Checks(w, p) /\ status[p] \notin Closed
            => n # None /\ n.op \in {"check", "mark"} /\ n.order = p
    BY <1>1, <1>2, <1>5, RequestKinds DEF Checks, AlreadyThrough, Closed
<1>8. announced \subseteq Orders /\ disturbed \subseteq Orders
    BY DEF LifecycleInv, TypeOK
<1>9. n \in Request \cup {None} /\ (n # None => Valid(n, status, station, hold))
    BY <1>5, <1>6
<1> HIDE DEF n, c
<1> QED BY <1>3, <1>7, <1>8, <1>9, QuietInv

\* The table leads from a closed status to closed ones only.
LEMMA ClosedStays ==
    ASSUME NEW s \in Closed, NEW t, CanTransition(s, t)
    PROVE  t \in Closed
BY DEF Closed, CanTransition, Successors

\* A status is written to o, by a worker that checks no other order: SomeoneChecks
\* survives if what it writes is closed, or was open before, or came from an
\* outdated read.
LEMMA StatusStep ==
    ASSUME NEW w \in Workers, NEW n \in Request \cup {None}, NEW o \in Orders,
           NEW seen, NEW to \in OrderStatus,
           LifecycleInv, status[o] # "absent",
           WriteStatus(o, seen, to),
           request' = [request EXCEPT ![w] = n],
           UNCHANGED <<station, hold, announced>>,
           n # None => Valid(n, status', station', hold'),
           Checks(w, o) => to \in Closed,
           \A p \in Orders \ {o} : ~Checks(w, p),
           seen = status[o] /\ seen \in Closed => to \in Closed
    PROVE  LifecycleInv'
<1> USE LifecycleAssumption
<1>1. TypeOK /\ NoTicketsYet /\ CutBeforeStitching /\ SomeoneChecks /\ RequestsValid
    BY DEF LifecycleInv
<1>2. /\ status' = [status EXCEPT ![o] = to]
      /\ disturbed' = IF status[o] = seen THEN disturbed ELSE disturbed \cup {o}
    BY DEF WriteStatus
<1>3. to # "absent"
    BY DEF OrderStatus
<1>4. Grows(status, station, hold, status', station', hold')
    BY <1>1, <1>2, <1>3 DEF Grows, TypeOK
<1>5. RequestsValid' /\ request' \in [Workers -> Request \cup {None}]
    BY <1>1, <1>4, RequestsStep
<1>6. TypeOK'
    BY <1>1, <1>2, <1>5 DEF TypeOK
<1>7. NoTicketsYet' /\ CutBeforeStitching'
    BY <1>1, <1>2, <1>3 DEF NoTicketsYet, CutBeforeStitching, TypeOK
<1>8. SomeoneChecks'
  <2> SUFFICES ASSUME NEW p \in Orders, status'[p] # "absent", AllReady(p),
                      p \notin disturbed', status'[p] \notin Closed
               PROVE  \E x \in Workers : Checks(x, p)'
      BY DEF SomeoneChecks, AllReady
  <2>1. status[p] # "absent" /\ status[p] \notin Closed /\ p \notin disturbed
      BY <1>1, <1>2 DEF TypeOK
  <2>2. PICK x \in Workers : Checks(x, p)
      BY <1>1, <2>1 DEF SomeoneChecks
  <2>3. x # w
      BY <1>1, <1>2, <2>2 DEF TypeOK
  <2> QED BY <1>1, <2>2, <2>3 DEF Checks, TypeOK
<1> QED BY <1>5, <1>6, <1>7, <1>8 DEF LifecycleInv

LEMMA StatusWriteInv ==
    ASSUME NEW w \in Workers, LifecycleInv, StatusWrite(w)
    PROVE  LifecycleInv'
<1>1. PICK r \in StatusRequest : r = request[w] /\ Valid(r, status, station, hold)
    BY RequestKinds DEF LifecycleInv, TypeOK, RequestsValid, StatusWrite
<1>2. PICK o \in Orders, seen \in OrderStatus, to \in OrderStatus :
            o = r.order /\ seen = r.seen /\ to = r.to
    BY DEF StatusRequest
<1> DEFINE n == [r EXCEPT !.step = "publish"]
<1>3. /\ WriteStatus(o, seen, to)
      /\ request' = [request EXCEPT ![w] = n]
      /\ UNCHANGED <<station, hold, announced>>
    BY <1>1, <1>2 DEF StatusWrite, Goto
<1>4. /\ n \in Request /\ n.op = "status" /\ n.order = o
      /\ n.seen = seen /\ n.to = to /\ r.op = "status"
    BY <1>2 DEF Request, StatusRequest
<1>5. status[o] # "absent" /\ CanTransition(seen, to)
    BY <1>1, <1>2, <1>4 DEF Valid, Target
<1>6. status'[o] = to /\ to # "absent"
    BY <1>3 DEF WriteStatus, LifecycleInv, TypeOK, OrderStatus
<1>7. Valid(n, status', station', hold')
    BY <1>4, <1>5, <1>6 DEF Valid, Target
<1>8. \A p \in Orders : ~Checks(w, p)
    BY <1>1, <1>4 DEF Checks
<1> HIDE DEF n
<1> QED BY <1>3, <1>4, <1>5, <1>7, <1>8, ClosedStays, StatusStep

LEMMA MarkReadyInv ==
    ASSUME NEW w \in Workers, LifecycleInv, MarkReady(w)
    PROVE  LifecycleInv'
<1>1. PICK r \in MarkRequest : r = request[w] /\ Valid(r, status, station, hold)
    BY RequestKinds DEF LifecycleInv, TypeOK, RequestsValid, MarkReady
<1>2. PICK o \in Orders : o = r.order
    BY DEF MarkRequest
<1>3. /\ WriteStatus(o, r.seen, "ready")
      /\ request' = [request EXCEPT ![w] = None]
      /\ UNCHANGED <<station, hold, announced>>
    BY <1>1, <1>2 DEF MarkReady, Done, Goto
<1>4. status[o] # "absent"
    BY <1>1, <1>2 DEF Valid, Target, MarkRequest
<1>5. \A p \in Orders \ {o} : ~Checks(w, p)
    BY <1>1, <1>2 DEF Checks
<1>6. "ready" \in OrderStatus /\ "ready" \in Closed
    BY DEF OrderStatus, Closed
<1> QED BY <1>3, <1>4, <1>5, <1>6, StatusStep

-----------------------------------------------------------------------------

LEMMA NextInv == LifecycleInv /\ [Next]_vars => LifecycleInv'
<1> SUFFICES ASSUME LifecycleInv, [Next]_vars PROVE LifecycleInv'
    OBVIOUS
<1>1. ASSUME NEW w \in Workers, NEW o \in Orders, NEW c \in SUBSET Items,
             Checkout(w, o, c)
      PROVE  LifecycleInv'
    BY <1>1, CheckoutInv
<1>2. ASSUME NEW o \in Orders, CreateOrder(o)
      PROVE  LifecycleInv'
    BY <1>2, CreateOrderInv
<1>3. ASSUME NEW w \in Workers, NEW o \in Orders, NEW to \in OrderStatus,
             StatusRead(w, o, to)
      PROVE  LifecycleInv'
    BY <1>3, StatusReadInv
<1>4. ASSUME NEW w \in Workers, NEW i \in Items, NEW to \in Station,
             MoveRead(w, i, to)
      PROVE  LifecycleInv'
    BY <1>4, MoveReadInv
<1>5. ASSUME NEW w \in Workers,
             \/ CreateTickets(w) \/ StatusWrite(w) \/ StatusPublish(w) \/ PublishFails(w)
             \/ MarkReady(w) \/ RequestDies(w)
      PROVE  LifecycleInv'
    BY <1>5, CreateTicketsInv, StatusWriteInv, PublishInv, MarkReadyInv, RequestDiesInv
<1>6. ASSUME NEW w \in Workers,
             \/ MoveCut(w) \/ MoveCutRejected(w) \/ MoveWrite(w) \/ CheckTickets(w)
             \/ CheckOrder(w)
      PROVE  LifecycleInv'
    BY <1>6, MoveCutInv, MoveCutRejectedInv, MoveWriteInv, CheckTicketsInv, CheckOrderInv
<1>7. CASE UNCHANGED vars
  <2>1. TypeOK' /\ RequestsValid' /\ NoTicketsYet' /\ CutBeforeStitching'
      BY <1>7 DEF LifecycleInv, vars, TypeOK, RequestsValid, NoTicketsYet,
                  CutBeforeStitching
  <2>2. SomeoneChecks'
      BY <1>7 DEF LifecycleInv, vars, SomeoneChecks, AllReady, Checks
  <2> QED BY <2>1, <2>2 DEF LifecycleInv
<1> QED BY <1>1, <1>2, <1>3, <1>4, <1>5, <1>6, <1>7 DEF Next

\* The inductive invariant holds in every behaviour.
THEOREM LifecycleInvariant == Spec => []LifecycleInv
<1> QED BY InitInv, NextInv, PTL DEF Spec

\* Every row and every request in flight keeps its type.
THEOREM LifecycleTypes == Spec => []TypeOK
<1>1. LifecycleInv => TypeOK
    BY DEF LifecycleInv
<1> QED BY <1>1, LifecycleInvariant, PTL

\* moveTicket never lets a garment past cutting while its cloth is only reserved,
\* however many requests move its ticket at once and wherever they die.
THEOREM NoTicketSkipsTheCut == Spec => []CutBeforeStitching
<1>1. LifecycleInv => CutBeforeStitching
    BY DEF LifecycleInv
<1> QED BY <1>1, LifecycleInvariant, PTL

\* checkOrderReady misses no order: of any number of movers that finish its
\* tickets at once, one finds them all ready and marks the order.
THEOREM LastReadyTicketNoticed == Spec => []AllReadyNoticed
<1>1. LifecycleInv => AllReadyNoticed
  <2> SUFFICES ASSUME LifecycleInv, NEW o \in Orders \ disturbed,
                      status[o] # "absent", AllReady(o), ~InFlight(o),
                      status[o] \notin Closed
               PROVE  FALSE
      BY DEF AllReadyNoticed, Closed
  <2>1. PICK w \in Workers : Checks(w, o)
      BY DEF LifecycleInv, SomeoneChecks
  <2> QED BY <2>1 DEF InFlight, Checks, Target
<1> QED BY <1>1, LifecycleInvariant, PTL

\* Every status change is one the table allows, the workshop's jump to ready, or
\* a write that lost a race.
THEOREM StatusChangesFollowTable == Spec => StatusFollowsTable
<1> DEFINE Allowed(o) ==
          \/ status'[o] = status[o]
          \/ status[o] = "absent" /\ status'[o] = "pending"
          \/ status[o] \in OrderStatus /\ CanTransition(status[o], status'[o])
          \/ status'[o] = "ready" /\ status[o] # "delivered"
          \/ \E w \in Workers : StaleWriter(w, o) /\ request'[w] # request[w]
<1>1. LifecycleInv /\ [Next]_vars => \A o \in Orders : Allowed(o)
  <2> SUFFICES ASSUME LifecycleInv, [Next]_vars, NEW o \in Orders, status'[o] # status[o]
               PROVE  Allowed(o)
      OBVIOUS
  <2>1. TypeOK /\ RequestsValid
      BY DEF LifecycleInv
  <2>2. ASSUME NEW w \in Workers, NEW p \in Orders, NEW c, Checkout(w, p, c)
        PROVE  Allowed(o)
      BY <2>1, <2>2 DEF Checkout, TypeOK
  <2>3. ASSUME NEW p \in Orders, CreateOrder(p)
        PROVE  Allowed(o)
      BY <2>1, <2>3 DEF CreateOrder, TypeOK
  <2>4. ASSUME NEW w \in Workers, StatusWrite(w)
        PROVE  Allowed(o)
    <3>1. PICK r \in StatusRequest : r = request[w] /\ Valid(r, status, station, hold)
        BY <2>1, <2>4, RequestKinds DEF TypeOK, RequestsValid, StatusWrite
    <3>2. /\ status' = [status EXCEPT ![r.order] = r.to]
          /\ request' = [request EXCEPT ![w] = [r EXCEPT !.step = "publish"]]
          /\ r.step = "write" /\ r.op = "status" /\ r # None
        BY <2>4, <3>1 DEF StatusWrite, WriteStatus, Goto
    <3>3. o = r.order /\ status'[o] = r.to /\ CanTransition(r.seen, r.to)
          /\ r.seen \in OrderStatus
        BY <2>1, <3>1, <3>2 DEF TypeOK, Valid, StatusRequest
    <3>4. CASE r.seen = status[o]
        BY <3>3, <3>4
    <3>5. CASE r.seen # status[o]
      <4>1. StaleWriter(w, o)
          BY <3>1, <3>2, <3>3, <3>5 DEF StaleWriter
      <4>2. request'[w] # request[w]
          BY <2>1, <3>1, <3>2 DEF TypeOK, StatusRequest
      <4> QED BY <4>1, <4>2
    <3> QED BY <3>4, <3>5
  <2>5. ASSUME NEW w \in Workers, MarkReady(w)
        PROVE  Allowed(o)
    <3>1. PICK r \in MarkRequest : r = request[w] /\ Valid(r, status, station, hold)
        BY <2>1, <2>5, RequestKinds DEF TypeOK, RequestsValid, MarkReady
    <3>2. /\ status' = [status EXCEPT ![r.order] = "ready"]
          /\ request' = [request EXCEPT ![w] = None]
          /\ r.op = "mark" /\ r # None
        BY <2>5, <3>1 DEF MarkReady, WriteStatus, Done, Goto
    <3>3. o = r.order /\ status'[o] = "ready" /\ ~AlreadyThrough(r.seen)
        BY <2>1, <3>1, <3>2 DEF TypeOK, Valid
    <3>4. CASE r.seen = status[o]
        BY <3>3, <3>4 DEF AlreadyThrough
    <3>5. CASE r.seen # status[o]
      <4>1. StaleWriter(w, o)
          BY <3>1, <3>2, <3>3, <3>5 DEF StaleWriter
      <4>2. request'[w] # request[w]
          BY <2>1, <3>1, <3>2 DEF TypeOK
      <4> QED BY <4>1, <4>2
    <3> QED BY <3>4, <3>5
  <2>6. CASE status' = status
      BY <2>6
  <2> HIDE DEF Allowed
  <2> QED BY <2>2, <2>3, <2>4, <2>5, <2>6 DEF Next, vars, CreateTickets, StatusRead,
             StatusPublish, PublishFails, MoveRead, MoveCut, MoveCutRejected, MoveWrite,
             CheckTickets, CheckOrder, RequestDies
<1>2. (\A o \in Orders : Allowed(o)) => [\A o \in Orders : Allowed(o)]_vars
    OBVIOUS
<1> QED BY <1>1, <1>2, LifecycleInvariant, PTL DEF Spec, StatusFollowsTable
================================================================================
